--------------------------- MODULE AdmissionProofs ---------------------------
(***************************************************************************)
(* What the tree of missions looks like after any decisions: for any       *)
(* number of proposals, missions, keys, resolvers and faults and for all   *)
(* limits.  The caps and "one mission per proposal" hold as they stand;    *)
(* the budget holds while one unfreeze of the objective is in flight at a  *)
(* time, because a second one may write back a count that is too low.      *)
(***************************************************************************)
EXTENDS Admission, FiniteSetTheorems, TLAPS

(***************************************************************************)
(* Types                                                                   *)
(***************************************************************************)
MissionsOK   == missions \in [Mission -> MissionRow]
ProposalsOK  == proposals \in [Proposal -> ProposalRow]
ControllerOK == controller \in Controller
WritersOK    == writer \in [Writer -> WriterState]
PlainOK      == /\ limits \in Limits /\ objective \in Objective
                /\ spawner \in [Spawner -> {"ready", "checked", "done"}]
                /\ overdue \in BOOLEAN /\ faults \in Nat

\* The type invariant, conjunct by conjunct.
LEMMA TypeParts ==
    /\ TypeOK <=> MissionsOK /\ ProposalsOK /\ ControllerOK /\ WritersOK /\ PlainOK
    /\ TypeOK' <=> MissionsOK' /\ ProposalsOK' /\ ControllerOK' /\ WritersOK' /\ PlainOK'
    BY DEF TypeOK, MissionsOK, ProposalsOK, ControllerOK, WritersOK, PlainOK

\* Where the controller has a proposal in hand.
InHand == {"parent", "decide", "reject", "approve", "enqueue", "count", "freeze", "freezeReject"}

\* Rows not given out are empty; the controller knows rows that were.
Known ==
    /\ \A m \in Mission : missions[m].status = "none" => missions[m] = NoMission
    /\ \A p \in Proposal : proposals[p].status # "none" =>
         proposals[p].parent \in Mission /\ missions[proposals[p].parent].status # "none"
    /\ \A p \in controller.todo : proposals[p].status # "none"
    /\ controller.pc \in InHand =>
         controller.prop \in Proposal /\ proposals[controller.prop].status # "none"

\* Ids are positive numbers; NULL is none of them.
LEMMA IdsAreNumbers ==
    /\ NoId \notin Mission /\ NoId \notin Proposal
    /\ Mission \subseteq Nat /\ Proposal \subseteq Nat
    BY AdmissionAssumption DEF Mission, Proposal, NoId

\* The limits of an objective are numbers.
LEMMA LimitsAreNumbers ==
    ASSUME PlainOK
    PROVE  limits.max_missions \in Nat /\ limits.max_depth \in Nat /\ limits.max_branching \in Nat
    BY AdmissionAssumption DEF PlainOK

\* What the rows and locals are at rest has the types of rows and locals.
LEMMA RestingStates ==
    /\ OpenObjective \in Objective /\ IdleController \in Controller /\ IdleWriter \in WriterState
    /\ NoMission \in MissionRow /\ NoProposal \in ProposalRow
    /\ \A t \in SUBSET Proposal : [IdleController EXCEPT !.pc = "next", !.todo = t] \in Controller
    BY DEF OpenObjective, Objective, ObjStatus, IdleController, Controller, ControllerPc, IdleWriter,
           WriterState, NoMission, MissionRow, NoProposal, ProposalRow, NoKey, NoId

\* What is left alone keeps its type.
LEMMA KeptTypes ==
    /\ missions' = missions /\ MissionsOK => MissionsOK'
    /\ proposals' = proposals /\ ProposalsOK => ProposalsOK'
    /\ controller' = controller /\ ControllerOK => ControllerOK'
    /\ writer' = writer /\ WritersOK => WritersOK'
    BY DEF MissionsOK, ProposalsOK, ControllerOK, WritersOK

\* The controller goes on; nothing else moves.
LEMMA PlainKept ==
    ASSUME PlainOK, UNCHANGED <<limits, spawner, overdue>>, objective' \in Objective, faults' \in Nat
    PROVE  PlainOK'
    BY DEF PlainOK

\* The states of the controller that differ from this one in their place.
LEMMA PlaceStates ==
    ASSUME ControllerOK, NEW place \in ControllerPc
    PROVE  /\ [controller EXCEPT !.pc = place] \in Controller
           /\ [controller EXCEPT !.pc = place, !.obj = OpenObjective] \in Controller
    BY RestingStates DEF ControllerOK, Controller

\* So has the state in which the controller takes the next proposal.
LEMMA NextState ==
    ASSUME ControllerOK
    PROVE  [IdleController EXCEPT !.pc = "next", !.todo = controller.todo] \in Controller
<1>1. controller.todo \in SUBSET Proposal
    BY DEF ControllerOK, Controller
<1>. QED
    BY <1>1, RestingStates

\* The controller's states after a verdict of checkConvergence.
LEMMA ClosingStates ==
    ASSUME ControllerOK, NEW t \in Closed
    PROVE  [controller EXCEPT !.pc = "close", !.obj.status = t] \in Controller
    BY DEF ControllerOK, Controller, ControllerPc, Objective, ObjStatus

\* checkConvergence leaves no proposal in hand.
LEMMA VerdictStates ==
    ASSUME ControllerOK,
           \/ controller' = IdleController \/ controller' = [controller EXCEPT !.pc = "lastCheck"]
           \/ \E t \in Closed : controller' = [controller EXCEPT !.pc = "close", !.obj.status = t]
    PROVE  /\ ControllerOK' /\ controller'.pc \notin InHand
           /\ controller'.todo \in {{}, controller.todo}
<1>1. controller' \in Controller
    <2>1. [controller EXCEPT !.pc = "lastCheck"] \in Controller
        BY PlaceStates DEF ControllerPc
    <2>2. IdleController \in Controller
        BY RestingStates
    <2>. QED
        BY <2>1, <2>2, ClosingStates
<1>2. controller'.pc \in {"idle", "lastCheck", "close"} /\ controller'.todo \in {{}, controller.todo}
    <2>1. CASE controller' = IdleController
        BY <2>1 DEF IdleController
    <2>2. CASE controller' = [controller EXCEPT !.pc = "lastCheck"]
        BY <2>2 DEF ControllerOK, Controller
    <2>3. ASSUME NEW t \in Closed, controller' = [controller EXCEPT !.pc = "close", !.obj.status = t]
          PROVE  controller'.pc = "close" /\ controller'.todo = controller.todo
        BY <2>3 DEF ControllerOK, Controller
    <2>. QED
        BY <2>1, <2>2, <2>3
<1>. QED
    BY <1>1, <1>2 DEF ControllerOK, InHand

\* RejectAllPending touches pending rows, and only their status.
LEMMA AllRejected ==
    ASSUME ProposalsOK, RejectAllPending
    PROVE  \A p \in Proposal :
             /\ proposals'[p].parent = proposals[p].parent
             /\ proposals'[p].status = IF proposals[p].status = "pending" THEN "rejected"
                                                                      ELSE proposals[p].status
    BY DEF RejectAllPending, Pending, ProposalsOK

(***************************************************************************)
(* Type correctness                                                        *)
(***************************************************************************)
\* Types are kept, and what is known of rows, by every step.
LEMMA AdmissionTypes ==
    ASSUME TypeOK, Known, [Next]_vars
    PROVE  TypeOK' /\ Known'
<1>. USE DEF AtC, Become, NextProposal, InHand
<1>0. MissionsOK /\ ProposalsOK /\ ControllerOK /\ WritersOK /\ PlainOK
    BY TypeParts
<1>00. objective \in Objective /\ faults \in Nat /\ faults + 1 \in Nat
    BY <1>0 DEF PlainOK
<1>1. ASSUME NEW p \in Proposal, (\E m \in Mission, k \in Key, e \in Evidence : Propose(p, m, k, e)), UNCHANGED limits PROVE TypeOK' /\ Known'
  <2>1. ProposalsOK'
    BY <1>0, <1>1, AdmissionAssumption DEF Propose, ProposalsOK, ProposalRow
  <2>2. Known'
    BY <1>0, <1>1 DEF Propose, Known, ProposalsOK
  <2>. QED
    BY <1>0, <1>00, <1>1, <2>1, <2>2, TypeParts, KeptTypes, PlainKept DEF Propose
<1>2. ASSUME ReportFinding, UNCHANGED limits PROVE TypeOK' /\ Known'
  <2>1. PlainOK'
    BY <1>0, <1>2 DEF ReportFinding, PlainOK, Objective
  <2>2. Known'
    BY <1>2 DEF ReportFinding, Known
  <2>. QED
    BY <1>0, <1>00, <1>2, <2>1, <2>2, TypeParts, KeptTypes, PlainKept DEF ReportFinding
<1>3. ASSUME NEW w \in Writer, ReadObjective(w), UNCHANGED limits PROVE TypeOK' /\ Known'
  <2>1. WritersOK'
    <3>1. PICK t \in Target(w) : /\ AllowedTransition(objective.status, t)
                               /\ writer' = [writer EXCEPT ![w] = [busy |-> TRUE, obj |-> [objective EXCEPT !.status = t]]]
      BY <1>3 DEF ReadObjective
    <3>2. t \in ObjStatus
      BY <3>1 DEF AllowedTransition, ObjStatus
    <3>3. [objective EXCEPT !.status = t] \in Objective
      BY <1>00, <3>2 DEF Objective
    <3>. QED
      BY <1>0, <3>1, <3>3 DEF WritersOK, WriterState
  <2>2. Known'
    BY <1>3 DEF ReadObjective, Known
  <2>. QED
    BY <1>0, <1>00, <1>3, <2>1, <2>2, TypeParts, KeptTypes, PlainKept DEF ReadObjective
<1>4. ASSUME NEW w \in Writer, UpdateObjective(w), UNCHANGED limits PROVE TypeOK' /\ Known'
  <2>1. WritersOK'
    BY <1>0, <1>4, RestingStates DEF UpdateObjective, WritersOK
  <2>2. PlainOK'
    BY <1>0, <1>4 DEF UpdateObjective, PlainOK, WritersOK, WriterState
  <2>3. Known'
    BY <1>4 DEF UpdateObjective, Known
  <2>. QED
    BY <1>0, <1>00, <1>4, <2>1, <2>2, <2>3, TypeParts, KeptTypes, PlainKept DEF UpdateObjective
<1>5. ASSUME NEW r \in Spawner, SpawnCheck(r), UNCHANGED limits PROVE TypeOK' /\ Known'
  <2>1. PlainOK'
    BY <1>0, <1>5 DEF SpawnCheck, PlainOK
  <2>2. Known'
    BY <1>5 DEF SpawnCheck, Known
  <2>. QED
    BY <1>0, <1>00, <1>5, <2>1, <2>2, TypeParts, KeptTypes, PlainKept DEF SpawnCheck
<1>6. ASSUME NEW r \in Spawner, (\E m \in Mission : SpawnEnqueue(r, m)), UNCHANGED limits PROVE TypeOK' /\ Known'
  <2>1. MissionsOK'
    BY <1>0, <1>6 DEF SpawnEnqueue, MissionsOK, MissionRow, Active
  <2>2. PlainOK'
    BY <1>0, <1>6 DEF SpawnEnqueue, PlainOK
  <2>3. Known'
    BY <1>0, <1>6 DEF SpawnEnqueue, Known, MissionsOK, ProposalsOK
  <2>. QED
    BY <1>0, <1>00, <1>6, <2>1, <2>2, <2>3, TypeParts, KeptTypes, PlainKept DEF SpawnEnqueue
<1>7. ASSUME NEW m \in Mission, QueueStep(m), UNCHANGED limits PROVE TypeOK' /\ Known'
  <2>1. MissionsOK'
    <3>1. PICK t \in {"claimed", "deleted", "pending", "ended", "cancelled"} :
              missions' = [missions EXCEPT ![m].status = t] /\ missions[m].status # "none"
      BY <1>7 DEF QueueStep
    <3>. QED
      BY <1>0, <3>1 DEF MissionsOK, MissionRow, Active
  <2>2. Known'
    <3>1. PICK t \in {"claimed", "deleted", "pending", "ended", "cancelled"} :
              missions' = [missions EXCEPT ![m].status = t] /\ missions[m].status # "none"
      BY <1>7 DEF QueueStep
    <3>. QED
      BY <1>0, <1>7, <3>1 DEF QueueStep, Known, MissionsOK
  <2>. QED
    BY <1>0, <1>00, <1>7, <2>1, <2>2, TypeParts, KeptTypes, PlainKept DEF QueueStep
<1>8. ASSUME TimePasses, UNCHANGED limits PROVE TypeOK' /\ Known'
  <2>1. PlainOK'
    BY <1>0, <1>8 DEF TimePasses, PlainOK
  <2>2. Known'
    BY <1>8 DEF TimePasses, Known
  <2>. QED
    BY <1>0, <1>00, <1>8, <2>1, <2>2, TypeParts, KeptTypes, PlainKept DEF TimePasses
<1>9. ASSUME FetchPending, UNCHANGED limits PROVE TypeOK' /\ Known'
  <2>1. ControllerOK'
    BY <1>0, <1>9, RestingStates DEF FetchPending, ControllerOK, Pending
  <2>2. Known'
    BY <1>9 DEF FetchPending, Known, IdleController, Pending
  <2>. QED
    BY <1>0, <1>00, <1>9, <2>1, <2>2, TypeParts, KeptTypes, PlainKept DEF FetchPending
<1>10. ASSUME NEW p \in Proposal, LoadProposal(p), UNCHANGED limits PROVE TypeOK' /\ Known'
  <2>1. ControllerOK'
    BY <1>0, <1>00, <1>10 DEF LoadProposal, ControllerOK, Controller, ControllerPc
  <2>2. Known'
    BY <1>0, <1>10 DEF LoadProposal, Known
  <2>. QED
    BY <1>0, <1>00, <1>10, <2>1, <2>2, TypeParts, KeptTypes, PlainKept DEF LoadProposal
<1>11. ASSUME ReadParent, UNCHANGED limits PROVE TypeOK' /\ Known'
  <2>1. ControllerOK'
    <3>1. controller' = [controller EXCEPT !.pc = "decide"]
            \/ controller' = [controller EXCEPT !.pc = "reject", !.obj = OpenObjective]
      BY <1>11 DEF ReadParent
    <3>. QED
      BY <1>0, <3>1, PlaceStates, NextState DEF ControllerOK, ControllerPc
  <2>2. Known'
    BY <1>0, <1>11 DEF ReadParent, Known, IdleController, ControllerOK, Controller
  <2>. QED
    BY <1>0, <1>00, <1>11, <2>1, <2>2, TypeParts, KeptTypes, PlainKept DEF ReadParent
<1>12. ASSUME Decide, UNCHANGED limits PROVE TypeOK' /\ Known'
  <2>1. ControllerOK'
    <3>1. PICK d \in {"reject", "freeze", "approve"} :
              controller' = [controller EXCEPT !.pc = d, !.obj = IF d = "freeze" THEN @ ELSE OpenObjective]
      BY <1>12 DEF Decide, Decision
    <3>. QED
      BY <1>0, <3>1, RestingStates DEF ControllerOK, Controller, ControllerPc
  <2>2. Known'
    <3>1. PICK d \in {"reject", "freeze", "approve"} :
              controller' = [controller EXCEPT !.pc = d, !.obj = IF d = "freeze" THEN @ ELSE OpenObjective]
      BY <1>12 DEF Decide, Decision
    <3>. QED
      BY <1>0, <1>12, <3>1 DEF Decide, Known, ControllerOK, Controller
  <2>. QED
    BY <1>0, <1>00, <1>12, <2>1, <2>2, TypeParts, KeptTypes, PlainKept DEF Decide
<1>13. ASSUME Reject, UNCHANGED limits PROVE TypeOK' /\ Known'
  <2>1. ControllerOK'
    BY <1>0, <1>13, RestingStates DEF Reject, ControllerOK, Controller, ControllerPc
  <2>2. ProposalsOK'
    BY <1>0, <1>13 DEF Reject, ProposalsOK, ProposalRow, Known
  <2>3. Known'
    BY <1>0, <1>13 DEF Reject, Known, IdleController, ProposalsOK
  <2>. QED
    BY <1>0, <1>00, <1>13, <2>1, <2>2, <2>3, TypeParts, KeptTypes, PlainKept DEF Reject
<1>14. ASSUME Approve, UNCHANGED limits PROVE TypeOK' /\ Known'
  <2>1. ControllerOK'
    BY <1>0, <1>14 DEF Approve, ControllerOK, Controller, ControllerPc
  <2>2. ProposalsOK'
    BY <1>0, <1>14 DEF Approve, ProposalsOK, ProposalRow, Known
  <2>3. Known'
    BY <1>0, <1>14 DEF Approve, Known, ProposalsOK, ControllerOK, Controller
  <2>. QED
    BY <1>0, <1>00, <1>14, <2>1, <2>2, <2>3, TypeParts, KeptTypes, PlainKept DEF Approve
<1>15. ASSUME EnqueueChild, UNCHANGED limits PROVE TypeOK' /\ Known'
  <2>1. ControllerOK'
    <3>1. controller' = [controller EXCEPT !.pc = "count"]
            \/ controller' = [IdleController EXCEPT !.pc = "next", !.todo = controller.todo]
      BY <1>15 DEF EnqueueChild
    <3>. QED
      BY <1>0, <3>1, PlaceStates, NextState DEF ControllerOK, ControllerPc
  <2>2. MissionsOK'
    <3>1. CASE missions' = missions
      BY <1>0, <3>1, KeptTypes
    <3>2. ASSUME NEW m \in Mission,
                 missions' = [missions EXCEPT ![m] =
                       [status |-> "pending", depth |-> missions[Cur.parent].depth + 1,
                        parent |-> Cur.parent, key |-> Cur.key, source |-> controller.prop]]
          PROVE  MissionsOK'
      <4>1. controller.prop \in Proposal /\ Cur.parent \in Mission /\ Cur.key \in Key \union {NoKey}
        BY <1>0, <1>15 DEF EnqueueChild, Known, Cur, ProposalsOK, ProposalRow
      <4>2. missions[Cur.parent].depth + 1 \in Nat
        BY <1>0, <4>1 DEF MissionsOK, MissionRow
      <4>. QED
        BY <1>0, <3>2, <4>1, <4>2 DEF MissionsOK, MissionRow, Active
    <3>. QED
      BY <1>15, <3>1, <3>2 DEF EnqueueChild
  <2>3. Known'
    <3>1. CASE missions' = missions
      BY <1>0, <1>15, <3>1 DEF EnqueueChild, Known, IdleController, ControllerOK, Controller
    <3>2. ASSUME NEW m \in Mission, missions[m].status = "none",
                 missions' = [missions EXCEPT ![m] =
                       [status |-> "pending", depth |-> missions[Cur.parent].depth + 1,
                        parent |-> Cur.parent, key |-> Cur.key, source |-> controller.prop]],
                 controller' = [controller EXCEPT !.pc = "count"]
          PROVE  Known'
      BY <1>0, <1>15, <3>2 DEF EnqueueChild, Known, MissionsOK, ProposalsOK, ControllerOK, Controller
    <3>. QED
      BY <1>15, <3>1, <3>2 DEF EnqueueChild, IsNext
  <2>. QED
    BY <1>0, <1>00, <1>15, <2>1, <2>2, <2>3, TypeParts, KeptTypes, PlainKept DEF EnqueueChild
<1>16. ASSUME CountMission, UNCHANGED limits PROVE TypeOK' /\ Known'
  <2>1. ControllerOK'
    BY <1>0, <1>16, RestingStates DEF CountMission, ControllerOK, Controller, ControllerPc
  <2>2. PlainOK'
    BY <1>0, <1>16 DEF CountMission, PlainOK, Objective
  <2>3. Known'
    BY <1>0, <1>16 DEF CountMission, Known, IdleController
  <2>. QED
    BY <1>0, <1>00, <1>16, <2>1, <2>2, <2>3, TypeParts, KeptTypes, PlainKept DEF CountMission
<1>17. ASSUME Freeze, UNCHANGED limits PROVE TypeOK' /\ Known'
  <2>1. ControllerOK'
    BY <1>0, <1>17 DEF Freeze, ControllerOK, Controller, ControllerPc
  <2>2. PlainOK'
    BY <1>0, <1>17 DEF Freeze, PlainOK, ControllerOK, Controller, Objective, ObjStatus
  <2>3. Known'
    BY <1>0, <1>17 DEF Freeze, Known, IdleController, ControllerOK, Controller
  <2>. QED
    BY <1>0, <1>00, <1>17, <2>1, <2>2, <2>3, TypeParts, KeptTypes, PlainKept DEF Freeze
<1>18. ASSUME FreezeReject, UNCHANGED limits PROVE TypeOK' /\ Known'
  <2>1. ControllerOK'
    BY <1>0, <1>18, RestingStates DEF FreezeReject, ControllerOK, Controller, ControllerPc
  <2>2. ProposalsOK'
    BY <1>0, <1>18 DEF FreezeReject, RejectAllPending, Pending, ProposalsOK, ProposalRow
  <2>3. Known'
    <3>1. controller'.todo = controller.todo /\ controller'.pc = "next" /\ missions' = missions
      BY <1>18 DEF FreezeReject, IdleController
    <3>2. \A p \in Proposal : /\ proposals'[p].parent = proposals[p].parent
                              /\ proposals'[p].status = "none" <=> proposals[p].status = "none"
      BY <1>0, <1>18, AllRejected DEF FreezeReject
    <3>. QED
      BY <1>0, <3>1, <3>2 DEF Known, ControllerOK, Controller
  <2>. QED
    BY <1>0, <1>00, <1>18, <2>1, <2>2, <2>3, TypeParts, KeptTypes, PlainKept DEF FreezeReject
<1>19. ASSUME ListOpen, UNCHANGED limits PROVE TypeOK' /\ Known'
  <2>1. ControllerOK'
    BY <1>0, <1>00, <1>19 DEF ListOpen, ControllerOK, Controller, ControllerPc, IdleController, OpenObjective, Objective, ObjStatus
  <2>2. Known'
    BY <1>0, <1>19 DEF ListOpen, Known, IdleController
  <2>. QED
    BY <1>0, <1>00, <1>19, <2>1, <2>2, TypeParts, KeptTypes, PlainKept DEF ListOpen
<1>20. ASSUME Converge, UNCHANGED limits PROVE TypeOK' /\ Known'
  <2>1. ControllerOK'
    BY <1>0, <1>20, VerdictStates DEF Converge, CloseAs, Closed
  <2>2. Known'
    <3>1. controller'.pc \notin InHand /\ controller'.todo \in {{}, controller.todo}
      BY <1>0, <1>20, VerdictStates DEF Converge, CloseAs, Closed
    <3>. QED
      BY <1>20, <3>1 DEF Converge, Known
  <2>. QED
    BY <1>0, <1>00, <1>20, <2>1, <2>2, TypeParts, KeptTypes, PlainKept DEF Converge
<1>21. ASSUME LastCheck, UNCHANGED limits PROVE TypeOK' /\ Known'
  <2>1. ControllerOK'
    BY <1>0, <1>21, VerdictStates DEF LastCheck, CloseAs, Closed
  <2>2. Known'
    <3>1. controller'.pc \notin InHand /\ controller'.todo \in {{}, controller.todo}
      BY <1>0, <1>21, VerdictStates DEF LastCheck, CloseAs, Closed
    <3>. QED
      BY <1>21, <3>1 DEF LastCheck, Known
  <2>. QED
    BY <1>0, <1>00, <1>21, <2>1, <2>2, TypeParts, KeptTypes, PlainKept DEF LastCheck
<1>22. ASSUME Close, UNCHANGED limits PROVE TypeOK' /\ Known'
  <2>1. ControllerOK'
    BY <1>0, <1>22 DEF Close, ControllerOK, Controller, ControllerPc
  <2>2. PlainOK'
    BY <1>0, <1>22 DEF Close, PlainOK, ControllerOK, Controller
  <2>3. Known'
    BY <1>0, <1>22 DEF Close, Known, IdleController, ControllerOK, Controller
  <2>. QED
    BY <1>0, <1>00, <1>22, <2>1, <2>2, <2>3, TypeParts, KeptTypes, PlainKept DEF Close
<1>23. ASSUME CloseReject, UNCHANGED limits PROVE TypeOK' /\ Known'
  <2>1. ControllerOK'
    BY <1>0, <1>23, RestingStates DEF CloseReject, ControllerOK, Controller, ControllerPc
  <2>2. ProposalsOK'
    BY <1>0, <1>23 DEF CloseReject, RejectAllPending, Pending, ProposalsOK, ProposalRow
  <2>3. Known'
    BY <1>0, <1>23 DEF CloseReject, RejectAllPending, Pending, Known, IdleController, ProposalsOK
  <2>. QED
    BY <1>0, <1>00, <1>23, <2>1, <2>2, <2>3, TypeParts, KeptTypes, PlainKept DEF CloseReject
<1>24. ASSUME StatementFails, UNCHANGED limits PROVE TypeOK' /\ Known'
  <2>1. ControllerOK'
    BY <1>0, <1>24, RestingStates DEF StatementFails, AfterError, ControllerOK, Controller, ControllerPc
  <2>2. PlainOK'
    BY <1>0, <1>24 DEF StatementFails, PlainOK
  <2>3. Known'
    <3>1. \/ controller' = IdleController
          \/ controller' = [IdleController EXCEPT !.pc = "next", !.todo = controller.todo]
          \/ /\ controller' = [controller EXCEPT !.pc = "reject", !.obj = OpenObjective]
             /\ controller.pc \in {"parent", "decide"}
      BY <1>0, <1>24 DEF StatementFails, AfterError, ControllerOK, Controller, ControllerPc
    <3>. QED
      <4>1. CASE controller' = IdleController
        BY <1>24, <4>1 DEF StatementFails, Known, IdleController
      <4>2. CASE controller' = [IdleController EXCEPT !.pc = "next", !.todo = controller.todo]
        BY <1>24, <4>2 DEF StatementFails, Known, IdleController
      <4>3. CASE /\ controller' = [controller EXCEPT !.pc = "reject", !.obj = OpenObjective]
                 /\ controller.pc \in {"parent", "decide"}
        BY <1>0, <1>24, <4>3 DEF StatementFails, Known, ControllerOK, Controller
      <4>. QED
        BY <3>1, <4>1, <4>2, <4>3
  <2>. QED
    BY <1>0, <1>00, <1>24, <2>1, <2>2, <2>3, TypeParts, KeptTypes, PlainKept DEF StatementFails
<1>25. ASSUME Restart, UNCHANGED limits PROVE TypeOK' /\ Known'
  <2>1. ControllerOK'
    BY <1>0, <1>25, RestingStates DEF Restart, ControllerOK, Controller, ControllerPc
  <2>2. WritersOK'
    BY <1>25, RestingStates DEF Restart, WritersOK
  <2>3. PlainOK'
    BY <1>0, <1>25 DEF Restart, PlainOK
  <2>4. Known'
    BY <1>0, <1>25 DEF Restart, Known, IdleController
  <2>. QED
    BY <1>0, <1>00, <1>25, <2>1, <2>2, <2>3, <2>4, TypeParts, KeptTypes, PlainKept DEF Restart
<1>26. ASSUME UNCHANGED vars PROVE TypeOK' /\ Known'
    BY <1>0, <1>26, TypeParts, KeptTypes, PlainKept DEF vars, work, Known, PlainOK
<1>. QED
    BY <1>1, <1>2, <1>3, <1>4, <1>5, <1>6, <1>7, <1>8, <1>9, <1>10, <1>11, <1>12, <1>13, <1>14, <1>15, <1>16, <1>17, <1>18, <1>19, <1>20, <1>21, <1>22, <1>23, <1>24, <1>25, <1>26 DEF Next, ControllerStep

(***************************************************************************)
(* What a step may do to the tree.                                         *)
(***************************************************************************)

\* A step of anyone but the controller.
OtherStep ==
    \/ \E p \in Proposal, m \in Mission, k \in Key, e \in Evidence : Propose(p, m, k, e)
    \/ ReportFinding
    \/ \E w \in Writer : ReadObjective(w) \/ UpdateObjective(w)
    \/ \E s \in Spawner : SpawnCheck(s) \/ \E m \in Mission : SpawnEnqueue(s, m)
    \/ \E m \in Mission : QueueStep(m)
    \/ TimePasses
    \/ UNCHANGED work

\* A step is one of the controller, a fault, or one of somebody else.
LEMMA StepsSplit ==
    ASSUME [Next]_vars
    PROVE  /\ limits' = limits
           /\ OtherStep \/ ControllerStep \/ StatementFails \/ Restart
    BY DEF Next, vars, OtherStep

\* Rows stay in the tree where they are, and none becomes active in it.
TreeKept ==
    \A c \in Mission :
      /\ missions'[c].depth = missions[c].depth
      /\ missions'[c].parent = missions[c].parent
      /\ missions'[c].source = missions[c].source
      /\ missions'[c].parent \in Mission /\ missions'[c].status \in Active
           => missions[c].status \in Active

\* Rows of proposals stay as they are once given out.
RowsKept == \A p \in Proposal : proposals[p].status # "none" => proposals'[p] = proposals[p]

\* A step that writes no mission leaves the tree alone.
LEMMA SameMissions ==
    ASSUME missions' = missions
    PROVE  TreeKept
    BY DEF TreeKept

\* Nobody but the controller adds to the tree or decides a proposal.
LEMMA OthersKeep ==
    ASSUME TypeOK, Known, OtherStep
    PROVE  TreeKept /\ RowsKept /\ controller' = controller /\ faults' = faults
<1>0. MissionsOK /\ ProposalsOK
    BY TypeParts
<1>1. ASSUME NEW p \in Proposal, NEW m \in Mission, NEW k \in Key, NEW e \in Evidence, Propose(p, m, k, e)
      PROVE  TreeKept /\ RowsKept /\ controller' = controller /\ faults' = faults
    BY <1>0, <1>1, SameMissions DEF Propose, IsNext, RowsKept, ProposalsOK
<1>2. ASSUME NEW s \in Spawner, NEW m \in Mission, SpawnEnqueue(s, m)
      PROVE  TreeKept /\ RowsKept /\ controller' = controller /\ faults' = faults
    <2>1. missions[m] = NoMission /\ missions' = [missions EXCEPT ![m].status = "pending"]
        BY <1>2 DEF SpawnEnqueue, IsNext, Known
    <2>2. TreeKept
        BY <1>0, <2>1, IdsAreNumbers DEF TreeKept, MissionsOK, MissionRow, NoMission
    <2>. QED
        BY <1>2, <2>2 DEF SpawnEnqueue, RowsKept
<1>3. ASSUME NEW m \in Mission, QueueStep(m)
      PROVE  TreeKept /\ RowsKept /\ controller' = controller /\ faults' = faults
    <2>1. PICK t \in {"claimed", "deleted", "pending", "ended", "cancelled"} :
            missions' = [missions EXCEPT ![m].status = t] /\ missions[m].status \in Active
        BY <1>3 DEF QueueStep, Active
    <2>2. TreeKept
        BY <1>0, <2>1 DEF TreeKept, MissionsOK, MissionRow
    <2>. QED
        BY <1>3, <2>2 DEF QueueStep, RowsKept
<1>4. CASE ReportFinding \/ TimePasses \/ UNCHANGED work
    BY <1>4, SameMissions DEF ReportFinding, TimePasses, work, RowsKept
<1>5. CASE \E w \in Writer : ReadObjective(w) \/ UpdateObjective(w)
    BY <1>5, SameMissions DEF ReadObjective, UpdateObjective, RowsKept
<1>6. CASE \E s \in Spawner : SpawnCheck(s)
    BY <1>6, SameMissions DEF SpawnCheck, RowsKept
<1>. QED
    BY <1>1, <1>2, <1>3, <1>4, <1>5, <1>6 DEF OtherStep

(***************************************************************************)
(* Counting missions                                                       *)
(***************************************************************************)
\* Children and active children can be counted.
LEMMA SetsAreFinite ==
    /\ IsFiniteSet(Children) /\ Cardinality(Children) \in Nat
    /\ IsFiniteSet(Children') /\ Cardinality(Children') \in Nat
    /\ \A m \in Mission :
         /\ IsFiniteSet(ActiveChildren(m)) /\ Cardinality(ActiveChildren(m)) \in Nat
         /\ IsFiniteSet(ActiveChildren(m)') /\ Cardinality(ActiveChildren(m)') \in Nat
<1>1. IsFiniteSet(Mission)
    BY AdmissionAssumption, FS_Interval DEF Mission
<1>2. ASSUME NEW S \in SUBSET Mission PROVE IsFiniteSet(S) /\ Cardinality(S) \in Nat
    BY <1>1, FS_Subset, FS_CardinalityType
<1>. QED
    BY <1>2 DEF Children, ActiveChildren

\* Where the tree is left alone, nothing counts more than before.
LEMMA TreeKeptCounts ==
    ASSUME TreeKept
    PROVE  /\ Children' = Children
           /\ \A m \in Mission : Cardinality(ActiveChildren(m)') <= Cardinality(ActiveChildren(m))
<1>1. Children' = Children
    BY DEF TreeKept, Children
<1>2. ASSUME NEW m \in Mission
      PROVE  Cardinality(ActiveChildren(m)') <= Cardinality(ActiveChildren(m))
    <2>1. ActiveChildren(m)' \subseteq ActiveChildren(m)
        BY DEF TreeKept, ActiveChildren
    <2>. QED
        BY <2>1, SetsAreFinite, FS_Subset
<1>. QED
    BY <1>1, <1>2

\* The row that Enqueue inserts for the proposal in hand.
Child == [status |-> "pending", depth |-> missions[Cur.parent].depth + 1,
          parent |-> Cur.parent, key |-> Cur.key, source |-> controller.prop]

\* A new child is one more, of one parent.
LEMMA ChildCounts ==
    ASSUME MissionsOK, NEW c \in Mission, missions[c] = NoMission,
           NEW q \in Mission, q = Cur.parent, controller.prop \in Proposal,
           missions' = [missions EXCEPT ![c] = Child]
    PROVE  /\ Cardinality(Children') = Cardinality(Children) + 1
           /\ Cardinality(ActiveChildren(q)') = Cardinality(ActiveChildren(q)) + 1
           /\ \A m \in Mission \ {q} : ActiveChildren(m)' = ActiveChildren(m)
<1>0. /\ Child.source = controller.prop /\ Child.parent = q /\ Child.status \in Active
      /\ NoMission.source = NoId /\ NoMission.parent = NoId
      /\ NoId \notin Mission /\ NoId \notin Proposal
    BY IdsAreNumbers DEF Child, Active, NoMission
<1>1. \A d \in Mission : missions'[d] = IF d = c THEN Child ELSE missions[d]
    BY DEF MissionsOK
<1>2. Children' = Children \cup {c} /\ c \notin Children
    BY <1>0, <1>1 DEF Children
<1>3. \A m \in Mission : ActiveChildren(m)' = {d \in Mission : missions'[d].parent = m /\ missions'[d].status \in Active}
    BY DEF ActiveChildren
<1>4. \A m \in Mission : c \notin ActiveChildren(m)
    BY <1>0 DEF ActiveChildren
<1>5. ActiveChildren(q)' = ActiveChildren(q) \cup {c}
    <2>1. {d \in Mission : missions'[d].parent = q /\ missions'[d].status \in Active}
            = ActiveChildren(q) \cup {c}
        BY <1>0, <1>1 DEF ActiveChildren
    <2>. QED
        BY <1>3, <2>1
<1>6. ASSUME NEW m \in Mission \ {q} PROVE ActiveChildren(m)' = ActiveChildren(m)
    BY <1>0, <1>1, <1>3 DEF ActiveChildren
<1>. QED
    BY <1>2, <1>4, <1>5, <1>6, SetsAreFinite, FS_AddElement

\* Enqueue finds a duplicate, or inserts the child of the proposal in hand.
LEMMA EnqueueCases ==
    ASSUME TypeOK, Known, EnqueueChild
    PROVE  /\ controller.prop \in Proposal /\ Cur.parent \in Mission /\ missions[Cur.parent].status # "none"
           /\ proposals' = proposals /\ objective' = objective /\ writer' = writer /\ faults' = faults
           /\ \/ missions' = missions /\ NextProposal
              \/ \E c \in Mission : /\ missions[c] = NoMission
                                    /\ missions' = [missions EXCEPT ![c] = Child]
                                    /\ controller' = [controller EXCEPT !.pc = "count"]
<1>1. /\ controller.prop \in Proposal /\ Cur.parent \in Mission /\ missions[Cur.parent].status # "none"
    BY DEF EnqueueChild, AtC, Known, InHand, Cur
<1>2. CASE DedupeHit(Cur.key)
    BY <1>1, <1>2 DEF EnqueueChild
<1>3. CASE ~DedupeHit(Cur.key)
    <2>1. PICK c \in Mission : IsNext(c, missions) /\ missions' = [missions EXCEPT ![c] = Child]
        BY <1>3 DEF EnqueueChild, Child
    <2>2. missions[c] = NoMission
        BY <2>1 DEF IsNext, Known
    <2>. QED
        BY <1>1, <1>3, <2>1, <2>2 DEF EnqueueChild, Become
<1>. QED
    BY <1>2, <1>3

\* What a step of the controller other than Enqueue leaves alone.
LEMMA ControllerKeeps ==
    ASSUME ControllerStep \/ StatementFails \/ Restart, ~EnqueueChild
    PROVE  missions' = missions
    BY DEF ControllerStep, FetchPending, ReadParent, Decide, Reject, Approve, CountMission, Freeze,
           FreezeReject, ListOpen, Converge, LastCheck, Close, CloseReject, LoadProposal,
           StatementFails, Restart

(***************************************************************************)
(* The caps of the tree, and one mission per proposal                      *)
(***************************************************************************)

\* Where the proposal in hand has no mission yet.
BeforeChild == {"parent", "decide", "approve", "enqueue"}

\* A proposal that has its mission is decided, and not in hand again.
Spent ==
    \A c \in Mission : missions[c].source # NoId =>
      /\ proposals[missions[c].source].status \in {"approved", "rejected"}
      /\ missions[c].source \notin controller.todo
      /\ controller.pc \in BeforeChild => missions[c].source # controller.prop

InTurn ==
    /\ controller.pc \in InHand => controller.prop \notin controller.todo
    /\ controller.pc = "enqueue" => Cur.status = "approved"

\* What the policy found when it approved holds until the child is there: only
\* the controller adds to the tree.
RoomFor(q) ==
    /\ Cardinality(ActiveChildren(q)) < limits.max_branching
    /\ missions[q].depth + 1 <= limits.max_depth

Room == controller.pc \in {"approve", "enqueue"} => RoomFor(Cur.parent)

TreeInv == Spent /\ InTurn /\ Room /\ TreeWithinCaps /\ OneMissionPerProposal

\* Caps and room survive a step that leaves the tree alone.
LEMMA CapsKept ==
    ASSUME TypeOK, TreeWithinCaps, OneMissionPerProposal, TreeKept, limits' = limits
    PROVE  /\ TreeWithinCaps' /\ OneMissionPerProposal'
           /\ \A q \in Mission : RoomFor(q) => RoomFor(q)'
<1>0. PlainOK /\ limits.max_branching \in Nat
    BY TypeParts, LimitsAreNumbers
<1>1. \A m \in Mission : missions'[m].depth = missions[m].depth /\ missions'[m].source = missions[m].source
    BY DEF TreeKept
<1>2. \A m \in Mission : Cardinality(ActiveChildren(m)') <= Cardinality(ActiveChildren(m))
    BY TreeKeptCounts
<1>3. TreeWithinCaps'
    BY <1>0, <1>1, <1>2, SetsAreFinite DEF TreeWithinCaps
<1>4. OneMissionPerProposal'
    BY <1>1, TreeKeptCounts DEF OneMissionPerProposal, Children
<1>5. \A q \in Mission : RoomFor(q) => RoomFor(q)'
    BY <1>0, <1>1, <1>2, SetsAreFinite DEF RoomFor
<1>. QED
    BY <1>3, <1>4, <1>5

\* The invariant of the tree is inductive.
LEMMA AdmissionTree ==
    ASSUME TypeOK, Known, TreeInv, [Next]_vars
    PROVE  TreeInv'
<1>0. MissionsOK /\ ProposalsOK /\ ControllerOK /\ PlainOK /\ limits' = limits
    BY TypeParts, StepsSplit
<1>. USE DEF AtC, Become, NextProposal
<1>a. \A c \in Mission : missions[c].source # NoId =>
         missions[c].source \in Proposal /\ proposals[missions[c].source].status # "none"
    BY <1>0 DEF MissionsOK, MissionRow, TreeInv, Spent
<1>b. controller.pc \in InHand =>
         /\ controller.prop \in Proposal /\ Cur.status # "none" /\ Cur.parent \in Mission
         /\ missions[Cur.parent].status # "none"
    BY <1>0 DEF Known, Cur
<1>1. CASE OtherStep
    <2>1. TreeKept /\ RowsKept /\ controller' = controller
        BY <1>1, OthersKeep
    <2>2. Spent'
        BY <1>a, <2>1 DEF TreeInv, Spent, TreeKept, RowsKept
    <2>3. InTurn' /\ (controller.pc \in InHand => Cur' = Cur)
        BY <1>b, <2>1 DEF TreeInv, InTurn, RowsKept, Cur, InHand
    <2>4. Room'
        <3>. SUFFICES ASSUME controller.pc \in {"approve", "enqueue"} PROVE RoomFor(Cur.parent)'
            BY <2>1 DEF Room
        <3>. DEFINE q == Cur.parent
        <3>1. Cur' = Cur /\ q \in Mission
            BY <1>b, <2>3 DEF InHand
        <3>2. RoomFor(q)
            BY DEF TreeInv, Room
        <3>3. ASSUME NEW r \in Mission, r = q PROVE RoomFor(r)'
            BY <1>0, <2>1, <3>2, <3>3, CapsKept DEF TreeInv
        <3>. QED
            BY <3>1, <3>3 DEF RoomFor, ActiveChildren
    <2>. QED
        BY <1>0, <2>1, <2>2, <2>3, <2>4, CapsKept DEF TreeInv
<1>2. CASE EnqueueChild
    <2>0. /\ controller.pc = "enqueue" /\ proposals' = proposals /\ Cur.parent \in Mission
          /\ controller.prop \in Proposal
        BY <1>2, EnqueueCases DEF EnqueueChild
    <2>1. CASE missions' = missions /\ NextProposal
        <3>1. controller'.pc = "next" /\ controller'.todo = controller.todo
            BY <2>1 DEF IdleController
        <3>2. Spent' /\ InTurn' /\ Room'
            BY <2>0, <2>1, <3>1 DEF TreeInv, Spent, InTurn, Room, BeforeChild, InHand
        <3>. QED
            BY <1>0, <2>1, <3>2, SameMissions, CapsKept DEF TreeInv
    <2>2. ASSUME NEW c \in Mission, missions[c] = NoMission, missions' = [missions EXCEPT ![c] = Child],
                 controller' = [controller EXCEPT !.pc = "count"]
          PROVE  TreeInv'
        <3>1. controller'.pc = "count" /\ controller'.todo = controller.todo /\ controller'.prop = controller.prop
            BY <1>0, <2>2 DEF ControllerOK, Controller
        <3>2. \A d \in Mission : missions'[d] = IF d = c THEN Child ELSE missions[d]
            BY <1>0, <2>2 DEF MissionsOK
        <3>3. Child.source = controller.prop /\ Child.depth = missions[Cur.parent].depth + 1
            BY DEF Child
        <3>4. Spent'
            BY <1>a, <2>0, <3>1, <3>2, <3>3 DEF TreeInv, Spent, InTurn, BeforeChild, InHand, Cur
        <3>5. InTurn' /\ Room'
            BY <2>0, <3>1 DEF TreeInv, InTurn, Room, InHand
        <3>6. OneMissionPerProposal'
            BY <2>0, <3>2, <3>3 DEF TreeInv, Spent, OneMissionPerProposal, Children, BeforeChild
        <3>7. TreeWithinCaps'
            <4>1. PICK q \in Mission : q = Cur.parent
                BY <2>0
            <4>2. RoomFor(q)
                BY <2>0, <4>1 DEF TreeInv, Room
            <4>3. /\ Cardinality(ActiveChildren(q)') = Cardinality(ActiveChildren(q)) + 1
                  /\ \A m \in Mission \ {q} : ActiveChildren(m)' = ActiveChildren(m)
                BY <1>0, <2>0, <2>2, <4>1, ChildCounts
            <4>4. \A m \in Mission : Cardinality(ActiveChildren(m)') <= limits.max_branching
                BY <1>0, <4>2, <4>3, SetsAreFinite, LimitsAreNumbers DEF RoomFor, TreeInv, TreeWithinCaps
            <4>5. \A m \in Mission : missions'[m].depth <= limits.max_depth
                BY <3>2, <3>3, <4>1, <4>2 DEF RoomFor, TreeInv, TreeWithinCaps
            <4>. QED
                BY <1>0, <4>4, <4>5 DEF TreeWithinCaps
        <3>. QED
            BY <3>4, <3>5, <3>6, <3>7 DEF TreeInv
    <2>. QED
        BY <1>2, <2>1, <2>2, EnqueueCases
<1>3. ASSUME ControllerStep \/ StatementFails \/ Restart, ~EnqueueChild
      PROVE  TreeInv'
    <2>0. missions' = missions /\ TreeWithinCaps' /\ OneMissionPerProposal'
        BY <1>0, <1>3, ControllerKeeps, SameMissions, CapsKept DEF TreeInv
    <2>q. ASSUME Spent', InTurn', Room' PROVE TreeInv'
        BY <2>0, <2>q DEF TreeInv
    <2>r. Room' <=> (controller'.pc \in {"approve", "enqueue"} => RoomFor(Cur.parent)')
        BY DEF Room
    <2>1. CASE FetchPending
        <3>1. controller'.pc = "next" /\ controller'.todo = Pending
            BY <1>0, <2>1 DEF FetchPending, IdleController, ControllerOK, Controller, Pending
        <3>. QED
            BY <1>a, <1>b, <2>0, <2>q, <3>1, <2>1 DEF FetchPending, TreeInv, Spent, InTurn, Room, BeforeChild, InHand, Pending
    <2>2. ASSUME NEW p \in Proposal, LoadProposal(p) PROVE TreeInv'
        <3>1. controller'.pc = "parent" /\ controller'.todo = controller.todo \ {p} /\ controller'.prop = p
            BY <1>0, <2>2 DEF LoadProposal, IdleController, ControllerOK, Controller
        <3>. QED
            BY <1>a, <1>b, <2>0, <2>q, <3>1, <2>2 DEF LoadProposal, TreeInv, Spent, InTurn, Room, BeforeChild, InHand
    <2>3. CASE ReadParent
        <3>1. controller'.pc \in {"decide", "reject"} /\ controller'.todo = controller.todo /\ controller'.prop = controller.prop
            BY <1>0, <2>3 DEF ReadParent, IdleController, ControllerOK, Controller
        <3>. QED
            BY <1>a, <1>b, <2>0, <2>q, <3>1, <2>3 DEF ReadParent, TreeInv, Spent, InTurn, Room, BeforeChild, InHand
    <2>4. CASE Decide
        <3>1. /\ controller'.pc \in {"reject", "freeze", "approve"} /\ controller'.todo = controller.todo
              /\ controller'.prop = controller.prop /\ proposals' = proposals /\ controller.pc = "decide"
            BY <1>0, <2>4 DEF Decide, Decision, ControllerOK, Controller
        <3>2. controller'.pc = "approve" => RoomFor(Cur.parent)
            <4>. SUFFICES ASSUME controller'.pc = "approve" PROVE RoomFor(Cur.parent)
                OBVIOUS
            <4>1. PICK q \in Mission : q = Cur.parent
                BY <1>b, <3>1 DEF InHand
            <4>2. Decision(controller.obj, Cur) = "approve"
                BY <1>0, <2>4 DEF Decide, ControllerOK, Controller
            <4>3. /\ ~(missions[q].depth + 1 > limits.max_depth)
                  /\ ~(Cardinality(ActiveChildren(q)) >= limits.max_branching)
                BY <4>1, <4>2 DEF Decision
            <4>4. missions[q].depth \in Nat
                BY <1>0 DEF MissionsOK, MissionRow
            <4>5. RoomFor(q)
                BY <1>0, <4>3, <4>4, LimitsAreNumbers, SetsAreFinite DEF RoomFor
            <4>. QED
                BY <4>1, <4>5
        <3>3. Spent' /\ InTurn'
            BY <1>a, <2>0, <3>1 DEF TreeInv, Spent, InTurn, BeforeChild, InHand
        <3>4. Room'
            BY <1>0, <2>0, <3>1, <3>2 DEF Room, RoomFor, Cur, ActiveChildren
        <3>. QED
            BY <2>q, <3>3, <3>4
    <2>5. CASE Approve
        <3>1. /\ controller'.pc = "enqueue" /\ controller'.todo = controller.todo
              /\ controller'.prop = controller.prop /\ controller.pc = "approve"
            BY <1>0, <2>5 DEF Approve, ControllerOK, Controller
        <3>2. /\ controller.prop \in Proposal /\ Cur' = [Cur EXCEPT !.status = "approved"]
              /\ Cur'.status = "approved" /\ Cur'.parent = Cur.parent
              /\ \A p \in Proposal \ {controller.prop} : proposals'[p] = proposals[p]
            BY <1>0, <1>b, <2>5, <3>1 DEF Approve, Cur, ProposalsOK, ProposalRow, InHand
        <3>3. Spent' /\ InTurn'
            BY <1>a, <2>0, <3>1, <3>2 DEF TreeInv, Spent, InTurn, BeforeChild, InHand
        <3>4. Room'
            BY <1>0, <2>0, <3>1, <3>2 DEF TreeInv, Room, RoomFor, ActiveChildren
        <3>. QED
            BY <2>q, <3>3, <3>4
    <2>6. CASE Reject
        <3>1. controller'.pc = "next" /\ controller'.todo = controller.todo /\ controller.pc = "reject"
            BY <2>6 DEF Reject, IdleController
        <3>2. \A p \in Proposal : proposals'[p].status \in {proposals[p].status, "rejected"}
            BY <1>0, <2>6 DEF Reject, ProposalsOK, ProposalRow
        <3>. QED
            BY <1>a, <2>0, <2>q, <3>1, <3>2 DEF TreeInv, Spent, InTurn, Room, BeforeChild, InHand
    <2>7. CASE FreezeReject
        <3>1. controller'.pc = "next" /\ controller'.todo \subseteq controller.todo
            BY <2>7 DEF FreezeReject, IdleController
        <3>2. \A p \in Proposal : proposals'[p].status \in {proposals[p].status, "rejected"}
            BY <1>0, <2>7, AllRejected DEF FreezeReject
        <3>. QED
            BY <1>a, <2>0, <2>q, <3>1, <3>2 DEF TreeInv, Spent, InTurn, Room, BeforeChild, InHand
    <2>8. CASE CloseReject
        <3>1. controller'.pc = "idle" /\ controller'.todo \subseteq controller.todo
            BY <2>8 DEF CloseReject, IdleController
        <3>2. \A p \in Proposal : proposals'[p].status \in {proposals[p].status, "rejected"}
            BY <1>0, <2>8, AllRejected DEF CloseReject
        <3>. QED
            BY <1>a, <2>0, <2>q, <3>1, <3>2 DEF TreeInv, Spent, InTurn, Room, BeforeChild, InHand
    <2>9. CASE CountMission
        <3>1. controller'.pc = "next" /\ controller'.todo = controller.todo
            BY <1>0, <2>9 DEF CountMission, IdleController, ControllerOK, Controller
        <3>. QED
            BY <1>a, <1>b, <2>0, <2>q, <3>1, <2>9 DEF CountMission, TreeInv, Spent, InTurn, Room, BeforeChild, InHand
    <2>10. CASE Freeze
        <3>1. controller'.pc = "freezeReject" /\ controller'.todo = controller.todo /\ controller'.prop = controller.prop
            BY <1>0, <2>10 DEF Freeze, IdleController, ControllerOK, Controller
        <3>. QED
            BY <1>a, <1>b, <2>0, <2>q, <3>1, <2>10 DEF Freeze, TreeInv, Spent, InTurn, Room, BeforeChild, InHand
    <2>11. CASE ListOpen
        <3>1. controller'.pc \in {"idle", "converge"} /\ controller'.todo = {}
            BY <1>0, <2>11 DEF ListOpen, IdleController, ControllerOK, Controller
        <3>. QED
            BY <1>a, <1>b, <2>0, <2>q, <3>1, <2>11 DEF ListOpen, TreeInv, Spent, InTurn, Room, BeforeChild, InHand
    <2>12. CASE Converge
        <3>1. controller'.pc \notin InHand /\ controller'.todo \subseteq controller.todo
            BY <1>0, <2>12, VerdictStates DEF Converge, CloseAs, Closed
        <3>. QED
            BY <1>a, <2>0, <2>q, <2>12, <3>1 DEF Converge, TreeInv, Spent, InTurn, Room, BeforeChild, InHand
    <2>13. CASE LastCheck
        <3>1. controller'.pc \notin InHand /\ controller'.todo \subseteq controller.todo
            BY <1>0, <2>13, VerdictStates DEF LastCheck, CloseAs, Closed
        <3>. QED
            BY <1>a, <2>0, <2>q, <2>13, <3>1 DEF LastCheck, TreeInv, Spent, InTurn, Room, BeforeChild, InHand
    <2>14. CASE Close
        <3>1. controller'.pc = "closeReject" /\ controller'.todo = controller.todo
            BY <1>0, <2>14 DEF Close, IdleController, ControllerOK, Controller
        <3>. QED
            BY <1>a, <1>b, <2>0, <2>q, <3>1, <2>14 DEF Close, TreeInv, Spent, InTurn, Room, BeforeChild, InHand
    <2>15. CASE StatementFails
        <3>1. \/ controller' = IdleController
              \/ controller' = [IdleController EXCEPT !.pc = "next", !.todo = controller.todo]
              \/ /\ controller' = [controller EXCEPT !.pc = "reject", !.obj = OpenObjective]
                 /\ controller.pc \in {"parent", "decide"}
            BY <1>0, <2>15 DEF StatementFails, AfterError, ControllerOK, Controller, ControllerPc
        <3>2. \/ controller'.pc \in {"idle", "next"} /\ controller'.todo \subseteq controller.todo
              \/ /\ controller'.pc = "reject" /\ controller'.todo = controller.todo
                 /\ controller'.prop = controller.prop /\ controller.pc \in InHand
            <4>1. CASE controller' = IdleController
                BY <4>1 DEF IdleController
            <4>2. CASE controller' = [IdleController EXCEPT !.pc = "next", !.todo = controller.todo]
                BY <4>2 DEF IdleController
            <4>3. CASE /\ controller' = [controller EXCEPT !.pc = "reject", !.obj = OpenObjective]
                       /\ controller.pc \in {"parent", "decide"}
                BY <1>0, <4>3 DEF ControllerOK, Controller, InHand
            <4>. QED
                BY <3>1, <4>1, <4>2, <4>3
        <3>. QED
            BY <1>a, <2>0, <2>q, <2>15, <3>2 DEF StatementFails, TreeInv, Spent, InTurn, Room, BeforeChild, InHand
    <2>16. CASE Restart
        <3>1. controller'.pc = "idle" /\ controller'.todo = {}
            BY <1>0, <2>16 DEF Restart, IdleController, ControllerOK, Controller
        <3>. QED
            BY <1>a, <1>b, <2>0, <2>q, <3>1, <2>16 DEF Restart, TreeInv, Spent, InTurn, Room, BeforeChild, InHand
    <2>. QED
        BY <1>3, <2>1, <2>2, <2>3, <2>4, <2>5, <2>6, <2>7, <2>8, <2>9, <2>10, <2>11, <2>12, <2>13, <2>14, <2>15, <2>16 DEF ControllerStep
<1>. QED
    BY <1>1, <1>2, <1>3, StepsSplit

(***************************************************************************)
(* The budget                                                              *)
(***************************************************************************)

\* One unfreeze of an objective is in flight at a time.
OneUnfreezer == \A u, v \in Unfreezer : u = v

Born == Cardinality(Children)

\* The controller is about to count the child it enqueued.
Uncounted == IF controller.pc = "count" THEN 1 ELSE 0

\* No proposal in hand can become a child without a look at the objective.
NotAdmitting ==
    /\ controller.pc \notin {"approve", "enqueue", "count", "freeze"}
    /\ controller.pc \in {"parent", "decide"} => controller.obj.status # "open"

\* Only an unfreeze writes back a copy that is open.
CopiesFit ==
    /\ \A w \in Writer : writer[w].busy =>
         IF w \in Unfreezer THEN writer[w].obj.status = "open" ELSE writer[w].obj.status \in Closed
    /\ controller.pc = "close" => controller.obj.status \in Closed

\* The counter of an objective that may admit, or may again, counts every
\* child, but for faults and the one about to be counted.
RowCounts == objective.status \in {"open", "frozen"} => Born <= objective.missions + faults + Uncounted

\* So do the copies that are open.
CopyCounts ==
    (controller.pc \in {"parent", "decide"} /\ controller.obj.status = "open") \/ controller.pc = "freeze"
      => Born <= controller.obj.missions + faults

ThawCounts ==
    \A u \in Unfreezer : writer[u].busy =>
      Born <= writer[u].obj.missions + faults /\ objective.status # "open" /\ NotAdmitting

FrozenRests == objective.status = "frozen" => NotAdmitting

RoomLeft == controller.pc \in {"approve", "enqueue"} => Born < limits.max_missions + faults

BudgetInv == CopiesFit /\ RowCounts /\ CopyCounts /\ ThawCounts /\ FrozenRests /\ RoomLeft /\ BudgetRespected

\* So is that of the budget, with one unfreeze at a time.
LEMMA AdmissionBudget ==
    ASSUME OneUnfreezer, TypeOK, Known, BudgetInv, [Next]_vars
    PROVE  BudgetInv'
<1>0. MissionsOK /\ ControllerOK /\ WritersOK /\ PlainOK /\ limits' = limits
    BY TypeParts, StepsSplit
<1>1. /\ objective \in Objective /\ objective.missions \in Nat /\ faults \in Nat
      /\ controller.obj \in Objective /\ controller.obj.missions \in Nat
      /\ limits.max_missions \in Nat /\ Born \in Nat /\ Born' \in Nat
      /\ \A w \in Writer : writer[w].obj.missions \in Nat
    BY <1>0, LimitsAreNumbers, SetsAreFinite DEF PlainOK, Objective, ControllerOK, Controller, WritersOK, WriterState, Born
<1>2. Unfreezer \subseteq Writer /\ \A w \in Writer : w \notin Unfreezer => w \in Resolver \/ w = Reaper
    BY DEF Writer
<1>3. BudgetRespected <=> Born <= limits.max_missions + faults
    BY DEF BudgetRespected, Born
<1>4. BudgetRespected' <=> Born' <= limits'.max_missions + faults'
    BY DEF BudgetRespected, Born
<1>. USE DEF AtC, Become, NextProposal
<1>5. CASE EnqueueChild
    <2>1. controller.pc = "enqueue" /\ objective' = objective /\ writer' = writer /\ faults' = faults
        BY <1>5, EnqueueCases DEF EnqueueChild
    <2>2. CASE missions' = missions /\ NextProposal
        <3>1. controller'.pc = "next" /\ Born' = Born
            BY <2>2, SameMissions, TreeKeptCounts DEF IdleController, Born
        <3>. QED
            BY <1>0, <1>1, <1>3, <1>4, <2>1, <3>1 DEF BudgetInv, CopiesFit, RowCounts, CopyCounts, ThawCounts, FrozenRests, RoomLeft, NotAdmitting, Uncounted
    <2>3. ASSUME NEW c \in Mission, missions[c] = NoMission, missions' = [missions EXCEPT ![c] = Child],
                 controller' = [controller EXCEPT !.pc = "count"]
          PROVE  BudgetInv'
        <3>1. controller'.pc = "count"
            BY <1>0, <2>3 DEF ControllerOK, Controller
        <3>2. PICK q \in Mission : q = Cur.parent /\ controller.prop \in Proposal
            BY <1>5, EnqueueCases
        <3>3. Born' = Born + 1
            BY <1>0, <2>3, <3>2, ChildCounts DEF Born
        <3>. QED
            BY <1>0, <1>1, <1>3, <1>4, <2>1, <3>1, <3>3 DEF BudgetInv, CopiesFit, RowCounts, CopyCounts, ThawCounts, FrozenRests, RoomLeft, NotAdmitting, Uncounted
    <2>. QED
        BY <1>5, <2>2, <2>3, EnqueueCases
<1>6. CASE OtherStep
    <2>0. controller' = controller /\ faults' = faults /\ Born' = Born
        BY <1>6, OthersKeep, TreeKeptCounts DEF Born
    <2>1. ASSUME UNCHANGED writer, objective'.status = objective.status, objective'.missions = objective.missions
          PROVE  BudgetInv'
        BY <1>0, <1>1, <1>3, <1>4, <2>0, <2>1 DEF BudgetInv, CopiesFit, RowCounts, CopyCounts, ThawCounts, FrozenRests, RoomLeft, NotAdmitting, Uncounted
    <2>2. ASSUME NEW w \in Writer, ReadObjective(w) PROVE BudgetInv'
        <3>1. PICK t \in Target(w) : /\ AllowedTransition(objective.status, t)
                               /\ writer' = [writer EXCEPT ![w] = [busy |-> TRUE, obj |-> [objective EXCEPT !.status = t]]]
            BY <2>2 DEF ReadObjective
        <3>2. /\ objective' = objective
              /\ writer'[w].busy /\ writer'[w].obj.status = t /\ writer'[w].obj.missions = objective.missions
              /\ \A v \in Writer \ {w} : writer'[v] = writer[v]
            BY <1>0, <1>1, <2>2, <3>1 DEF ReadObjective, WritersOK, Objective
        <3>3. CASE w \in Unfreezer
            <4>1. t = "open"
                BY <3>1, <3>3, AdmissionAssumption DEF Target
            <4>2. objective.status = "frozen"
                BY <3>1, <4>1 DEF AllowedTransition, Closed
            <4>. QED
                BY <1>0, <1>1, <1>2, <1>3, <1>4, <2>0, <3>2, <3>3, <4>1, <4>2 DEF BudgetInv, CopiesFit, RowCounts, CopyCounts, ThawCounts, FrozenRests, RoomLeft, NotAdmitting, Uncounted
        <3>4. CASE w \notin Unfreezer
            <4>1. t \in Closed
                BY <1>2, <3>1, <3>4, AdmissionAssumption DEF Target, Closed
            <4>. QED
                BY <1>0, <1>1, <1>2, <1>3, <1>4, <2>0, <3>2, <3>4, <4>1 DEF BudgetInv, CopiesFit, RowCounts, CopyCounts, ThawCounts, FrozenRests, RoomLeft, NotAdmitting, Uncounted
        <3>. QED
            BY <3>3, <3>4
    <2>3. ASSUME NEW w \in Writer, UpdateObjective(w) PROVE BudgetInv'
        <3>1. /\ writer[w].busy /\ objective' = writer[w].obj /\ ~writer'[w].busy
              /\ \A v \in Writer \ {w} : writer'[v] = writer[v]
            BY <1>0, <2>3 DEF UpdateObjective, WritersOK, IdleWriter
        <3>2. CASE w \in Unfreezer
            <4>1. \A u \in Unfreezer : ~writer'[u].busy
                BY <3>1, <3>2 DEF OneUnfreezer
            <4>. QED
                BY <1>0, <1>1, <1>2, <1>3, <1>4, <2>0, <3>1, <3>2, <4>1 DEF BudgetInv, CopiesFit, RowCounts, CopyCounts, ThawCounts, FrozenRests, RoomLeft, NotAdmitting, Uncounted
        <3>3. CASE w \notin Unfreezer
            <4>1. objective'.status \in Closed /\ objective'.status \notin {"open", "frozen"}
                BY <3>1, <3>3 DEF BudgetInv, CopiesFit, Closed
            <4>. QED
                BY <1>0, <1>1, <1>2, <1>3, <1>4, <2>0, <3>1, <3>3, <4>1 DEF BudgetInv, CopiesFit, RowCounts, CopyCounts, ThawCounts, FrozenRests, RoomLeft, NotAdmitting, Uncounted
        <3>. QED
            BY <3>2, <3>3
    <2>4. CASE ReportFinding
        BY <1>1, <2>1, <2>4 DEF ReportFinding, Objective
    <2>. QED
        BY <1>6, <2>1, <2>2, <2>3, <2>4 DEF OtherStep, Propose, SpawnCheck, SpawnEnqueue, QueueStep, TimePasses, work
<1>7. ASSUME ControllerStep \/ StatementFails \/ Restart, ~EnqueueChild
      PROVE  BudgetInv'
    <2>0. Born' = Born
        BY <1>7, ControllerKeeps, SameMissions, TreeKeptCounts DEF Born
    <2>1. CASE FetchPending
        <3>1. controller'.pc \in {"next"}
            BY <1>0, <2>1 DEF FetchPending, IdleController, ControllerOK, Controller
        <3>. QED
            BY <1>0, <1>1, <1>3, <1>4, <2>0, <2>1, <3>1 DEF FetchPending, BudgetInv, CopiesFit, RowCounts, CopyCounts, ThawCounts, FrozenRests, RoomLeft, NotAdmitting, Uncounted
    <2>2. ASSUME NEW p \in Proposal, LoadProposal(p) PROVE BudgetInv'
        <3>1. controller'.pc \in {"parent"} /\ controller'.obj = objective
            BY <1>0, <2>2 DEF LoadProposal, IdleController, ControllerOK, Controller
        <3>. QED
            BY <1>0, <1>1, <1>3, <1>4, <2>0, <2>2, <3>1 DEF LoadProposal, BudgetInv, CopiesFit, RowCounts, CopyCounts, ThawCounts, FrozenRests, RoomLeft, NotAdmitting, Uncounted
    <2>3. CASE ReadParent
        <3>1. \/ controller' = [controller EXCEPT !.pc = "decide"]
              \/ controller' = [controller EXCEPT !.pc = "reject", !.obj = OpenObjective]
            BY <2>3 DEF ReadParent
        <3>2. \/ controller'.pc = "reject"
              \/ controller'.pc = "decide" /\ controller'.obj = controller.obj
            <4>1. CASE controller' = [controller EXCEPT !.pc = "decide"]
                BY <1>0, <4>1 DEF ControllerOK, Controller
            <4>2. CASE controller' = [controller EXCEPT !.pc = "reject", !.obj = OpenObjective]
                BY <1>0, <4>2 DEF ControllerOK, Controller
            <4>. QED
                BY <3>1, <4>1, <4>2
        <3>. QED
            BY <1>0, <1>1, <1>3, <1>4, <2>0, <2>3, <3>1, <3>2 DEF ReadParent, BudgetInv, CopiesFit, RowCounts, CopyCounts, ThawCounts, FrozenRests, RoomLeft, NotAdmitting, Uncounted
    <2>4. CASE Decide
        <3>1. controller' = [controller EXCEPT !.pc = Decision(controller.obj, Cur),
                                           !.obj = IF Decision(controller.obj, Cur) = "freeze" THEN @ ELSE OpenObjective]
            BY <2>4 DEF Decide
        <3>2. /\ controller'.pc = Decision(controller.obj, Cur)
              /\ controller'.pc = "freeze" => controller'.obj = controller.obj
            BY <1>0, <3>1 DEF ControllerOK, Controller
        <3>3. /\ controller'.pc \in {"reject", "freeze", "approve"}
              /\ controller'.pc # "reject" => /\ controller.obj.status = "open"
                                               /\ ~(controller.obj.missions >= limits.max_missions)
            BY <3>2 DEF Decision
        <3>. QED
            BY <1>0, <1>1, <1>3, <1>4, <2>0, <2>4, <3>1, <3>2, <3>3 DEF Decide, BudgetInv, CopiesFit, RowCounts, CopyCounts, ThawCounts, FrozenRests, RoomLeft, NotAdmitting, Uncounted
    <2>5. CASE Reject
        <3>1. controller'.pc \in {"next"}
            BY <1>0, <2>5 DEF Reject, IdleController, ControllerOK, Controller
        <3>. QED
            BY <1>0, <1>1, <1>3, <1>4, <2>0, <2>5, <3>1 DEF Reject, BudgetInv, CopiesFit, RowCounts, CopyCounts, ThawCounts, FrozenRests, RoomLeft, NotAdmitting, Uncounted
    <2>6. CASE Approve
        <3>1. controller'.pc \in {"enqueue"}
            BY <1>0, <2>6 DEF Approve, IdleController, ControllerOK, Controller
        <3>. QED
            BY <1>0, <1>1, <1>3, <1>4, <2>0, <2>6, <3>1 DEF Approve, BudgetInv, CopiesFit, RowCounts, CopyCounts, ThawCounts, FrozenRests, RoomLeft, NotAdmitting, Uncounted
    <2>7. CASE CountMission
        <3>1. controller'.pc \in {"next"}
            BY <1>0, <2>7 DEF CountMission, IdleController, ControllerOK, Controller
        <3>2. objective'.status = objective.status /\ objective'.missions = objective.missions + 1
            BY <1>1, <2>7 DEF CountMission, Objective
        <3>. QED
            BY <1>0, <1>1, <1>3, <1>4, <2>0, <2>7, <3>1, <3>2 DEF CountMission, BudgetInv, CopiesFit, RowCounts, CopyCounts, ThawCounts, FrozenRests, RoomLeft, NotAdmitting, Uncounted
    <2>8. CASE Freeze
        <3>1. controller'.pc \in {"freezeReject"}
            BY <1>0, <2>8 DEF Freeze, IdleController, ControllerOK, Controller
        <3>2. objective'.status = "frozen" /\ objective'.missions = controller.obj.missions
            BY <1>1, <2>8 DEF Freeze, Objective
        <3>. QED
            BY <1>0, <1>1, <1>3, <1>4, <2>0, <2>8, <3>1, <3>2 DEF Freeze, BudgetInv, CopiesFit, RowCounts, CopyCounts, ThawCounts, FrozenRests, RoomLeft, NotAdmitting, Uncounted
    <2>9. CASE FreezeReject
        <3>1. controller'.pc \in {"next"}
            BY <1>0, <2>9 DEF FreezeReject, IdleController, ControllerOK, Controller
        <3>. QED
            BY <1>0, <1>1, <1>3, <1>4, <2>0, <2>9, <3>1 DEF FreezeReject, BudgetInv, CopiesFit, RowCounts, CopyCounts, ThawCounts, FrozenRests, RoomLeft, NotAdmitting, Uncounted
    <2>10. CASE ListOpen
        <3>1. controller'.pc \in {"idle", "converge"}
            BY <1>0, <2>10 DEF ListOpen, IdleController, ControllerOK, Controller
        <3>. QED
            BY <1>0, <1>1, <1>3, <1>4, <2>0, <2>10, <3>1 DEF ListOpen, BudgetInv, CopiesFit, RowCounts, CopyCounts, ThawCounts, FrozenRests, RoomLeft, NotAdmitting, Uncounted
    <2>11. CASE Converge
        <3>1. \/ controller' = IdleController \/ controller' = [controller EXCEPT !.pc = "lastCheck"]
              \/ \E t \in Closed : controller' = [controller EXCEPT !.pc = "close", !.obj.status = t]
            BY <2>11 DEF Converge, CloseAs, Closed
        <3>2. \/ controller'.pc \in {"idle", "lastCheck"}
              \/ controller'.pc = "close" /\ controller'.obj.status \in Closed
            <4>1. CASE controller' = IdleController
                BY <4>1 DEF IdleController
            <4>2. CASE controller' = [controller EXCEPT !.pc = "lastCheck"]
                BY <1>0, <4>2 DEF ControllerOK, Controller
            <4>3. ASSUME NEW t \in Closed, controller' = [controller EXCEPT !.pc = "close", !.obj.status = t]
                  PROVE  controller'.pc = "close" /\ controller'.obj.status \in Closed
                BY <1>0, <1>1, <4>3 DEF ControllerOK, Controller, Objective
            <4>. QED
                BY <3>1, <4>1, <4>2, <4>3
        <3>. QED
            BY <1>0, <1>1, <1>3, <1>4, <2>0, <2>11, <3>1, <3>2 DEF Converge, BudgetInv, CopiesFit, RowCounts, CopyCounts, ThawCounts, FrozenRests, RoomLeft, NotAdmitting, Uncounted
    <2>12. CASE LastCheck
        <3>1. \/ controller' = IdleController \/ controller' = [controller EXCEPT !.pc = "lastCheck"]
              \/ \E t \in Closed : controller' = [controller EXCEPT !.pc = "close", !.obj.status = t]
            BY <2>12 DEF LastCheck, CloseAs, Closed
        <3>2. \/ controller'.pc \in {"idle", "lastCheck"}
              \/ controller'.pc = "close" /\ controller'.obj.status \in Closed
            <4>1. CASE controller' = IdleController
                BY <4>1 DEF IdleController
            <4>2. CASE controller' = [controller EXCEPT !.pc = "lastCheck"]
                BY <1>0, <4>2 DEF ControllerOK, Controller
            <4>3. ASSUME NEW t \in Closed, controller' = [controller EXCEPT !.pc = "close", !.obj.status = t]
                  PROVE  controller'.pc = "close" /\ controller'.obj.status \in Closed
                BY <1>0, <1>1, <4>3 DEF ControllerOK, Controller, Objective
            <4>. QED
                BY <3>1, <4>1, <4>2, <4>3
        <3>. QED
            BY <1>0, <1>1, <1>3, <1>4, <2>0, <2>12, <3>1, <3>2 DEF LastCheck, BudgetInv, CopiesFit, RowCounts, CopyCounts, ThawCounts, FrozenRests, RoomLeft, NotAdmitting, Uncounted
    <2>13. CASE Close
        <3>1. controller'.pc \in {"closeReject"}
            BY <1>0, <2>13 DEF Close, IdleController, ControllerOK, Controller
        <3>2. objective' = controller.obj /\ objective'.status \in Closed /\ objective'.status \notin {"open", "frozen"}
            BY <2>13 DEF Close, BudgetInv, CopiesFit, Closed
        <3>. QED
            BY <1>0, <1>1, <1>3, <1>4, <2>0, <2>13, <3>1, <3>2 DEF Close, BudgetInv, CopiesFit, RowCounts, CopyCounts, ThawCounts, FrozenRests, RoomLeft, NotAdmitting, Uncounted
    <2>14. CASE CloseReject
        <3>1. controller'.pc \in {"idle"}
            BY <1>0, <2>14 DEF CloseReject, IdleController, ControllerOK, Controller
        <3>. QED
            BY <1>0, <1>1, <1>3, <1>4, <2>0, <2>14, <3>1 DEF CloseReject, BudgetInv, CopiesFit, RowCounts, CopyCounts, ThawCounts, FrozenRests, RoomLeft, NotAdmitting, Uncounted
    <2>15. CASE StatementFails
        <3>1. \/ controller' = IdleController
              \/ controller' = [IdleController EXCEPT !.pc = "next", !.todo = controller.todo]
              \/ controller' = [controller EXCEPT !.pc = "reject", !.obj = OpenObjective]
            BY <1>0, <2>15 DEF StatementFails, AfterError, ControllerOK, Controller, ControllerPc
        <3>2. controller'.pc \in {"idle", "next", "reject"}
            <4>1. CASE controller' = IdleController
                BY <4>1 DEF IdleController
            <4>2. CASE controller' = [IdleController EXCEPT !.pc = "next", !.todo = controller.todo]
                BY <4>2 DEF IdleController
            <4>3. CASE controller' = [controller EXCEPT !.pc = "reject", !.obj = OpenObjective]
                BY <1>0, <4>3 DEF ControllerOK, Controller
            <4>. QED
                BY <3>1, <4>1, <4>2, <4>3
        <3>3. faults' = faults + 1 /\ UNCHANGED <<objective, writer>>
            BY <2>15 DEF StatementFails
        <3>4. CopiesFit' /\ CopyCounts' /\ RoomLeft' /\ FrozenRests'
            BY <3>2, <3>3 DEF BudgetInv, CopiesFit, CopyCounts, RoomLeft, FrozenRests, NotAdmitting
        <3>5. RowCounts' /\ BudgetRespected'
            BY <1>0, <1>1, <1>3, <1>4, <2>0, <3>2, <3>3 DEF BudgetInv, RowCounts, Uncounted
        <3>6. ThawCounts'
            BY <1>1, <1>2, <2>0, <3>2, <3>3 DEF BudgetInv, ThawCounts, NotAdmitting
        <3>. QED
            BY <3>4, <3>5, <3>6 DEF BudgetInv
    <2>16. CASE Restart
        <3>1. controller'.pc \in {"idle"}
            BY <1>0, <2>16 DEF Restart, IdleController, ControllerOK, Controller
        <3>2. \A w \in Writer : ~writer'[w].busy
            BY <2>16 DEF Restart, IdleWriter
        <3>. QED
            BY <1>0, <1>1, <1>3, <1>4, <2>0, <2>16, <3>1, <3>2, <1>2 DEF Restart, BudgetInv, CopiesFit, RowCounts, CopyCounts, ThawCounts, FrozenRests, RoomLeft, NotAdmitting, Uncounted
    <2>. QED
        BY <1>7, <2>1, <2>2, <2>3, <2>4, <2>5, <2>6, <2>7, <2>8, <2>9, <2>10, <2>11, <2>12, <2>13, <2>14, <2>15, <2>16 DEF ControllerStep
<1>. QED
    BY <1>5, <1>6, <1>7, StepsSplit

(***************************************************************************)
(* The theorems                                                            *)
(***************************************************************************)

\* All of them hold at the start.
LEMMA Beginning ==
    ASSUME Init
    PROVE  TypeOK /\ Known /\ TreeInv /\ BudgetInv
<1>1. TypeOK
    BY RestingStates DEF Init, TypeOK, OpenObjective, Objective, ObjStatus
<1>2. PlainOK
    BY <1>1, TypeParts
<1>3. /\ \A m \in Mission : missions[m] = NoMission
      /\ \A p \in Proposal : proposals[p] = NoProposal
      /\ controller.pc = "idle" /\ controller.todo = {} /\ faults = 0
      /\ \A w \in Writer : ~writer[w].busy
      /\ objective.missions = 0
    BY DEF Init, IdleController, IdleWriter, OpenObjective
<1>4. NoMission.source = NoId /\ NoMission.depth = 0 /\ NoMission.parent = NoId /\ NoId \notin Mission
      /\ NoProposal.status = "none"
    BY IdsAreNumbers DEF NoMission, NoProposal
<1>5. Children = {} /\ \A m \in Mission : ActiveChildren(m) = {}
    BY <1>3, <1>4 DEF Children, ActiveChildren
<1>6. Cardinality(Children) = 0 /\ \A m \in Mission : Cardinality(ActiveChildren(m)) = 0
    BY <1>5, FS_EmptySet
<1>7. Known
    BY <1>3, <1>4 DEF Known, InHand
<1>8. TreeInv
    <2>1. TreeWithinCaps
        BY <1>2, <1>3, <1>4, <1>6, LimitsAreNumbers DEF TreeWithinCaps
    <2>. QED
        BY <1>3, <1>4, <1>5, <2>1 DEF TreeInv, Spent, InTurn, Room, InHand, BeforeChild, OneMissionPerProposal
<1>9. BudgetInv
    <2>1. Unfreezer \subseteq Writer
        BY DEF Writer
    <2>. QED
        BY <1>2, <1>3, <1>6, <2>1, LimitsAreNumbers DEF BudgetInv, CopiesFit, RowCounts, CopyCounts,
            ThawCounts, FrozenRests, RoomLeft, NotAdmitting, Uncounted, BudgetRespected, Born
<1>. QED
    BY <1>1, <1>7, <1>8, <1>9

\* The rows and the locals of every handler keep their types, and the
\* controller decides proposals that were made by missions that exist.
THEOREM AdmissionTypeCorrect == Spec => [](TypeOK /\ Known)
<1>1. Init => TypeOK /\ Known
    BY Beginning
<1>2. TypeOK /\ Known /\ [Next]_vars => (TypeOK /\ Known)'
    BY AdmissionTypes
<1>. QED
    BY <1>1, <1>2, PTL DEF Spec

\* A proposal becomes at most one mission, and the tree keeps the caps on
\* depth and branching, whatever else writes the objective (materialize,
\* Evaluate).
THEOREM AdmissionTreeSound == Spec => [](TreeWithinCaps /\ OneMissionPerProposal)
<1>1. Init => TreeInv
    BY Beginning
<1>2. TypeOK /\ Known /\ TreeInv /\ [Next]_vars => TreeInv'
    BY AdmissionTree
<1>3. TreeInv => TreeWithinCaps /\ OneMissionPerProposal
    BY DEF TreeInv
<1>. QED
    BY <1>1, <1>2, <1>3, AdmissionTypeCorrect, PTL DEF Spec

\* While unfreezes do not overlap, the number of missions a tree has been given
\* keeps to max_missions, up to the faults (Update, IncrementMissionCount).
THEOREM AdmissionIsSound ==
    ASSUME OneUnfreezer
    PROVE  Spec => []AdmissionSound
<1>1. Init => BudgetInv
    BY Beginning
<1>2. TypeOK /\ Known /\ BudgetInv /\ [Next]_vars => BudgetInv'
    BY AdmissionBudget
<1>3. BudgetInv => BudgetRespected
    BY DEF BudgetInv
<1>4. TreeWithinCaps /\ OneMissionPerProposal /\ BudgetRespected => AdmissionSound
    BY DEF AdmissionSound
<1>. QED
    BY <1>1, <1>2, <1>3, <1>4, AdmissionTypeCorrect, AdmissionTreeSound, PTL DEF Spec
=============================================================================
