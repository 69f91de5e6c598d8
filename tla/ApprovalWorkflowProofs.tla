----------------------- MODULE ApprovalWorkflowProofs -----------------------
(***************************************************************************)
(* Theorems about ApprovalWorkflow, for every set of clients, users, line  *)
(* items and budgets.                                                      *)
(***************************************************************************)
EXTENDS ApprovalWorkflow, TLAPS

(***************************************************************************)
(* Type correctness.                                                       *)
(***************************************************************************)
LEMMA TypeOfRows ==
    ASSUME TypeOK
    PROVE  /\ request.status \in ProcurementStatus \cup NoRow
           /\ request.budget \in Budgets
           /\ request.items \in SUBSET Items
           /\ request.created \in SUBSET Items
           /\ workflow.status \in WorkflowStatus \cup {"NONE"}
           /\ workflow.currentLevel \in Levels
           /\ workflow.step \in [Levels -> ApprovalStatus]
           /\ workflow.approver \in [Levels -> Users \cup {NoUser}]
BY DEF TypeOK, Requests, Workflows

LEMMA NoWorkflowType == NoWorkflow \in Workflows
BY DEF NoWorkflow, Workflows, ApprovalStatus, Levels, MAX_APPROVAL_LEVEL

\* The updates the transactions make keep a workflow a workflow.
LEMMA WorkflowUpdates ==
    ASSUME NEW w \in Workflows
    PROVE  /\ \A st \in WorkflowStatus : [w EXCEPT !.status = st] \in Workflows
           /\ \A n \in Levels : [w EXCEPT !.currentLevel = n] \in Workflows
           /\ \A s \in [Levels -> ApprovalStatus] : [w EXCEPT !.step = s] \in Workflows
           /\ \A a \in [Levels -> Users] : [w EXCEPT !.approver = a] \in Workflows
BY DEF Workflows

\* A handler's place in its code tells what it remembers.
LEMMA TypeOfOps ==
    ASSUME TypeOK, NEW c \in Clients
    PROVE  /\ op[c].pc = "update" => op[c].budget \in Budgets
           /\ op[c].pc \in {"addItem", "removeItem"} => op[c].item \in Items
           /\ op[c].pc \in {"approve", "approveTx", "reject"} => op[c].level \in Levels
           /\ op[c].pc = "approveTx" => op[c].current \in Levels
<1>1. op[c] \in Ops
  BY DEF TypeOK
<1> QED
  BY <1>1 DEF Ops, Idle

LEMMA TypeOfSteps ==
    ASSUME NEW step \in [Levels -> ApprovalStatus], NEW level \in Levels
    PROVE  /\ RejectedSteps(step, level) \in [Levels -> ApprovalStatus]
           /\ [step EXCEPT ![level] = "APPROVED"] \in [Levels -> ApprovalStatus]
BY DEF RejectedSteps, ApprovalStatus

\* What the handlers remember is what they read, and the rows they write are rows.
LEMMA TypeOKInit == Init => TypeOK
<1> SUFFICES ASSUME Init PROVE TypeOK
  OBVIOUS
<1>1. request \in Requests
  BY DEF Init, Requests, NoRow
<1>2. workflow \in Workflows
  BY NoWorkflowType DEF Init
<1>3. op \in [Clients -> Ops]
  BY DEF Init, Ops
<1> QED
  BY <1>1, <1>2, <1>3 DEF Init, TypeOK

LEMMA TypeOKNext == TypeOK /\ [Next]_vars => TypeOK'
<1> SUFFICES ASSUME TypeOK, [Next]_vars PROVE TypeOK'
  OBVIOUS
<1> USE TypeOfRows, TypeOfOps
<1>1. CASE UNCHANGED vars
  BY <1>1 DEF vars, TypeOK
<1>2. ASSUME NEW c \in Clients, NEW o \in Ops, Begin(c, o) PROVE TypeOK'
  BY <1>2 DEF Begin, rows, history, TypeOK
<1>3. ASSUME NEW c \in Clients, NEW o \in Ops, Commit(c, o),
             request' \in Requests, workflow' \in Workflows, approvals' \in Nat
      PROVE  TypeOK'
  BY <1>3 DEF Commit, InFlight, TypeOK
<1>4. ASSUME NEW c \in Clients,
             \/ updateDraftRead(c) \/ deleteDraftRead(c) \/ addLineItemRead(c) \/ removeLineItemRead(c)
             \/ submitRead(c) \/ startEndpoint(c) \/ approveStepRead(c) \/ rejectStepRead(c)
      PROVE  TypeOK'
  <2>1. \A b \in Budgets : [pc |-> "update", budget |-> b] \in Ops
    BY DEF Ops
  <2>2. \A i \in Items : [pc |-> "addItem", item |-> i] \in Ops /\ [pc |-> "removeItem", item |-> i] \in Ops
    BY DEF Ops
  <2>3. \A pc \in {"delete", "submit", "startRead"} : [pc |-> pc] \in Ops
    BY DEF Ops
  <2>4. \A pc \in {"approve", "reject"}, l \in Levels : [pc |-> pc, level |-> l] \in Ops
    BY DEF Ops
  <2>5. CASE updateDraftRead(c) \/ deleteDraftRead(c) \/ submitRead(c) \/ startEndpoint(c)
    BY <1>2, <2>1, <2>3, <2>5 DEF updateDraftRead, deleteDraftRead, submitRead, startEndpoint
  <2>6. CASE addLineItemRead(c) \/ removeLineItemRead(c)
    BY <1>2, <2>2, <2>6 DEF addLineItemRead, FreshItems, removeLineItemRead
  <2>7. CASE approveStepRead(c) \/ rejectStepRead(c)
    BY <1>2, <2>4, <2>7 DEF approveStepRead, rejectStepRead
  <2> QED
    BY <1>4, <2>5, <2>6, <2>7
<1>5. ASSUME NEW c \in Clients, createDraft(c) \/ updateDraft(c) \/ deleteDraft(c) PROVE TypeOK'
  <2>1. request' \in Requests
    BY <1>5 DEF createDraft, updateDraft, deleteDraft, TypeOK, Requests, ProcurementStatus, NoRow
  <2> QED
    BY <1>3, <1>5, <2>1, NoWorkflowType DEF createDraft, updateDraft, deleteDraft, TypeOK, Ops
<1>6. ASSUME NEW c \in Clients, addLineItem(c) \/ removeLineItem(c) PROVE TypeOK'
  <2>1. request' \in Requests
    <3>1. CASE addLineItem(c)
      BY <3>1 DEF addLineItem, TypeOK, Requests
    <3>2. CASE removeLineItem(c)
      BY <3>2 DEF removeLineItem, TypeOK, Requests
    <3> QED
      BY <1>6, <3>1, <3>2
  <2>2. Idle \in Ops
    BY DEF Ops
  <2> QED
    BY <1>3, <1>6, <2>1, <2>2 DEF addLineItem, removeLineItem, TypeOK
<1>7. ASSUME NEW c \in Clients, submit(c) PROVE TypeOK'
  <2>1. request' \in Requests
    BY <1>7 DEF submit, TypeOK, Requests, ProcurementStatus
  <2> QED
    BY <1>3, <1>7, <2>1 DEF submit, TypeOK, Ops
<1>8. ASSUME NEW c \in Clients, startWorkflowRead(c) \/ approveTxRead(c) PROVE TypeOK'
  BY <1>8 DEF startWorkflowRead, approveTxRead, rows, history, TypeOK, Ops
<1>9. ASSUME NEW c \in Clients, startWorkflow(c) PROVE TypeOK'
  <2> PICK a \in [Levels -> Users] :
             workflow' = [NoWorkflow EXCEPT !.status = "IN_PROGRESS", !.approver = a]
    BY <1>9 DEF startWorkflow
  <2>1. workflow' \in Workflows
    BY NoWorkflowType, WorkflowUpdates DEF WorkflowStatus
  <2> QED
    BY <1>9, <2>1 DEF startWorkflow, Commit, TypeOK, Ops, InFlight
<1>10. ASSUME NEW c \in Clients, approve(c) PROVE TypeOK'
  <2> DEFINE signed == [workflow EXCEPT !.step[op[c].level] = "APPROVED"]
  <2>1. signed \in Workflows
    <3>1. signed = [workflow EXCEPT !.step = [workflow.step EXCEPT ![op[c].level] = "APPROVED"]]
      OBVIOUS
    <3>2. op[c].level \in Levels
      BY <1>10 DEF approve, signStep
    <3> QED
      BY <3>1, <3>2, TypeOfSteps, WorkflowUpdates DEF TypeOK
  <2>2. CASE op[c].current >= MAX_APPROVAL_LEVEL
    <3>1. /\ workflow' = [signed EXCEPT !.status = "APPROVED"]
          /\ request' = [request EXCEPT !.status = "APPROVED"]
      BY <1>10, <2>2 DEF approve, signStep
    <3>2. workflow' \in Workflows
      BY <2>1, <3>1, WorkflowUpdates DEF WorkflowStatus
    <3>3. request' \in Requests
      BY <3>1 DEF TypeOK, Requests, ProcurementStatus
    <3> QED
      BY <1>10, <3>2, <3>3 DEF approve, signStep, Commit, TypeOK, Ops, InFlight
  <2>3. CASE ~(op[c].current >= MAX_APPROVAL_LEVEL)
    <3>1. /\ workflow' = [signed EXCEPT !.currentLevel = op[c].current + 1]
          /\ request' = request
      BY <1>10, <2>3 DEF approve, signStep
    <3>2. op[c].current + 1 \in Levels
      BY <1>10, <2>3 DEF approve, signStep, Levels, MAX_APPROVAL_LEVEL
    <3>3. workflow' \in Workflows
      BY <2>1, <3>1, <3>2, WorkflowUpdates
    <3> QED
      BY <1>10, <3>1, <3>3 DEF approve, signStep, Commit, TypeOK, Ops, InFlight
  <2> QED
    BY <2>2, <2>3
<1>11. ASSUME NEW c \in Clients, reject(c) PROVE TypeOK'
  <2>1. request' \in Requests /\ workflow' \in Workflows
    BY <1>11, TypeOfSteps DEF reject, TypeOK, Requests, Workflows, WorkflowStatus, ProcurementStatus
  <2> QED
    BY <1>3, <1>11, <2>1 DEF reject, TypeOK, Ops
<1>12. ASSUME NEW c \in Clients, WriteFails(c) \/ Crash(c) PROVE TypeOK'
  BY <1>12 DEF WriteFails, Fail, Crash, rows, TypeOK, Ops
<1> QED
  BY <1>1, <1>4, <1>5, <1>6, <1>7, <1>8, <1>9, <1>10, <1>11, <1>12 DEF Next

\* Every table, handler and history variable keeps its type.
THEOREM TypeCorrect == Spec => []TypeOK
BY TypeOKInit, TypeOKNext, PTL DEF Spec

(***************************************************************************)
(* What holds however handlers overlap.                                    *)
(***************************************************************************)
DecisionOps == {"approve", "approveTx", "reject"}
Acted == {"APPROVED", "REJECTED"}

\* A workflow belongs to a request that exists; a decision is about a workflow,
\* unless the request has been deleted for good since.
DecisionHasWorkflow ==
    /\ workflow.status # "NONE" => RowExists
    /\ \A c \in Clients : op[c].pc \in DecisionOps /\ workflow.status = "NONE"
                          => request.status = "DELETED"

\* A transaction knows of no more levels than have been approved.
ReadLevelsCounted == \A c \in Clients : op[c].pc = "approveTx" => op[c].current <= approvals + 1

\* Whoever decides about a later level found the first one acted on.
LaterDecisionsFollowFirst ==
    \A c \in Clients :
        op[c].pc \in DecisionOps /\ workflow.status # "NONE" /\ op[c].level > 1
            => workflow.step[1] \in Acted

OverlapInv == /\ DecisionHasWorkflow
              /\ ApprovalsCounted /\ ReadLevelsCounted
              /\ FirstLevelActs /\ LaterDecisionsFollowFirst

(***************************************************************************)
(* What holds up to the first write on an overtaken read: whatever a       *)
(* handler that is not overtaken has checked is still so.                  *)
(***************************************************************************)
Fresh(c) ==
    /\ op[c].pc \in {"update", "delete", "addItem", "removeItem", "submit"} => request.status = "DRAFT"
    /\ op[c].pc = "submit" => Submittable
    /\ op[c].pc = "start" => request.status = "SUBMITTED"
    /\ op[c].pc \in DecisionOps => /\ workflow.status = "IN_PROGRESS"
                                   /\ op[c].level = workflow.currentLevel
    /\ op[c].pc = "approveTx" => op[c].current = op[c].level

DecisionInOrder == /\ StepsInOrder
                   /\ request.status = "APPROVED" <=> workflow.status = "APPROVED"
                   /\ request.status = "REJECTED" <=> workflow.status = "REJECTED"
                   /\ workflow.status = "IN_PROGRESS" => request.status = "SUBMITTED"

ReviewedAddsUp == request.status \in {"SUBMITTED", "APPROVED", "REJECTED"} => Submittable

AllFresh == \A c \in Clients \ overtaken : Fresh(c)

UnoverlappedInv == ~staleCommit => DecisionInOrder /\ ReviewedAddsUp /\ AllFresh

SubmissionInv ==
    /\ ~staleCommit /\ ~crashed
    /\ request.status = "SUBMITTED"
    /\ \A l \in Levels : AssignableTo(l) # {}
    => \/ workflow.status = "IN_PROGRESS"
       \/ \E c \in Clients : op[c].pc \in {"startRead", "start"}

(***************************************************************************)
(* OverlapInv is inductive.                                                *)
(***************************************************************************)
\* The actions that leave the workflow and the deciding handlers alone.
LEMMA OverlapFrame ==
    ASSUME TypeOK, OverlapInv, NEW c \in Clients,
           op' \in [Clients -> Ops],
           op'[c].pc \notin DecisionOps,
           \A d \in Clients \ {c} : op'[d] = op[d],
           UNCHANGED <<workflow, approvals>>,
           RowExists => RowExists',
           request.status = "DELETED" => request'.status = "DELETED"
    PROVE  OverlapInv'
<1>1. DecisionHasWorkflow'
  BY DEF OverlapInv, DecisionHasWorkflow
<1>2. ApprovalsCounted' /\ FirstLevelActs'
  BY DEF OverlapInv, ApprovalsCounted, FirstLevelActs
<1>3. ReadLevelsCounted'
  BY DEF OverlapInv, ReadLevelsCounted, DecisionOps
<1>4. LaterDecisionsFollowFirst'
  BY DEF OverlapInv, LaterDecisionsFollowFirst
<1> QED
  BY <1>1, <1>2, <1>3, <1>4 DEF OverlapInv

LEMMA OverlapInit == Init => OverlapInv
BY DEF Init, OverlapInv, DecisionHasWorkflow, ApprovalsCounted, ReadLevelsCounted, FirstLevelActs,
       LaterDecisionsFollowFirst, NoWorkflow, Idle, DecisionOps

LEMMA OverlapNext == TypeOK /\ TypeOK' /\ OverlapInv /\ [Next]_vars => OverlapInv'
<1> SUFFICES ASSUME TypeOK, TypeOK', OverlapInv, [Next]_vars PROVE OverlapInv'
  OBVIOUS
<1> op' \in [Clients -> Ops]
  BY DEF TypeOK
<1>1. CASE UNCHANGED vars
  BY <1>1 DEF vars, OverlapInv, DecisionHasWorkflow, RowExists, ApprovalsCounted, ReadLevelsCounted,
              FirstLevelActs, LaterDecisionsFollowFirst
<1>2. ASSUME NEW c \in Clients,
             \/ createDraft(c) \/ updateDraft(c) \/ addLineItem(c) \/ removeLineItem(c) \/ submit(c)
      PROVE  OverlapInv'
  <2>1. /\ op' = [op EXCEPT ![c] = Idle] \/ op' = [op EXCEPT ![c] = [pc |-> "startRead"]]
        /\ UNCHANGED <<workflow, approvals>>
    BY <1>2 DEF createDraft, updateDraft, addLineItem, removeLineItem, submit, Commit
  <2>2. op'[c].pc \notin DecisionOps /\ \A d \in Clients \ {c} : op'[d] = op[d]
    BY <2>1 DEF TypeOK, Idle, DecisionOps
  <2>3. \/ request'.status = request.status
        \/ request.status = "NEW" /\ request'.status = "DRAFT"
        \/ RowExists /\ request'.status = "SUBMITTED"
    BY <1>2 DEF createDraft, updateDraft, addLineItem, removeLineItem, submit, TypeOK, Requests
  <2>4. /\ RowExists => RowExists'
        /\ request.status = "DELETED" => request'.status = "DELETED"
    BY <2>3 DEF RowExists, NoRow
  <2> QED
    BY <2>1, <2>2, <2>4, OverlapFrame
<1>3. ASSUME NEW c \in Clients,
             \/ updateDraftRead(c) \/ deleteDraftRead(c) \/ addLineItemRead(c)
             \/ removeLineItemRead(c) \/ submitRead(c) \/ startEndpoint(c)
      PROVE  OverlapInv'
  BY <1>3, OverlapFrame DEF updateDraftRead, deleteDraftRead, addLineItemRead, removeLineItemRead,
                            submitRead, startEndpoint, Begin, rows, history, TypeOK, RowExists, DecisionOps
<1>4. ASSUME NEW c \in Clients, startWorkflowRead(c) \/ WriteFails(c) \/ Crash(c)
      PROVE  OverlapInv'
  BY <1>4, OverlapFrame DEF startWorkflowRead, WriteFails, Fail, Crash, rows, TypeOK, RowExists, Idle,
                            DecisionOps
<1>5. ASSUME NEW c \in Clients, deleteDraft(c)
      PROVE  OverlapInv'
  BY <1>5 DEF deleteDraft, Commit, OverlapInv, DecisionHasWorkflow, ApprovalsCounted, ReadLevelsCounted,
              FirstLevelActs, LaterDecisionsFollowFirst, RowExists, NoRow, NoWorkflow, Idle, DecisionOps,
              TypeOK, Requests
<1>6. ASSUME NEW c \in Clients, startWorkflow(c)
      PROVE  OverlapInv'
  BY <1>6 DEF startWorkflow, Commit, OverlapInv, DecisionHasWorkflow, ApprovalsCounted, ReadLevelsCounted,
              FirstLevelActs, LaterDecisionsFollowFirst, RowExists, NoRow, NoWorkflow, Idle, DecisionOps,
              TypeOK
<1>7. ASSUME NEW c \in Clients, approveStepRead(c) \/ rejectStepRead(c)
      PROVE  OverlapInv'
  BY <1>7 DEF approveStepRead, rejectStepRead, CurrentStepIsOpen, Begin, rows, history, OverlapInv,
              DecisionHasWorkflow, ApprovalsCounted, ReadLevelsCounted, FirstLevelActs,
              LaterDecisionsFollowFirst, RowExists, DecisionOps, Acted, TypeOK
<1>8. ASSUME NEW c \in Clients, approveTxRead(c)
      PROVE  OverlapInv'
  BY <1>8 DEF approveTxRead, rows, history, OverlapInv,
              DecisionHasWorkflow, ApprovalsCounted, ReadLevelsCounted, FirstLevelActs,
              LaterDecisionsFollowFirst, RowExists, DecisionOps, Acted, TypeOK
<1>9. ASSUME NEW c \in Clients, approve(c)
      PROVE  OverlapInv'
  <2>0. /\ op[c].level \in Levels /\ op[c].current \in Levels
        /\ op[c].pc = "approveTx" /\ workflow.status # "NONE"
        /\ op' = [op EXCEPT ![c] = Idle]
        /\ approvals' = approvals + 1
    BY <1>9, TypeOfOps DEF approve, signStep, Commit
  <2>1. /\ workflow'.status # "NONE"
        /\ workflow'.step = [workflow.step EXCEPT ![op[c].level] = "APPROVED"]
        /\ RowExists'
        /\ \/ workflow'.status = "APPROVED" /\ workflow'.currentLevel = workflow.currentLevel
              /\ op[c].current >= MAX_APPROVAL_LEVEL
           \/ workflow'.status = workflow.status /\ workflow'.currentLevel = op[c].current + 1
    BY <1>9, <2>0, TypeOfRows DEF approve, signStep, TypeOK, Workflows, Requests, RowExists, NoRow,
                                  OverlapInv, DecisionHasWorkflow
  <2>2. DecisionHasWorkflow'
    BY <2>1 DEF DecisionHasWorkflow
  <2>3. op[c].current <= approvals + 1 /\ approvals \in Nat /\ workflow.currentLevel \in Levels
    BY <2>0, TypeOfRows DEF OverlapInv, ReadLevelsCounted, TypeOK
  <2>4. ApprovalsCounted'
    BY <2>0, <2>1, <2>3 DEF OverlapInv, ApprovalsCounted, Levels, MAX_APPROVAL_LEVEL
  <2>5. ReadLevelsCounted'
    BY <2>0, <2>3, TypeOfOps DEF OverlapInv, ReadLevelsCounted, TypeOK, Idle, Levels, MAX_APPROVAL_LEVEL
  <2>6. workflow'.step[1] \in Acted
    <3>1. CASE op[c].level = 1
      BY <3>1, <2>1, TypeOfRows DEF Acted, Levels, MAX_APPROVAL_LEVEL
    <3>2. CASE op[c].level # 1
      <4>1. workflow.step[1] \in Acted
        BY <3>2, <2>0 DEF OverlapInv, LaterDecisionsFollowFirst, DecisionOps, Levels
      <4> QED
        BY <4>1, <3>2, <2>0, <2>1, TypeOfRows DEF Levels, MAX_APPROVAL_LEVEL
    <3> QED
      BY <3>1, <3>2
  <2>7. FirstLevelActs' /\ LaterDecisionsFollowFirst'
    BY <2>6 DEF FirstLevelActs, LaterDecisionsFollowFirst, Acted
  <2> QED
    BY <2>2, <2>4, <2>5, <2>7 DEF OverlapInv
<1>10. ASSUME NEW c \in Clients, reject(c)
      PROVE  OverlapInv'
  <2>0. /\ op[c].level \in Levels
        /\ op[c].pc = "reject" /\ workflow.status # "NONE"
        /\ op' = [op EXCEPT ![c] = Idle]
        /\ approvals' = approvals
    BY <1>10, TypeOfOps DEF reject, Commit
  <2>1. /\ workflow'.status = "REJECTED"
        /\ workflow'.currentLevel = workflow.currentLevel
        /\ workflow'.step = RejectedSteps(workflow.step, op[c].level)
        /\ RowExists'
    BY <1>10 DEF reject, TypeOK, Workflows, Requests, RowExists, NoRow
  <2>2. DecisionHasWorkflow' /\ ApprovalsCounted'
    BY <2>0, <2>1 DEF OverlapInv, DecisionHasWorkflow, ApprovalsCounted
  <2>3. ReadLevelsCounted'
    BY <2>0 DEF OverlapInv, ReadLevelsCounted, TypeOK, Idle
  <2>4. op[c].level > 1 => workflow.step[1] \in Acted
    BY <2>0 DEF OverlapInv, LaterDecisionsFollowFirst, DecisionOps
  <2>5. workflow'.step[1] \in Acted
    BY <2>0, <2>1, <2>4 DEF RejectedSteps, Acted, Levels, MAX_APPROVAL_LEVEL
  <2>6. FirstLevelActs' /\ LaterDecisionsFollowFirst'
    BY <2>5 DEF FirstLevelActs, LaterDecisionsFollowFirst, Acted
  <2> QED
    BY <2>2, <2>3, <2>6 DEF OverlapInv
<1> QED
  BY <1>1, <1>2, <1>3, <1>4, <1>5, <1>6, <1>7, <1>8, <1>9, <1>10 DEF Next

\* The workflow never stands on a level that fewer approvals than the levels below
\* it have been committed for, and is approved by no fewer than four.
THEOREM ApprovalsAreCounted == Spec => []ApprovalsCounted
<1>1. OverlapInv => ApprovalsCounted
  BY DEF OverlapInv
<1> QED
  BY <1>1, TypeCorrect, OverlapInit, OverlapNext, PTL DEF Spec

\* The workflow leaves its first level only when that level's step has been acted on.
THEOREM FirstLevelIsActedOn == Spec => []FirstLevelActs
<1>1. OverlapInv => FirstLevelActs
  BY DEF OverlapInv
<1> QED
  BY <1>1, TypeCorrect, OverlapInit, OverlapNext, PTL DEF Spec

(***************************************************************************)
(* What a step does to the rows when no write follows an overtaken read.   *)
(***************************************************************************)
Drafting == /\ request.status \in {"NEW", "DRAFT"}
            /\ request'.status = "DRAFT"
            /\ UNCHANGED workflow

Deleting == /\ request.status = "DRAFT"
            /\ request'.status = "DELETED"
            /\ workflow' = NoWorkflow

Submitting == /\ request.status = "DRAFT" /\ Submittable
              /\ request' = [request EXCEPT !.status = "SUBMITTED"]
              /\ UNCHANGED workflow

Starting == /\ request.status = "SUBMITTED" /\ workflow.status = "NONE"
            /\ workflow'.status = "IN_PROGRESS"
            /\ workflow'.currentLevel = 1
            /\ workflow'.step = NoWorkflow.step
            /\ UNCHANGED request

SigningLast == /\ workflow.status = "IN_PROGRESS" /\ workflow.currentLevel = MAX_APPROVAL_LEVEL
               /\ workflow'.status = "APPROVED"
               /\ workflow'.currentLevel = workflow.currentLevel
               /\ workflow'.step = [workflow.step EXCEPT ![workflow.currentLevel] = "APPROVED"]
               /\ request' = [request EXCEPT !.status = "APPROVED"]

SigningOther == /\ workflow.status = "IN_PROGRESS" /\ workflow.currentLevel < MAX_APPROVAL_LEVEL
                /\ workflow'.status = "IN_PROGRESS"
                /\ workflow'.currentLevel = workflow.currentLevel + 1
                /\ workflow'.step = [workflow.step EXCEPT ![workflow.currentLevel] = "APPROVED"]
                /\ UNCHANGED request

Rejecting == /\ workflow.status = "IN_PROGRESS"
             /\ workflow'.status = "REJECTED"
             /\ workflow'.currentLevel = workflow.currentLevel
             /\ workflow'.step = RejectedSteps(workflow.step, workflow.currentLevel)
             /\ request' = [request EXCEPT !.status = "REJECTED"]

RowStep == \/ UNCHANGED rows
           \/ Drafting \/ Deleting \/ Submitting \/ Starting
           \/ SigningLast \/ SigningOther \/ Rejecting

\* A handler that commits on a read nobody has overtaken finds it still true.
LEMMA CommitsOnFreshRead ==
    ASSUME UnoverlappedInv, ~staleCommit', NEW c \in Clients, NEW o, Commit(c, o)
    PROVE  ~staleCommit /\ Fresh(c)
BY DEF Commit, UnoverlappedInv, AllFresh

LEMMA UnoverlappedRowStep ==
    ASSUME TypeOK, UnoverlappedInv, ~staleCommit', [Next]_vars
    PROVE  RowStep
<1>1. CASE UNCHANGED vars
  BY <1>1 DEF vars, rows, RowStep
<1>2. ASSUME NEW c \in Clients, createDraft(c) PROVE Drafting
  BY <1>2 DEF createDraft, Drafting, TypeOK, Requests
<1>3. ASSUME NEW c \in Clients, updateDraft(c) \/ addLineItem(c) \/ removeLineItem(c) PROVE Drafting
  <2>1. Commit(c, Idle) /\ op[c].pc \in {"update", "addItem", "removeItem"}
    BY <1>3 DEF updateDraft, addLineItem, removeLineItem
  <2>2. request.status = "DRAFT"
    BY <2>1, CommitsOnFreshRead DEF Fresh
  <2> QED
    BY <1>3, <2>2 DEF updateDraft, addLineItem, removeLineItem, Drafting, TypeOK, Requests
<1>4. ASSUME NEW c \in Clients, deleteDraft(c) PROVE Deleting
  <2>1. request.status = "DRAFT"
    BY <1>4, CommitsOnFreshRead DEF deleteDraft, Fresh
  <2> QED
    BY <1>4, <2>1 DEF deleteDraft, Deleting, TypeOK, Requests
<1>5. ASSUME NEW c \in Clients, submit(c) PROVE Submitting
  <2>1. request.status = "DRAFT" /\ Submittable
    BY <1>5, CommitsOnFreshRead DEF submit, Fresh
  <2> QED
    BY <1>5, <2>1 DEF submit, Submitting
<1>6. ASSUME NEW c \in Clients, startWorkflow(c) PROVE Starting
  <2>1. request.status = "SUBMITTED"
    BY <1>6, CommitsOnFreshRead DEF startWorkflow, Fresh
  <2> QED
    BY <1>6, <2>1 DEF startWorkflow, Starting, NoWorkflow
<1>7. ASSUME NEW c \in Clients, approve(c) PROVE SigningLast \/ SigningOther
  <2>1. Commit(c, Idle) /\ op[c].pc = "approveTx"
    BY <1>7 DEF approve, signStep
  <2>2. /\ workflow.status = "IN_PROGRESS"
        /\ op[c].level = workflow.currentLevel
        /\ op[c].current = workflow.currentLevel
    BY <2>1, CommitsOnFreshRead DEF Fresh, DecisionOps
  <2>3. workflow.currentLevel \in Levels
    BY TypeOfRows
  <2> DEFINE signed == [workflow EXCEPT !.step[workflow.currentLevel] = "APPROVED"]
  <2>nested. signed = [workflow EXCEPT !.step = [workflow.step EXCEPT ![workflow.currentLevel] = "APPROVED"]]
    OBVIOUS
  <2>signed. /\ signed \in Workflows
             /\ signed.status = "IN_PROGRESS" /\ signed.currentLevel = workflow.currentLevel
             /\ signed.step = [workflow.step EXCEPT ![workflow.currentLevel] = "APPROVED"]
    <3> HIDE DEF signed
    <3> QED
      BY <2>2, <2>3, <2>nested, TypeOfRows, TypeOfSteps DEF TypeOK, Workflows
  <2>4. CASE workflow.currentLevel >= MAX_APPROVAL_LEVEL
    <3>1. /\ workflow' = [signed EXCEPT !.status = "APPROVED"]
          /\ request' = [request EXCEPT !.status = "APPROVED"]
      BY <1>7, <2>2, <2>4 DEF approve, signStep
    <3> HIDE DEF signed
    <3> QED
      BY <2>2, <2>3, <2>4, <2>signed, <3>1 DEF SigningLast, Workflows, Levels, MAX_APPROVAL_LEVEL
  <2>5. CASE ~(workflow.currentLevel >= MAX_APPROVAL_LEVEL)
    <3>1. workflow' = [signed EXCEPT !.currentLevel = workflow.currentLevel + 1] /\ UNCHANGED request
      BY <1>7, <2>2, <2>5 DEF approve, signStep
    <3> HIDE DEF signed
    <3> QED
      BY <2>2, <2>3, <2>5, <2>signed, <3>1 DEF SigningOther, Workflows, Levels, MAX_APPROVAL_LEVEL
  <2> QED
    BY <2>4, <2>5
<1>8. ASSUME NEW c \in Clients, reject(c) PROVE Rejecting
  <2>1. workflow.status = "IN_PROGRESS" /\ op[c].level = workflow.currentLevel
    BY <1>8, CommitsOnFreshRead DEF reject, Fresh, DecisionOps
  <2> QED
    BY <1>8, <2>1 DEF reject, Rejecting, TypeOK, Workflows
<1>9. ASSUME NEW c \in Clients,
             \/ updateDraftRead(c) \/ deleteDraftRead(c) \/ addLineItemRead(c)
             \/ removeLineItemRead(c) \/ submitRead(c) \/ startEndpoint(c)
             \/ startWorkflowRead(c) \/ approveStepRead(c) \/ approveTxRead(c) \/ rejectStepRead(c)
             \/ WriteFails(c) \/ Crash(c)
      PROVE  UNCHANGED rows
  BY <1>9 DEF updateDraftRead, deleteDraftRead, addLineItemRead, removeLineItemRead, submitRead,
              startEndpoint, startWorkflowRead, approveStepRead, approveTxRead, rejectStepRead,
              WriteFails, Fail, Crash, Begin
<1> QED
  BY <1>1, <1>2, <1>3, <1>4, <1>5, <1>6, <1>7, <1>8, <1>9 DEF Next, RowStep

(***************************************************************************)
(* UnoverlappedInv is inductive.                                           *)
(***************************************************************************)
\* The part of StepsInOrder each status demands.
StepsByStatus ==
    /\ workflow.status = "NONE" => workflow = NoWorkflow
    /\ workflow.status = "IN_PROGRESS" =>
         \A l \in Levels : workflow.step[l] = IF l < workflow.currentLevel THEN "APPROVED" ELSE "PENDING"
    /\ workflow.status = "REJECTED" =>
         \A l \in Levels : workflow.step[l] = IF l < workflow.currentLevel THEN "APPROVED"
                                              ELSE IF l = workflow.currentLevel THEN "REJECTED"
                                              ELSE "SKIPPED"
    /\ workflow.status = "APPROVED" => \A l \in Levels : workflow.step[l] = "APPROVED"

LEMMA StepsInOrderByStatus == TypeOK => (StepsInOrder <=> StepsByStatus)
BY TypeOfRows DEF StepsInOrder, StepsByStatus, Levels, MAX_APPROVAL_LEVEL

LEMMA DecisionInOrderStep ==
    ASSUME TypeOK, TypeOK', DecisionInOrder, RowStep
    PROVE  DecisionInOrder'
<1>0. /\ workflow.currentLevel \in Levels
      /\ workflow.step \in [Levels -> ApprovalStatus]
      /\ NoWorkflow.status = "NONE" /\ NoWorkflow.currentLevel = 1
      /\ NoWorkflow.step = [l \in Levels |-> "PENDING"]
  BY TypeOfRows DEF NoWorkflow
<1>after. StepsInOrder' <=> StepsByStatus'
  BY StepsInOrderByStatus, PTL
<1>1. CASE UNCHANGED rows
  BY <1>1 DEF rows, DecisionInOrder, StepsInOrder
<1>2. CASE Drafting
  BY <1>2 DEF Drafting, DecisionInOrder, StepsInOrder
<1>3. CASE Deleting
  BY <1>0, <1>3 DEF Deleting, DecisionInOrder, StepsInOrder
<1>4. CASE Submitting
  BY <1>4 DEF Submitting, DecisionInOrder, StepsInOrder, TypeOK, Requests
<1>5. CASE Starting
  <2>1. StepsInOrder'
    BY <1>0, <1>5, <1>after DEF Starting, StepsByStatus, Levels, MAX_APPROVAL_LEVEL
  <2> QED
    BY <1>5, <2>1 DEF Starting, DecisionInOrder
<1>6. CASE SigningLast
  <2>1. StepsInOrder'
    BY <1>0, <1>6, StepsInOrderByStatus, <1>after
       DEF SigningLast, DecisionInOrder, StepsByStatus, Levels, MAX_APPROVAL_LEVEL
  <2> QED
    BY <1>6, <2>1 DEF SigningLast, DecisionInOrder, TypeOK, Requests
<1>7. CASE SigningOther
  <2>1. StepsInOrder'
    BY <1>0, <1>7, StepsInOrderByStatus, <1>after
       DEF SigningOther, DecisionInOrder, StepsByStatus, Levels, MAX_APPROVAL_LEVEL
  <2> QED
    BY <1>7, <2>1 DEF SigningOther, DecisionInOrder
<1>8. CASE Rejecting
  <2>1. StepsInOrder'
    BY <1>0, <1>8, StepsInOrderByStatus, <1>after
       DEF Rejecting, RejectedSteps, DecisionInOrder, StepsByStatus, Levels, MAX_APPROVAL_LEVEL
  <2> QED
    BY <1>8, <2>1 DEF Rejecting, DecisionInOrder, TypeOK, Requests
<1> QED
  BY <1>1, <1>2, <1>3, <1>4, <1>5, <1>6, <1>7, <1>8 DEF RowStep

\* A submitted request keeps its line items and its budget.
LEMMA ReviewedAddsUpStep ==
    ASSUME TypeOK, DecisionInOrder, ReviewedAddsUp, RowStep
    PROVE  ReviewedAddsUp'
<1>1. CASE UNCHANGED rows \/ Starting \/ SigningOther
  BY <1>1 DEF rows, Starting, SigningOther, ReviewedAddsUp, Submittable
<1>2. CASE Drafting \/ Deleting
  BY <1>2 DEF Drafting, Deleting, ReviewedAddsUp
<1>3. CASE Submitting \/ SigningLast \/ Rejecting
  <2>1. request'.items = request.items /\ request'.budget = request.budget
    BY <1>3 DEF Submitting, SigningLast, Rejecting, TypeOK, Requests
  <2>2. Submittable
    BY <1>3 DEF Submitting, SigningLast, Rejecting, DecisionInOrder, ReviewedAddsUp
  <2> QED
    BY <2>1, <2>2 DEF ReviewedAddsUp, Submittable
<1> QED
  BY <1>1, <1>2, <1>3 DEF RowStep

\* A write leaves no handler both in flight and not overtaken but its own.
LEMMA FreshAfterWrite ==
    ASSUME TypeOK, NEW c \in Clients, NEW o \in {Idle, [pc |-> "startRead"]}, Commit(c, o)
    PROVE  AllFresh'
<1> SUFFICES ASSUME NEW d \in Clients, d \notin overtaken' PROVE Fresh(d)'
  BY DEF AllFresh
<1>1. op'[d].pc \in {"idle", "startRead"}
  BY DEF Commit, InFlight, TypeOK, Idle
<1> QED
  BY <1>1 DEF Fresh, DecisionOps

\* A step that changes no row leaves the other handlers as fresh as they were.
LEMMA FreshAfterRead ==
    ASSUME TypeOK, AllFresh, UNCHANGED rows, NEW c \in Clients, NEW o,
           op' = [op EXCEPT ![c] = o],
           overtaken \subseteq overtaken' \cup {c},
           c \in overtaken' \/ Fresh(c)'
    PROVE  AllFresh'
<1> SUFFICES ASSUME NEW d \in Clients, d \notin overtaken', d # c PROVE Fresh(d)'
  BY DEF AllFresh
<1>1. Fresh(d) /\ op'[d] = op[d]
  BY DEF AllFresh, TypeOK
<1> QED
  BY <1>1 DEF Fresh, Submittable, rows

LEMMA AllFreshNext ==
    ASSUME TypeOK, UnoverlappedInv, ~staleCommit', [Next]_vars
    PROVE  AllFresh'
<1>1. ASSUME NEW c \in Clients,
             \/ createDraft(c) \/ updateDraft(c) \/ deleteDraft(c) \/ addLineItem(c)
             \/ removeLineItem(c) \/ submit(c) \/ startWorkflow(c) \/ approve(c) \/ reject(c)
      PROVE  AllFresh'
  BY <1>1, FreshAfterWrite DEF createDraft, updateDraft, deleteDraft, addLineItem, removeLineItem, submit,
                               startWorkflow, approve, signStep, reject
<1>2. CASE UNCHANGED vars
  <2>1. AllFresh
    BY <1>2 DEF vars, UnoverlappedInv
  <2> QED
    BY <1>2, <2>1 DEF vars, AllFresh, Fresh, Submittable
<1>3. SUFFICES ASSUME AllFresh, NEW c \in Clients,
                      UNCHANGED rows, overtaken \subseteq overtaken' \cup {c},
                      \/ updateDraftRead(c) \/ deleteDraftRead(c) \/ addLineItemRead(c)
                      \/ removeLineItemRead(c) \/ submitRead(c) \/ startEndpoint(c)
                      \/ startWorkflowRead(c) \/ approveStepRead(c) \/ approveTxRead(c)
                      \/ rejectStepRead(c) \/ WriteFails(c) \/ Crash(c)
               PROVE  AllFresh'
  BY <1>1, <1>2 DEF Next, UnoverlappedInv, updateDraftRead, deleteDraftRead, addLineItemRead,
                    removeLineItemRead, submitRead, startEndpoint, startWorkflowRead, approveStepRead,
                    approveTxRead, rejectStepRead, WriteFails, Fail, Crash, Begin, history
<1>4. CASE updateDraftRead(c) \/ deleteDraftRead(c) \/ addLineItemRead(c) \/ removeLineItemRead(c)
  <2>1. ASSUME NEW o, Begin(c, o), o.pc \in {"update", "delete", "addItem", "removeItem"}
        PROVE  AllFresh'
    <3>1. request'.status = "DRAFT"
      BY <1>3, <1>4 DEF updateDraftRead, deleteDraftRead, addLineItemRead, removeLineItemRead,
                        assertDraftEditable, rows
    <3>2. Fresh(c)'
      BY <2>1, <3>1 DEF Begin, Fresh, TypeOK, DecisionOps
    <3> QED
      BY <1>3, <2>1, <3>2, FreshAfterRead DEF Begin
  <2> QED
    BY <1>4, <2>1 DEF updateDraftRead, deleteDraftRead, addLineItemRead, removeLineItemRead
<1>5. CASE submitRead(c)
  <2>1. Fresh(c)'
    BY <1>3, <1>5 DEF submitRead, Begin, rows, assertDraftEditable, Fresh, Submittable, TypeOK, DecisionOps
  <2> QED
    BY <1>3, <1>5, <2>1, FreshAfterRead DEF submitRead, Begin
<1>6. CASE startEndpoint(c)
  <2>1. Fresh(c)'
    BY <1>3, <1>6 DEF startEndpoint, Begin, Fresh, TypeOK, DecisionOps
  <2> QED
    BY <1>3, <1>6, <2>1, FreshAfterRead DEF startEndpoint, Begin
<1>7. CASE startWorkflowRead(c)
  <2>1. Fresh(c)'
    BY <1>3, <1>7 DEF startWorkflowRead, rows, Fresh, TypeOK, DecisionOps
  <2> QED
    BY <1>3, <1>7, <2>1, FreshAfterRead DEF startWorkflowRead
<1>8. CASE approveStepRead(c) \/ rejectStepRead(c)
  <2>1. PICK pc \in {"approve", "reject"} :
             op' = [op EXCEPT ![c] = [pc |-> pc, level |-> workflow.currentLevel]]
    BY <1>8 DEF approveStepRead, rejectStepRead, Begin
  <2>2. Fresh(c)'
    BY <1>3, <1>8, <2>1 DEF approveStepRead, rejectStepRead, CurrentStepIsOpen, rows, Fresh, TypeOK,
                            DecisionOps
  <2> QED
    BY <1>3, <2>1, <2>2, FreshAfterRead
<1>9. CASE approveTxRead(c)
  <2>1. c \notin overtaken => Fresh(c)
    BY <1>3 DEF AllFresh
  <2>2. c \in overtaken' \/ Fresh(c)'
    BY <1>3, <1>9, <2>1 DEF approveTxRead, rows, history, Fresh, TypeOK, DecisionOps
  <2> QED
    BY <1>3, <1>9, <2>2, FreshAfterRead DEF approveTxRead
<1>10. CASE WriteFails(c) \/ Crash(c)
  <2>1. op' = [op EXCEPT ![c] = Idle]
    BY <1>10 DEF WriteFails, Fail, Crash
  <2>2. Fresh(c)'
    BY <2>1 DEF Fresh, TypeOK, Idle, DecisionOps
  <2> QED
    BY <1>3, <2>1, <2>2, FreshAfterRead
<1> QED
  BY <1>3, <1>4, <1>5, <1>6, <1>7, <1>8, <1>9, <1>10

\* A write on an overtaken read and a crash are remembered.
LEMMA HistoryIsKept ==
    ASSUME [Next]_vars
    PROVE  (staleCommit => staleCommit') /\ (crashed => crashed')
<1>1. CASE UNCHANGED vars
  BY <1>1 DEF vars
<1>2. ASSUME NEW c \in Clients, NEW o, Commit(c, o)
      PROVE  (staleCommit => staleCommit') /\ (crashed => crashed')
  BY <1>2 DEF Commit
<1>3. ASSUME NEW c \in Clients, NEW o, Begin(c, o)
      PROVE  (staleCommit => staleCommit') /\ (crashed => crashed')
  BY <1>3 DEF Begin, history
<1>4. ASSUME NEW c \in Clients,
             startWorkflowRead(c) \/ approveTxRead(c) \/ WriteFails(c) \/ Crash(c)
      PROVE  (staleCommit => staleCommit') /\ (crashed => crashed')
  BY <1>4 DEF startWorkflowRead, approveTxRead, WriteFails, Fail, Crash, history
<1> QED
  BY <1>1, <1>2, <1>3, <1>4
     DEF Next, createDraft, updateDraftRead, updateDraft, deleteDraftRead, deleteDraft, addLineItemRead,
         addLineItem, removeLineItemRead, removeLineItem, submitRead, submit, startEndpoint,
         startWorkflow, approveStepRead, approve, signStep, rejectStepRead, reject

LEMMA UnoverlappedInit == Init => UnoverlappedInv
BY DEF Init, UnoverlappedInv, DecisionInOrder, StepsInOrder, ReviewedAddsUp, AllFresh, Fresh,
       NoWorkflow, Idle, DecisionOps

LEMMA UnoverlappedNext == TypeOK /\ TypeOK' /\ UnoverlappedInv /\ [Next]_vars => UnoverlappedInv'
<1> SUFFICES ASSUME TypeOK, TypeOK', UnoverlappedInv, [Next]_vars, ~staleCommit'
             PROVE  DecisionInOrder' /\ ReviewedAddsUp' /\ AllFresh'
  BY DEF UnoverlappedInv
<1>1. ~staleCommit
  BY HistoryIsKept
<1>2. RowStep
  BY UnoverlappedRowStep
<1> QED
  BY <1>1, <1>2, DecisionInOrderStep, ReviewedAddsUpStep, AllFreshNext DEF UnoverlappedInv

\* As long as no handler writes on an overtaken read, the steps of the workflow are in
\* order and the request's status is the workflow's outcome.
THEOREM DecisionsFollowTheSteps == Spec => []DecisionFollowsTheSteps
<1>1. UnoverlappedInv => DecisionFollowsTheSteps
  BY DEF UnoverlappedInv, DecisionInOrder, DecisionFollowsTheSteps
<1> QED
  BY <1>1, TypeCorrect, UnoverlappedInit, UnoverlappedNext, PTL DEF Spec

\* As long as no handler writes on an overtaken read, what the approvers decide about
\* has line items and the budget of their sum.
THEOREM ReviewedContentIsFixed == Spec => []ReviewedContentAddsUp
<1>1. UnoverlappedInv => ReviewedContentAddsUp
  BY DEF UnoverlappedInv, ReviewedAddsUp, ReviewedContentAddsUp
<1> QED
  BY <1>1, TypeCorrect, UnoverlappedInit, UnoverlappedNext, PTL DEF Spec

(***************************************************************************)
(* A submitted request and its workflow.                                   *)
(***************************************************************************)
\* The handlers that are about to start a workflow, other than c, still are.
LEMMA StartersStay ==
    ASSUME TypeOK, NEW c \in Clients, NEW o, op' = [op EXCEPT ![c] = o]
    PROVE  \A d \in Clients \ {c} : op'[d] = op[d]
BY DEF TypeOK

LEMMA SubmissionInit == Init => SubmissionInv
BY DEF Init, SubmissionInv

LEMMA SubmissionNext ==
    TypeOK /\ UnoverlappedInv /\ SubmissionInv /\ [Next]_vars => SubmissionInv'
<1> DEFINE Starter(c) == op[c].pc \in {"startRead", "start"}
           Opened == workflow.status = "IN_PROGRESS" \/ \E c \in Clients : Starter(c)
<1> SUFFICES ASSUME TypeOK, UnoverlappedInv, SubmissionInv, [Next]_vars,
                    ~staleCommit', ~crashed', request'.status = "SUBMITTED",
                    \A l \in Levels : AssignableTo(l) # {}
             PROVE  Opened'
  BY DEF SubmissionInv, AssignableTo
<1>0. ~staleCommit /\ ~crashed
  BY HistoryIsKept
<1>1. request.status = "SUBMITTED" => Opened
  BY <1>0 DEF SubmissionInv
<1>2. RowStep /\ DecisionInOrder
  BY <1>0, UnoverlappedRowStep DEF UnoverlappedInv
<1>3. CASE UNCHANGED vars
  BY <1>1, <1>3 DEF vars
<1>4. ASSUME NEW c \in Clients, submit(c) PROVE Opened'
  BY <1>4 DEF submit, Commit, TypeOK
<1>5. ASSUME NEW c \in Clients, startWorkflow(c) PROVE Opened'
  BY <1>5 DEF startWorkflow, NoWorkflow
<1>6. ASSUME NEW c \in Clients, startWorkflowRead(c) PROVE Opened'
  BY <1>6 DEF startWorkflowRead, TypeOK
<1>7. ASSUME NEW c \in Clients, UNCHANGED workflow \/ workflow'.status = "IN_PROGRESS",
             op[c].pc \notin {"startRead", "start"}, NEW o, op' = [op EXCEPT ![c] = o],
             request.status = "SUBMITTED"
      PROVE  Opened'
  BY <1>1, <1>7, StartersStay
<1>8. ASSUME NEW c \in Clients, approve(c) \/ reject(c) PROVE Opened'
  <2>1. op[c].pc \in {"approveTx", "reject"} /\ op' = [op EXCEPT ![c] = Idle]
    BY <1>8 DEF approve, signStep, reject, Commit
  <2>2. workflow.status = "IN_PROGRESS" /\ request.status = "SUBMITTED"
    BY <1>0, <1>8, CommitsOnFreshRead DEF approve, signStep, reject, Fresh, DecisionOps, UnoverlappedInv,
                                          DecisionInOrder
  <2>3. UNCHANGED workflow \/ workflow'.status = "IN_PROGRESS"
    BY <1>2, <2>2 DEF RowStep, rows, Drafting, Deleting, Submitting, Starting, SigningLast, SigningOther,
                      Rejecting, TypeOK, Requests
  <2> QED
    BY <1>7, <2>1, <2>2, <2>3
<1>9. ASSUME NEW c \in Clients,
             createDraft(c) \/ updateDraft(c) \/ deleteDraft(c) \/ addLineItem(c) \/ removeLineItem(c)
      PROVE  FALSE
  <2>1. createDraft(c) \/ request.status = "DRAFT"
    BY <1>9, CommitsOnFreshRead DEF updateDraft, deleteDraft, addLineItem, removeLineItem, Fresh
  <2> QED
    BY <1>9, <2>1 DEF createDraft, updateDraft, deleteDraft, addLineItem, removeLineItem, TypeOK, Requests
<1>10. ASSUME NEW c \in Clients,
             \/ updateDraftRead(c) \/ deleteDraftRead(c) \/ addLineItemRead(c)
             \/ removeLineItemRead(c) \/ submitRead(c) \/ startEndpoint(c)
             \/ approveStepRead(c) \/ approveTxRead(c) \/ rejectStepRead(c)
      PROVE  Opened'
  <2>1. UNCHANGED rows /\ op[c].pc \notin {"startRead", "start"} /\ \E o : op' = [op EXCEPT ![c] = o]
    BY <1>10 DEF updateDraftRead, deleteDraftRead, addLineItemRead, removeLineItemRead, submitRead,
                startEndpoint, approveStepRead, approveTxRead, rejectStepRead, Begin, Idle
  <2> QED
    BY <1>7, <2>1 DEF rows
<1>11. ASSUME NEW c \in Clients, WriteFails(c) PROVE Opened'
  <2>1. UNCHANGED rows /\ op' = [op EXCEPT ![c] = Idle] /\ request.status = "SUBMITTED"
    BY <1>11 DEF WriteFails, Fail, rows
  <2>2. CASE op[c].pc \in {"startRead", "start"}
    <3>1. workflow.status # "NONE"
      BY <1>11, <2>1, <2>2 DEF WriteFails, RowExists, NoRow
    <3>2. workflow.status = "IN_PROGRESS"
      BY <1>2, <2>1, <3>1, TypeOfRows DEF DecisionInOrder, WorkflowStatus
    <3> QED
      BY <2>1, <3>2 DEF rows
  <2>3. CASE op[c].pc \notin {"startRead", "start"}
    BY <1>7, <2>1, <2>3 DEF rows
  <2> QED
    BY <2>2, <2>3
<1>12. ASSUME NEW c \in Clients, Crash(c) PROVE Opened'
  BY <1>12 DEF Crash
<1> QED
  BY <1>3, <1>4, <1>5, <1>6, <1>7, <1>8, <1>10, <1>11, <1>12, <1>9 DEF Next

\* A submitted request has its workflow once the handler that submitted it is over,
\* unless the process died in between.
THEOREM SubmissionOpensItsReview == Spec => []SubmissionOpensReview
<1>1. SubmissionInv => SubmissionOpensReview
  BY DEF SubmissionInv, SubmissionOpensReview
<1> QED
  BY <1>1, TypeCorrect, UnoverlappedInit, UnoverlappedNext, SubmissionInit, SubmissionNext, PTL DEF Spec

(***************************************************************************)
(* The approval ladder.                                                    *)
(***************************************************************************)
LEMMA LadderStep ==
    ASSUME TypeOK, TypeOK', DecisionInOrder, RowStep
    PROVE  Ladder!LadderNext \/ UNCHANGED <<LadderStage, LadderSigned>>
<1>0. /\ StepsByStatus
      /\ workflow.currentLevel \in Levels
      /\ workflow.step \in [Levels -> ApprovalStatus]
      /\ NoWorkflow.step = [l \in Levels |-> "PENDING"]
  BY StepsInOrderByStatus, TypeOfRows DEF DecisionInOrder, NoWorkflow
<1>1. CASE UNCHANGED rows
  BY <1>1 DEF rows, LadderStage, LadderSigned
<1>2. CASE Drafting
  BY <1>2 DEF Drafting, LadderStage, LadderSigned
<1>3. ASSUME workflow.status = "NONE" PROVE LadderSigned = {}
  BY <1>0, <1>3 DEF StepsByStatus, LadderSigned
<1>4. CASE Deleting
  <2>1. workflow.status = "NONE"
    BY <1>4, TypeOfRows DEF Deleting, DecisionInOrder, WorkflowStatus
  <2>2. LadderSigned = {} /\ LadderSigned' = {}
    BY <1>0, <1>3, <1>4, <2>1 DEF Deleting, LadderSigned
  <2>3. LadderStage = "draft" /\ LadderStage' = "gone"
    BY <1>4 DEF Deleting, LadderStage
  <2> QED
    BY <2>2, <2>3 DEF Ladder!LadderNext, Ladder!Discard
<1>5. CASE Submitting
  <2>1. LadderStage = "draft" /\ LadderStage' = "review"
    BY <1>5 DEF Submitting, LadderStage, TypeOK, Requests
  <2>2. UNCHANGED LadderSigned
    BY <1>5 DEF Submitting, LadderSigned
  <2> QED
    BY <2>1, <2>2 DEF Ladder!LadderNext, Ladder!Submit
<1>6. CASE Starting
  <2>1. LadderSigned = {} /\ LadderSigned' = {}
    BY <1>0, <1>3, <1>6 DEF Starting, LadderSigned
  <2> QED
    BY <1>6, <2>1 DEF Starting, LadderStage
<1>7. CASE SigningLast \/ SigningOther
  <2> DEFINE l == workflow.currentLevel
  <2>1. LadderStage = "review" /\ LadderStage' = IF l = MAX_APPROVAL_LEVEL THEN "approved" ELSE "review"
    BY <1>0, <1>7 DEF SigningLast, SigningOther, LadderStage, DecisionInOrder, TypeOK, Requests,
                      MAX_APPROVAL_LEVEL
  <2>2. LadderSigned = 1 .. (l - 1)
    BY <1>0, <1>7 DEF SigningLast, SigningOther, StepsByStatus, LadderSigned, Levels, MAX_APPROVAL_LEVEL
  <2>3. LadderSigned' = 1 .. l
    BY <1>0, <1>7, <2>2 DEF SigningLast, SigningOther, LadderSigned, Levels, MAX_APPROVAL_LEVEL
  <2>4. l \in 1 .. MAX_APPROVAL_LEVEL
    BY <1>0 DEF Levels
  <2> HIDE DEF l
  <2> QED
    BY <2>1, <2>2, <2>3, <2>4 DEF Ladder!LadderNext, Ladder!Sign
<1>8. CASE Rejecting
  <2>1. LadderStage = "review" /\ LadderStage' = "rejected"
    BY <1>8 DEF Rejecting, LadderStage, DecisionInOrder, TypeOK, Requests
  <2>2. UNCHANGED LadderSigned
    BY <1>0, <1>8 DEF Rejecting, RejectedSteps, StepsByStatus, LadderSigned, Levels, MAX_APPROVAL_LEVEL
  <2> QED
    BY <2>1, <2>2 DEF Ladder!LadderNext, Ladder!Reject
<1> QED
  BY <1>1, <1>2, <1>4, <1>5, <1>6, <1>7, <1>8 DEF RowStep

\* Up to the first write on an overtaken read, every step of the API is a step of
\* ApprovalLadder or leaves the request's stage and signatures alone.
THEOREM ApiClimbsTheLadder == Spec => ClimbsTheLadder
<1> DEFINE Climb == ~staleCommit' => Ladder!LadderNext \/ UNCHANGED <<LadderStage, LadderSigned>>
<1>1. TypeOK /\ TypeOK' /\ UnoverlappedInv /\ [Next]_vars => Climb
  <2> SUFFICES ASSUME TypeOK, TypeOK', UnoverlappedInv, [Next]_vars, ~staleCommit'
               PROVE  Ladder!LadderNext \/ UNCHANGED <<LadderStage, LadderSigned>>
    OBVIOUS
  <2>1. DecisionInOrder /\ RowStep
    BY HistoryIsKept, UnoverlappedRowStep DEF UnoverlappedInv
  <2> QED
    BY <2>1, LadderStep
<1>2. TypeOK /\ TypeOK' /\ UnoverlappedInv /\ [Next]_vars => [Climb]_vars
  BY <1>1
<1> QED
  BY <1>2, TypeCorrect, UnoverlappedInit, UnoverlappedNext, PTL DEF Spec, ClimbsTheLadder
=============================================================================
