-------------------------- MODULE ApprovalWorkflow --------------------------
(***************************************************************************)
(* A procurement request from its draft to the decision of its approval    *)
(* workflow: ProcurementService, ApprovalWorkflowService and the two       *)
(* repositories behind them.                                               *)
(*                                                                         *)
(* An HTTP handler is not atomic.  It reads rows, checks what it read in   *)
(* memory and then issues an update whose WHERE clause holds the row's id  *)
(* only, so anything may happen between the read and the write.  Each      *)
(* element of Clients is one handler in flight: op[c] says where it is and *)
(* what it remembers of its read.  A query, and a $transaction once it     *)
(* holds its first row lock, is one step.                                  *)
(*                                                                         *)
(* Three history variables are no part of the program.  overtaken holds    *)
(* the handlers in flight whose read another handler's write has followed; *)
(* staleCommit records that such a handler wrote all the same, which is    *)
(* what a version column in the WHERE clause would refuse; crashed records *)
(* that a process died with a handler in flight.  approvals counts the     *)
(* committed approvals.                                                    *)
(***************************************************************************)
EXTENDS Integers, FiniteSets, FiniteSetsExt

CONSTANTS
    Clients,        \* handlers that may be in flight together
    Users,          \* the members of the organisation
    NoUser,         \* the approver of a step that does not exist
    RoleOf,         \* the role of each of them
    Items,          \* identities of line items
    Price,          \* the total price of each line item
    Budgets         \* the values of estimatedBudget a requester may enter

ASSUME PriceAssumption == Price \in [Items -> Nat]

VARIABLES request, workflow, op, overtaken, staleCommit, crashed, approvals

rows == <<request, workflow>>
history == <<overtaken, staleCommit, crashed, approvals>>
vars == <<request, workflow, op, overtaken, staleCommit, crashed, approvals>>

(***************************************************************************)
(* The tables.                                                             *)
(***************************************************************************)
ProcurementStatus == {"DRAFT", "SUBMITTED", "REJECTED", "APPROVED"}
NoRow == {"NEW", "DELETED"}       \* before the row exists and after its deletion
WorkflowStatus == {"IN_PROGRESS", "APPROVED", "REJECTED"}
ApprovalStatus == {"PENDING", "APPROVED", "REJECTED", "SKIPPED"}

MAX_APPROVAL_LEVEL == 4
Levels == 1 .. MAX_APPROVAL_LEVEL

LevelRole == <<"DEPARTMENT_HEAD", "PROCUREMENT_MANAGER", "FINANCE", "ADMIN">>

\* The level's own role comes first, an admin stands in for it.
AssignableTo(l) ==
    IF \E u \in Users : RoleOf[u] = LevelRole[l]
    THEN {u \in Users : RoleOf[u] = LevelRole[l]}
    ELSE {u \in Users : RoleOf[u] = "ADMIN"}

Requests == [status : ProcurementStatus \cup NoRow, budget : Budgets,
             items : SUBSET Items, created : SUBSET Items]
Workflows == [status : WorkflowStatus \cup {"NONE"}, currentLevel : Levels,
              step : [Levels -> ApprovalStatus],
              approver : [Levels -> Users \cup {NoUser}]]

NoWorkflow == [status |-> "NONE", currentLevel |-> 1,
               step |-> [l \in Levels |-> "PENDING"],
               approver |-> [l \in Levels |-> NoUser]]

RowExists == request.status \notin NoRow

calculateTotalCost(items) == MapThenSumSet(LAMBDA i : Price[i], items)

Submittable == /\ request.items # {}
               /\ request.budget = calculateTotalCost(request.items)

(***************************************************************************)
(* Handlers in flight.                                                     *)
(***************************************************************************)
Idle == [pc |-> "idle"]

Ops == {Idle}
       \cup [pc : {"delete", "submit", "startRead", "start"}]
       \cup [pc : {"update"}, budget : Budgets]
       \cup [pc : {"addItem", "removeItem"}, item : Items]
       \cup [pc : {"approve", "reject"}, level : Levels]
       \cup [pc : {"approveTx"}, level : Levels, current : Levels]

InFlight == {c \in Clients : op[c] # Idle}

\* A handler starts with a read; it remembers o.
Begin(c, o) == /\ op[c] = Idle
               /\ op' = [op EXCEPT ![c] = o]
               /\ UNCHANGED <<rows, history>>

\* A write by c overtakes every other handler in flight.
Commit(c, o) == /\ op' = [op EXCEPT ![c] = o]
                /\ overtaken' = InFlight \ {c}
                /\ staleCommit' = (staleCommit \/ c \in overtaken)
                /\ UNCHANGED crashed

\* The handler throws: it changes no row and is over.
Fail(c) == /\ op' = [op EXCEPT ![c] = Idle]
           /\ overtaken' = overtaken \ {c}
           /\ UNCHANGED <<rows, staleCommit, crashed, approvals>>

Init == /\ request \in {[status |-> "NEW", budget |-> b, items |-> {}, created |-> {}] :
                           b \in Budgets}
        /\ workflow = NoWorkflow
        /\ op = [c \in Clients |-> Idle]
        /\ overtaken = {} /\ staleCommit = FALSE /\ crashed = FALSE
        /\ approvals = 0

(***************************************************************************)
(* ProcurementService.                                                     *)
(***************************************************************************)
createDraft(c) ==
    /\ op[c] = Idle
    /\ request.status = "NEW"
    /\ \E b \in Budgets :
          request' = [request EXCEPT !.status = "DRAFT", !.budget = b]
    /\ Commit(c, Idle)
    /\ UNCHANGED <<workflow, approvals>>

\* Faulty variant: a request stays editable until it is decided.
editableUntilDecided == request.status \in {"DRAFT", "SUBMITTED"}

assertDraftEditable == request.status = "DRAFT"

updateDraftRead(c) == /\ assertDraftEditable
                      /\ \E b \in Budgets : Begin(c, [pc |-> "update", budget |-> b])

\* The row's id is the whole condition of the update; a row that is gone makes
\* it throw.
updateDraft(c) == /\ op[c].pc = "update"
                  /\ RowExists
                  /\ request' = [request EXCEPT !.budget = op[c].budget]
                  /\ Commit(c, Idle)
                  /\ UNCHANGED <<workflow, approvals>>

\* Faulty variant: the status is not checked.
deleteAnyRead(c) == RowExists /\ Begin(c, [pc |-> "delete"])

deleteDraftRead(c) == assertDraftEditable /\ Begin(c, [pc |-> "delete"])

\* The line items, the workflow and its steps go with the request (onDelete:
\* Cascade).
deleteDraft(c) == /\ op[c].pc = "delete"
                  /\ RowExists
                  /\ request' = [request EXCEPT !.status = "DELETED", !.items = {}]
                  /\ workflow' = NoWorkflow
                  /\ Commit(c, Idle)
                  /\ UNCHANGED approvals

\* Identities neither used nor about to be: cuid() never repeats itself.
FreshItems ==
    Items \ (request.created
             \cup {op[d].item : d \in {e \in Clients : op[e].pc = "addItem"}})

addLineItemRead(c) ==
    /\ assertDraftEditable
    /\ \E i \in FreshItems : Begin(c, [pc |-> "addItem", item |-> i])

addLineItem(c) ==
    /\ op[c].pc = "addItem"
    /\ RowExists
    /\ request' = [request EXCEPT !.items = @ \cup {op[c].item},
                                  !.created = @ \cup {op[c].item}]
    /\ Commit(c, Idle)
    /\ UNCHANGED <<workflow, approvals>>

removeLineItemRead(c) ==
    /\ assertDraftEditable
    /\ \E i \in request.items : Begin(c, [pc |-> "removeItem", item |-> i])

removeLineItem(c) == /\ op[c].pc = "removeItem"
                     /\ op[c].item \in request.items
                     /\ request' = [request EXCEPT !.items = @ \ {op[c].item}]
                     /\ Commit(c, Idle)
                     /\ UNCHANGED <<workflow, approvals>>

submitRead(c) == /\ assertDraftEditable
                 /\ Submittable
                 /\ Begin(c, [pc |-> "submit"])

\* Faulty variant: the workflow is left to a later call.
submitOnly(c) == /\ op[c].pc = "submit"
                 /\ RowExists
                 /\ request' = [request EXCEPT !.status = "SUBMITTED"]
                 /\ Commit(c, Idle)
                 /\ UNCHANGED <<workflow, approvals>>

\* The status is written first; the workflow is started afterwards, by the same
\* handler but in no common transaction.
submit(c) == /\ op[c].pc = "submit"
             /\ RowExists
             /\ request' = [request EXCEPT !.status = "SUBMITTED"]
             /\ Commit(c, [pc |-> "startRead"])
             /\ UNCHANGED <<workflow, approvals>>

(***************************************************************************)
(* ApprovalWorkflowService.                                                *)
(***************************************************************************)
\* POST /approval-workflows/:requestId/start runs startWorkflow on its own.
startEndpoint(c) == RowExists /\ Begin(c, [pc |-> "startRead"])

startWorkflowRead(c) ==
    /\ op[c].pc = "startRead"
    /\ request.status = "SUBMITTED"
    /\ op' = [op EXCEPT ![c] = [pc |-> "start"]]
    /\ overtaken' = overtaken \ {c}
    /\ UNCHANGED <<rows, staleCommit, crashed, approvals>>

\* The lookup of an existing workflow and the unique procurementRequestId refuse
\* the same cases, the one with a 409 and the other with a constraint error.
startWorkflow(c) ==
    /\ op[c].pc = "start"
    /\ RowExists
    /\ workflow.status = "NONE"
    /\ \E a \in [Levels -> Users] :
          /\ \A l \in Levels : a[l] \in AssignableTo(l)
          /\ workflow' = [NoWorkflow EXCEPT !.status = "IN_PROGRESS", !.approver = a]
    /\ Commit(c, Idle)
    /\ UNCHANGED <<request, approvals>>

assertCanAct(u, l) == u = workflow.approver[l] \/ RoleOf[u] = "ADMIN"

\* getWorkflowOrThrow, getCurrentStepOrThrow and the checks after them.
CurrentStepIsOpen == /\ workflow.status = "IN_PROGRESS"
                     /\ workflow.step[workflow.currentLevel] = "PENDING"
                     /\ \E u \in Users : assertCanAct(u, workflow.currentLevel)

approveStepRead(c) ==
    /\ CurrentStepIsOpen
    /\ Begin(c, [pc |-> "approve", level |-> workflow.currentLevel])

rejectStepRead(c) ==
    /\ CurrentStepIsOpen
    /\ Begin(c, [pc |-> "reject", level |-> workflow.currentLevel])

\* The transaction reads the workflow again and checks nothing again.
approveTxRead(c) ==
    /\ op[c].pc = "approve"
    /\ workflow.status # "NONE"
    /\ op' = [op EXCEPT ![c] = [pc |-> "approveTx", level |-> op[c].level,
                                current |-> workflow.currentLevel]]
    /\ UNCHANGED <<rows, history>>

\* The transaction signs a step and moves the workflow on from the level it read.
signStep(c, level, isFinalLevel) ==
    LET signed == [workflow EXCEPT !.step[level] = "APPROVED"]
    IN  /\ op[c].pc = "approveTx"
        /\ workflow.status # "NONE"
        /\ \/ /\ isFinalLevel
              /\ workflow' = [signed EXCEPT !.status = "APPROVED"]
              /\ request' = [request EXCEPT !.status = "APPROVED"]
           \/ /\ ~isFinalLevel
              /\ workflow' = [signed EXCEPT !.currentLevel = op[c].current + 1]
              /\ UNCHANGED request
        /\ approvals' = approvals + 1
        /\ Commit(c, Idle)

\* Faulty variants: the last level is taken for an earlier or a later one, the
\* step signed is the next one.
approveTooEarly(c) == signStep(c, op[c].level, op[c].current >= MAX_APPROVAL_LEVEL - 1)
approveTooLate(c) == signStep(c, op[c].level, op[c].current > MAX_APPROVAL_LEVEL)
approveNextStep(c) == signStep(c, op[c].level + 1, op[c].current >= MAX_APPROVAL_LEVEL)

approve(c) == signStep(c, op[c].level, op[c].current >= MAX_APPROVAL_LEVEL)

\* Faulty variant: the rejected step is among those skipped.
RejectedStepsFrom(step, level) ==
    [l \in Levels |-> IF l >= level THEN "SKIPPED" ELSE step[l]]

\* The steps after a rejected one that were still pending are skipped.
RejectedSteps(step, level) ==
    [l \in Levels |-> IF l = level THEN "REJECTED"
                      ELSE IF l > level /\ step[l] = "PENDING" THEN "SKIPPED"
                      ELSE step[l]]

reject(c) ==
    /\ op[c].pc = "reject"
    /\ workflow.status # "NONE"
    /\ workflow' = [workflow EXCEPT !.status = "REJECTED",
                                    !.step = RejectedSteps(@, op[c].level)]
    /\ request' = [request EXCEPT !.status = "REJECTED"]
    /\ Commit(c, Idle)
    /\ UNCHANGED approvals

(***************************************************************************)
(* The ways a handler ends without a write.                                *)
(***************************************************************************)
\* A write that finds its row gone, or a unique key taken, throws.
WriteFails(c) ==
    /\ \/ /\ op[c].pc \in {"update", "delete", "addItem", "submit", "start"}
          /\ ~RowExists
       \/ op[c].pc = "removeItem" /\ op[c].item \notin request.items
       \/ op[c].pc = "startRead" /\ request.status # "SUBMITTED"
       \/ op[c].pc = "start" /\ workflow.status # "NONE"
       \/ op[c].pc = "start" /\ \E l \in Levels : AssignableTo(l) = {}
       \/ op[c].pc \in {"approve", "approveTx", "reject"} /\ workflow.status = "NONE"
    /\ Fail(c)

\* The process dies: an open transaction is rolled back, nothing is resumed.
Crash(c) == /\ op[c] # Idle
            /\ op' = [op EXCEPT ![c] = Idle]
            /\ overtaken' = overtaken \ {c}
            /\ crashed' = TRUE
            /\ UNCHANGED <<rows, staleCommit, approvals>>

Next == \E c \in Clients :
    \/ createDraft(c)
    \/ updateDraftRead(c)    \/ updateDraft(c)
    \/ deleteDraftRead(c)    \/ deleteDraft(c)
    \/ addLineItemRead(c)    \/ addLineItem(c)
    \/ removeLineItemRead(c) \/ removeLineItem(c)
    \/ submitRead(c)         \/ submit(c)
    \/ startEndpoint(c)      \/ startWorkflowRead(c) \/ startWorkflow(c)
    \/ approveStepRead(c)    \/ approveTxRead(c)     \/ approve(c)
    \/ rejectStepRead(c)     \/ reject(c)
    \/ WriteFails(c)         \/ Crash(c)

Spec == Init /\ [][Next]_vars

(***************************************************************************)
(* Properties.                                                             *)
(***************************************************************************)
\* Every table, handler and history variable holds a value of its type.
TypeOK == /\ request \in Requests
          /\ workflow \in Workflows
          /\ op \in [Clients -> Ops]
          /\ overtaken \in SUBSET Clients
          /\ staleCommit \in BOOLEAN
          /\ crashed \in BOOLEAN
          /\ approvals \in Nat

\* However handlers overlap, the workflow never stands on a level that fewer
\* approvals than the levels below it have been committed for, and four are
\* committed before it is approved.
ApprovalsCounted == /\ workflow.currentLevel <= approvals + 1
                    /\ workflow.status = "APPROVED" => approvals >= MAX_APPROVAL_LEVEL

\* However handlers overlap, the workflow leaves its first level only when that
\* level's step has been acted on.
FirstLevelActs ==
    workflow.currentLevel > 1 \/ workflow.status = "APPROVED"
        => workflow.step[1] \in {"APPROVED", "REJECTED"}

\* The steps an active workflow, an approved one and a rejected one must show:
\* signed below the level whose turn it is, untouched from there on.
StepsInOrder ==
    LET below == {l \in Levels : l < workflow.currentLevel}
        above == {l \in Levels : l > workflow.currentLevel}
        All(S, st) == \A l \in S : workflow.step[l] = st
    IN  /\ workflow.status = "NONE" => workflow = NoWorkflow
        /\ workflow.status \in {"IN_PROGRESS", "REJECTED"} => All(below, "APPROVED")
        /\ workflow.status = "IN_PROGRESS" => All(Levels \ below, "PENDING")
        /\ workflow.status = "REJECTED" => /\ All({workflow.currentLevel}, "REJECTED")
                                           /\ All(above, "SKIPPED")
        /\ workflow.status = "APPROVED" => All(Levels, "APPROVED")

\* As long as no handler writes on an overtaken read, the steps of the workflow
\* are in order and the request's status is the workflow's outcome.
DecisionFollowsTheSteps ==
    ~staleCommit =>
        /\ StepsInOrder
        /\ \A st \in {"APPROVED", "REJECTED"} : request.status = st <=> workflow.status = st
        /\ workflow.status = "IN_PROGRESS" => request.status = "SUBMITTED"

\* As long as no handler writes on an overtaken read, what the approvers decide
\* about has line items and the budget of their sum: drafts are edited, never a
\* submitted request.
ReviewedContentAddsUp ==
    ~staleCommit /\ request.status \in {"SUBMITTED", "APPROVED", "REJECTED"} => Submittable

\* A submitted request has its workflow once the handler that submitted it is
\* over, unless the process died in between.
SubmissionOpensReview ==
    /\ ~staleCommit /\ ~crashed
    /\ request.status = "SUBMITTED"
    /\ \A l \in Levels : AssignableTo(l) # {}
    /\ \A c \in Clients : op[c].pc \notin {"startRead", "start"}
    => workflow.status = "IN_PROGRESS"

LadderStage == CASE request.status \in {"NEW", "DRAFT"} -> "draft"
                 [] request.status = "SUBMITTED" -> "review"
                 [] request.status = "APPROVED" -> "approved"
                 [] request.status = "REJECTED" -> "rejected"
                 [] request.status = "DELETED" -> "gone"
LadderSigned == {l \in Levels : workflow.step[l] = "APPROVED"}

Ladder == INSTANCE ApprovalLadder
          WITH stage <- LadderStage, signed <- LadderSigned, LastLevel <- MAX_APPROVAL_LEVEL

\* Up to the first write on an overtaken read, every step of the API is a step of
\* ApprovalLadder or leaves the request's stage and signatures alone.
ClimbsTheLadder ==
    [][~staleCommit' => Ladder!LadderNext \/ UNCHANGED <<LadderStage, LadderSigned>>]_vars

\* "approves all workflow levels sequentially": an approved request carries the
\* signature of every level.
ApprovedAtEveryLevel ==
    request.status = "APPROVED" => \A l \in Levels : workflow.step[l] = "APPROVED"
=============================================================================
