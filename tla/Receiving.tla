----------------------------- MODULE Receiving -----------------------------
(***************************************************************************)
(* One purchase order from its draft to its delivery, and the goods        *)
(* receipts recorded against it: PurchaseOrdersService,                    *)
(* GoodsReceiptsService and their repositories.                            *)
(*                                                                         *)
(* As in ApprovalWorkflow.tla a handler is a read, a check of what was     *)
(* read, and a write by id.  Receiving and rejecting goods writes twice:   *)
(* the receipt in one transaction, then, after two fresh reads, the        *)
(* delivery status of the order.                                           *)
(*                                                                         *)
(* History variables: overtaken holds the handlers in flight of which some *)
(* row they read has been written since; staleCommit records that such a   *)
(* handler wrote all the same; crashed that a process died with a handler  *)
(* in flight.                                                              *)
(***************************************************************************)
EXTENDS Integers, FiniteSets, FiniteSetsExt

CONSTANTS
    Clients,        \* handlers that may be in flight together
    Receipts,       \* identities of goods receipts
    Lines,          \* the lines of the purchase order
    Quantity        \* the quantity ordered on each line

\* An order has at least one line and each line a positive quantity, which create
\* checks; the rows of a table are finitely many.
ASSUME QuantityAssumption == Quantity \in [Lines -> Nat \ {0}]
ASSUME RowsAssumption == Lines # {} /\ IsFiniteSet(Lines) /\ IsFiniteSet(Receipts)

VARIABLES po, receipt, op, overtaken, staleCommit, crashed

history == <<overtaken, staleCommit, crashed>>
vars == <<po, receipt, op, overtaken, staleCommit, crashed>>

(***************************************************************************)
(* The tables.                                                             *)
(***************************************************************************)
PurchaseOrderStatus == {"DRAFT", "ISSUED", "ACKNOWLEDGED", "PARTIALLY_DELIVERED",
                        "COMPLETED", "CANCELLED"}
GoodsReceiptStatus == {"DRAFT", "PARTIALLY_RECEIVED", "RECEIVED", "REJECTED", "COMPLETED"}
NoRow == {"NEW", "DELETED"}       \* before the row exists and after its deletion

Quantities == [Lines -> Nat]
Zero == [l \in Lines |-> 0]

\* ordered[l] = 0: the receipt has no item for that line of the order.
ReceiptRows == [status : GoodsReceiptStatus \cup NoRow, ordered : Quantities,
                received : Quantities, rejected : Quantities]

NoReceipt(st) == [status |-> st, ordered |-> Zero, received |-> Zero, rejected |-> Zero]

OrderExists == po \notin NoRow
ReceiptExists(r) == receipt[r].status \notin NoRow

ELIGIBLE_PO_STATUSES == {"ISSUED", "ACKNOWLEDGED", "PARTIALLY_DELIVERED"}

\* Faulty variant: what a completed receipt took in is forgotten.
ProgressWithoutCompleted == {"RECEIVED", "PARTIALLY_RECEIVED"}
PO_PROGRESS_STATUSES == {"RECEIVED", "PARTIALLY_RECEIVED", "COMPLETED"}

Received(l) == [r \in Receipts |-> receipt[r].received[l]]

\* getCumulativeReceivedByPurchaseOrder and buildCumulativeMap.
Cumulative(l) ==
    SumFunctionOnSet(Received(l),
                     {r \in Receipts : receipt[r].status \in PO_PROGRESS_STATUSES})

\* The quantities a row holds after the entries of a request are written to it.
Written(q, entries) == [l \in Lines |-> IF l \in DOMAIN entries THEN entries[l] ELSE q[l]]

resolveReceiptProgressStatus(row, rejectionContext) ==
    LET on == {l \in Lines : row.ordered[l] > 0}
        allAccountedFor == \A l \in on : row.received[l] + row.rejected[l] >= row.ordered[l]
        allRejected == \A l \in on : row.rejected[l] >= row.ordered[l] /\ row.received[l] = 0
        anyReceived == \E l \in on : row.received[l] > 0
        anyRejected == \E l \in on : row.rejected[l] > 0
    IN  CASE allRejected /\ (rejectionContext \/ ~anyReceived) -> "REJECTED"
          [] allAccountedFor /\ anyReceived -> "RECEIVED"
          [] OTHER -> IF anyReceived \/ anyRejected THEN "PARTIALLY_RECEIVED" ELSE "DRAFT"

(***************************************************************************)
(* Handlers in flight, and the rows each has read.                         *)
(***************************************************************************)
Idle == [pc |-> "idle"]
MaxQuantity == Max({Quantity[l] : l \in Lines})
Entries == UNION {[D -> 1 .. MaxQuantity] : D \in SUBSET Lines}

OrderOps == {"deleteOrder", "issue", "acknowledge", "cancel"}
Ops == {Idle}
       \cup [pc : OrderOps \cup {"sync"}]
       \cup [pc : {"create"}, r : Receipts, ordered : Quantities]
       \cup [pc : {"deleteReceipt", "complete"}, r : Receipts]
       \cup [pc : {"receive", "reject"}, r : Receipts, entries : Entries,
             status : GoodsReceiptStatus]
       \cup [pc : {"syncWrite"}, status : PurchaseOrderStatus]

InFlight == {c \in Clients : op[c] # Idle}

\* Rows are named by the receipt they belong to, the order's row by "po".
RowsRead(c) == IF op[c].pc \in OrderOps THEN {"po"}
               ELSE IF op[c].pc \in {"deleteReceipt", "complete"} THEN {op[c].r}
               ELSE Receipts \cup {"po"}

Begin(c, o) == /\ op[c] = Idle
               /\ op' = [op EXCEPT ![c] = o]
               /\ UNCHANGED <<po, receipt, history>>

\* c writes row and goes on as o; the handlers that have read it are overtaken.
Commit(c, o, row) ==
    /\ op' = [op EXCEPT ![c] = o]
    /\ staleCommit' = (staleCommit \/ c \in overtaken)
    /\ overtaken' = IF staleCommit' THEN {}
                    ELSE (overtaken \cup {d \in InFlight : row \in RowsRead(d)}) \ {c}
    /\ UNCHANGED crashed

Stop(c) == /\ op' = [op EXCEPT ![c] = Idle]
           /\ overtaken' = overtaken \ {c}
           /\ UNCHANGED <<po, receipt, staleCommit>>

WriteOrder(c, st) == /\ OrderExists
                     /\ po' = st
                     /\ Commit(c, Idle, "po")
                     /\ UNCHANGED receipt

\* An order just created from an award (purchase-orders.service.ts, create).
Init == /\ po = "DRAFT"
        /\ receipt = [r \in Receipts |-> NoReceipt("NEW")]
        /\ op = [c \in Clients |-> Idle]
        /\ overtaken = {} /\ staleCommit = FALSE /\ crashed = FALSE

(***************************************************************************)
(* PurchaseOrdersService.  Its update handler changes dates, terms and     *)
(* notes of a draft only, which this model does not hold.                  *)
(***************************************************************************)
deleteOrderRead(c) == po = "DRAFT" /\ Begin(c, [pc |-> "deleteOrder"])

\* The receipts go with the order (onDelete: Cascade).
deleteOrder(c) ==
    /\ op[c].pc = "deleteOrder"
    /\ OrderExists
    /\ po' = "DELETED"
    /\ receipt' = [r \in Receipts |-> IF ReceiptExists(r) THEN NoReceipt("DELETED")
                                      ELSE receipt[r]]
    /\ Commit(c, Idle, "po")

issueRead(c) == po = "DRAFT" /\ Begin(c, [pc |-> "issue"])
issue(c) == op[c].pc = "issue" /\ WriteOrder(c, "ISSUED")

acknowledgeRead(c) == po = "ISSUED" /\ Begin(c, [pc |-> "acknowledge"])
acknowledge(c) == op[c].pc = "acknowledge" /\ WriteOrder(c, "ACKNOWLEDGED")

cancelRead(c) == /\ OrderExists
                 /\ po \notin {"CANCELLED", "COMPLETED"}
                 /\ Begin(c, [pc |-> "cancel"])
cancel(c) == op[c].pc = "cancel" /\ WriteOrder(c, "CANCELLED")

(***************************************************************************)
(* GoodsReceiptsService.                                                   *)
(***************************************************************************)
assertPurchaseOrderEligible == po \in ELIGIBLE_PO_STATUSES

\* What is still to come of each line; lines received in full get no item.
Remaining(l) == Quantity[l] - Cumulative(l)

createReceiptRead(c) ==
    \E r \in Receipts :
        /\ receipt[r].status = "NEW"
        /\ \A d \in Clients : op[d].pc = "create" => op[d].r # r
        /\ assertPurchaseOrderEligible
        /\ \E l \in Lines : Remaining(l) > 0
        /\ Begin(c, [pc |-> "create", r |-> r,
                     ordered |-> [l \in Lines |-> IF Remaining(l) > 0 THEN Remaining(l) ELSE 0]])

createReceipt(c) ==
    /\ op[c].pc = "create"
    /\ OrderExists
    /\ receipt' = [receipt EXCEPT ![op[c].r] =
                      [NoReceipt("DRAFT") EXCEPT !.ordered = op[c].ordered]]
    /\ Commit(c, Idle, op[c].r)
    /\ UNCHANGED po

deleteReceiptRead(c) ==
    \E r \in Receipts : /\ receipt[r].status = "DRAFT"
                        /\ Begin(c, [pc |-> "deleteReceipt", r |-> r])

deleteReceipt(c) ==
    /\ op[c].pc = "deleteReceipt"
    /\ ReceiptExists(op[c].r)
    /\ receipt' = [receipt EXCEPT ![op[c].r] = NoReceipt("DELETED")]
    /\ Commit(c, Idle, op[c].r)
    /\ UNCHANGED po

\* Faulty variant: a completed receipt may still be changed.
receivableUnlessRejected(r) == ReceiptExists(r) /\ receipt[r].status # "REJECTED"

assertReceivable(r) == /\ ReceiptExists(r)
                       /\ receipt[r].status \notin {"COMPLETED", "REJECTED"}

OnReceipt(r) == {l \in Lines : receipt[r].ordered[l] > 0}

\* The requests a client may send for receipt r: positive quantities for some of
\* its lines.  A line may be given more than once: the status is resolved from
\* its first entry, the row keeps its last.
Inputs(r) == {e \in Entries : DOMAIN e # {} /\ DOMAIN e \subseteq OnReceipt(r)}

\* Faulty variant: only the order's quantity limits an entry.
MayReceiveOfOrder(row, l, q) == (Cumulative(l) - row.received[l]) + q <= Quantity[l]

MayReceive(row, l, q) ==
    /\ q <= row.ordered[l] - row.rejected[l]
    /\ (Cumulative(l) - row.received[l]) + q <= Quantity[l]
    /\ q + row.rejected[l] <= row.ordered[l]

receiveRead(c) ==
    \E r \in Receipts :
        LET row == receipt[r] IN
        /\ assertReceivable(r)
        /\ assertPurchaseOrderEligible
        /\ \E first, last \in Inputs(r) :
              /\ DOMAIN first = DOMAIN last
              /\ \A l \in DOMAIN last : MayReceive(row, l, first[l]) /\ MayReceive(row, l, last[l])
              /\ Begin(c, [pc |-> "receive", r |-> r, entries |-> last,
                           status |-> resolveReceiptProgressStatus(
                                         [row EXCEPT !.received = Written(@, first)], FALSE)])

\* The items and the status of the receipt, in one transaction.
writeReceived(c, next) ==
    LET r == op[c].r IN
    /\ op[c].pc = "receive"
    /\ ReceiptExists(r)
    /\ receipt' = [receipt EXCEPT ![r].received = Written(@, op[c].entries),
                                  ![r].status = op[c].status]
    /\ Commit(c, next, r)
    /\ UNCHANGED po

\* Faulty variant: the order's delivery status is not brought up to date.
receiveOnly(c) == writeReceived(c, Idle)

receive(c) == writeReceived(c, [pc |-> "sync"])

MayReject(row, l, q) == q + row.received[l] <= row.ordered[l]

rejectRead(c) ==
    \E r \in Receipts :
        LET row == receipt[r] IN
        /\ assertReceivable(r)
        /\ assertPurchaseOrderEligible
        /\ \E first, last \in Inputs(r) :
              /\ DOMAIN first = DOMAIN last
              /\ \A l \in DOMAIN last : MayReject(row, l, first[l]) /\ MayReject(row, l, last[l])
              /\ Begin(c, [pc |-> "reject", r |-> r, entries |-> last,
                           status |-> resolveReceiptProgressStatus(
                                         [row EXCEPT !.rejected = Written(@, first)], TRUE)])

\* Faulty variant: what is turned away is taken off what was received.
rejectFromReceived(c) ==
    LET r == op[c].r
        entries == op[c].entries
        row == receipt[r]
        left == [l \in Lines |-> row.received[l] - IF l \in DOMAIN entries THEN entries[l] ELSE 0]
    IN  /\ op[c].pc = "reject"
        /\ ReceiptExists(r)
        /\ receipt' = [receipt EXCEPT ![r] = [row EXCEPT !.rejected = Written(@, entries),
                                                        !.received = left,
                                                        !.status = op[c].status]]
        /\ Commit(c, [pc |-> "sync"], r)
        /\ UNCHANGED po

reject(c) ==
    LET r == op[c].r IN
    /\ op[c].pc = "reject"
    /\ ReceiptExists(r)
    /\ receipt' = [receipt EXCEPT ![r].rejected = Written(@, op[c].entries),
                                  ![r].status = op[c].status]
    /\ Commit(c, [pc |-> "sync"], r)
    /\ UNCHANGED po

completeRead(c) ==
    \E r \in Receipts :
        /\ ReceiptExists(r)
        /\ receipt[r].status \notin {"DRAFT", "COMPLETED", "REJECTED"}
        /\ \E l \in OnReceipt(r) : receipt[r].received[l] > 0 \/ receipt[r].rejected[l] > 0
        /\ Begin(c, [pc |-> "complete", r |-> r])

complete(c) ==
    LET r == op[c].r IN
    /\ op[c].pc = "complete"
    /\ ReceiptExists(r)
    /\ receipt' = [receipt EXCEPT ![r].status = "COMPLETED"]
    /\ Commit(c, [pc |-> "sync"], r)
    /\ UNCHANGED po

(***************************************************************************)
(* syncPurchaseOrderDeliveryStatus, the end of receive, reject, complete.  *)
(***************************************************************************)
allFullyReceived == \A l \in Lines : Cumulative(l) >= Quantity[l]
anyReceived == \E l \in Lines : Cumulative(l) > 0

DeliveryStatus == IF allFullyReceived THEN "COMPLETED"
                  ELSE IF anyReceived THEN "PARTIALLY_DELIVERED" ELSE po

SyncDue == OrderExists /\ po \notin {"CANCELLED", "DRAFT"} /\ DeliveryStatus # po

\* The order and the receipts are read afresh.
syncRead(c) ==
    /\ op[c].pc = "sync"
    /\ SyncDue
    /\ op' = [op EXCEPT ![c] = [pc |-> "syncWrite", status |-> DeliveryStatus]]
    /\ overtaken' = overtaken \ {c}
    /\ UNCHANGED <<po, receipt, staleCommit, crashed>>

syncIdle(c) == /\ op[c].pc = "sync"
               /\ ~SyncDue
               /\ Stop(c)
               /\ UNCHANGED crashed

syncWrite(c) == op[c].pc = "syncWrite" /\ WriteOrder(c, op[c].status)

(***************************************************************************)
(* The ways a handler ends without a write.                                *)
(***************************************************************************)
WriteFails(c) ==
    /\ \/ op[c].pc \in OrderOps \cup {"create", "syncWrite"} /\ ~OrderExists
       \/ /\ op[c].pc \in {"deleteReceipt", "receive", "reject", "complete"}
          /\ ~ReceiptExists(op[c].r)
    /\ Stop(c)
    /\ UNCHANGED crashed

\* The process dies: an open transaction is rolled back, nothing is resumed.
Crash(c) == /\ op[c] # Idle
            /\ Stop(c)
            /\ crashed' = TRUE

\* The steps a running process takes without any further request.
Continue(c) == \/ deleteOrder(c) \/ issue(c) \/ acknowledge(c) \/ cancel(c)
               \/ createReceipt(c) \/ deleteReceipt(c)
               \/ receive(c) \/ reject(c) \/ complete(c)
               \/ syncRead(c) \/ syncIdle(c) \/ syncWrite(c)
               \/ WriteFails(c)

Request(c) == \/ deleteOrderRead(c) \/ issueRead(c) \/ acknowledgeRead(c) \/ cancelRead(c)
              \/ createReceiptRead(c) \/ deleteReceiptRead(c)
              \/ receiveRead(c) \/ rejectRead(c) \/ completeRead(c)

Next == \E c \in Clients : Request(c) \/ Continue(c) \/ Crash(c)

Spec == Init /\ [][Next]_vars

(***************************************************************************)
(* Properties.                                                             *)
(***************************************************************************)
\* Every table, handler and history variable holds a value of its type.
TypeOK == /\ po \in PurchaseOrderStatus \cup {"DELETED"}
          /\ receipt \in [Receipts -> ReceiptRows]
          /\ op \in [Clients -> Ops]
          /\ overtaken \in SUBSET Clients
          /\ staleCommit \in BOOLEAN
          /\ crashed \in BOOLEAN

TotalReceived(l) == SumFunction(Received(l))

\* However handlers overlap, a receipt line never takes in, and never turns away,
\* more than the receipt was opened for, nor is it opened for more than ordered.
LineWithinOrdered ==
    \A r \in Receipts, l \in Lines :
        /\ receipt[r].received[l] <= receipt[r].ordered[l]
        /\ receipt[r].rejected[l] <= receipt[r].ordered[l]
        /\ receipt[r].ordered[l] <= Quantity[l]

\* As long as no handler writes on an overtaken read, all receipts together take
\* in no more than was ordered, no unit is both received and rejected, and the
\* receipts the delivery progress leaves out have received nothing.
ReceiptsBalance ==
    ~staleCommit =>
        /\ \A l \in Lines : TotalReceived(l) <= Quantity[l]
        /\ \A r \in Receipts, l \in Lines :
              /\ receipt[r].received[l] + receipt[r].rejected[l] <= receipt[r].ordered[l]
              /\ receipt[r].status \in {"DRAFT", "REJECTED"} => receipt[r].received[l] = 0

\* Once the handlers that changed a receipt are over, the order's status tells
\* how much of it has been delivered, unless a process died before its second
\* write or a handler wrote on an overtaken read.
DeliveryStatusAgrees ==
    /\ ~staleCommit /\ ~crashed
    /\ \A c \in Clients : op[c].pc \notin {"sync", "syncWrite"}
    /\ po \notin {"CANCELLED", "DELETED"}
    => /\ po = "COMPLETED" <=> allFullyReceived
       /\ po = "PARTIALLY_DELIVERED" <=> anyReceived /\ ~allFullyReceived

\* As long as no handler writes on an overtaken read, a completed or rejected
\* receipt and a completed, cancelled or deleted order are final.
ClosedStaysClosed ==
    [][~staleCommit' =>
          /\ \A r \in Receipts :
                receipt[r].status \in {"COMPLETED", "REJECTED"} => receipt'[r] = receipt[r]
          /\ po \in {"COMPLETED", "CANCELLED", "DELETED"} => po' = po]_vars

\* "Received quantity cannot exceed ordered quantity for purchase order item": the
\* receipts of an order together stay within the quantity ordered.
NeverOverReceived == \A l \in Lines : TotalReceived(l) <= Quantity[l]
=============================================================================
