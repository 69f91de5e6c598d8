----------------------------- MODULE Invoicing -----------------------------
(***************************************************************************)
(* A vendor's invoice for one goods receipt of one purchase order, from    *)
(* its draft over the three-way match to its payment: InvoicesService and  *)
(* InvoiceRepository.  No handler looks at a second invoice, so one is     *)
(* enough.                                                                 *)
(*                                                                         *)
(* Handlers and history variables are those of Receiving.tla.  The receipt *)
(* and the order are read here and written there; what they do between two *)
(* steps of this module is in the section after Init.                      *)
(***************************************************************************)
EXTENDS Integers, FiniteSets, FiniteSetsExt, Bags

CONSTANTS
    Clients,        \* handlers that may be in flight together
    Lines,          \* the lines of the purchase order
    Quantity,       \* the quantity ordered on each line
    UnitPrice,      \* and the unit price agreed
    Bills           \* bags of items a vendor may put on an invoice

\* An order and a bill have finitely many lines and items.
ASSUME OrderAssumption == /\ IsFiniteSet(Lines)
                          /\ Quantity \in [Lines -> Nat \ {0}]
                          /\ UnitPrice \in [Lines -> Nat]
ASSUME BillAssumption ==
    \A b \in Bills : /\ IsABag(b) /\ b # EmptyBag /\ IsFiniteSet(DOMAIN b)
                     /\ \A i \in DOMAIN b : i \in [line : Lines, quantity : Nat, unitPrice : Nat]

VARIABLES invoice, receipt, orderActive, op, overtaken, staleCommit

history == <<overtaken, staleCommit>>
vars == <<invoice, receipt, orderActive, op, overtaken, staleCommit>>

(***************************************************************************)
(* The tables.                                                             *)
(***************************************************************************)
InvoiceStatus == {"DRAFT", "SUBMITTED", "MATCHED", "APPROVED", "REJECTED", "PAID"}
\* MISSING_PO, MISSING_GRN and FAILED need a row that is gone, and with it the
\* invoice (onDelete: Cascade).
MatchStatus == {"MATCHED", "PRICE_MISMATCH", "QUANTITY_MISMATCH"}

calculateItemsSubtotal(items) ==
    SumFunction([i \in DOMAIN items |-> items[i] * i.quantity * i.unitPrice])

NoInvoice == [status |-> "NONE", items |-> EmptyBag, subtotal |-> 0, match |-> "NONE"]
InvoiceExists == invoice.status # "NONE"

Worth(quantity) == [l \in Lines |-> quantity[l] * UnitPrice[l]]
poTotal == SumFunction(Worth(Quantity))
grnReceivedTotal == SumFunctionOnSet(Worth(receipt.received), receipt.lines)

(***************************************************************************)
(* Handlers in flight.                                                     *)
(***************************************************************************)
Idle == [pc |-> "idle"]

InFlight == {c \in Clients : op[c] # Idle}

BillItems == [line : Lines, quantity : Nat, unitPrice : Nat]
IsBill(b) == IsABag(b) /\ DOMAIN b \subseteq BillItems

Ops == {Idle}
       \cup [pc : {"create", "replaceDelete"}, items : Bills]
       \cup [pc : {"replace"}, items : Bills, kept : Bills \cup {EmptyBag}]
       \cup [pc : {"update"}, subtotal : Nat]
       \cup [pc : {"matched"}, result : MatchStatus]
       \cup [pc : {"delete", "submit", "setMatched", "approve", "reject", "markPaid"}]

\* All read the invoice's row; creating and matching read the receipt as well.
ReadsReceipt(o) == o.pc \in {"create", "matched", "setMatched"}

Begin(c, o) == /\ op[c] = Idle
               /\ op' = [op EXCEPT ![c] = o]
               /\ UNCHANGED <<invoice, receipt, orderActive, history>>

\* c writes the invoice's row: every other handler is overtaken.
Overtake(c) == /\ overtaken' = InFlight \ {c}
               /\ staleCommit' = (staleCommit \/ c \in overtaken)
               /\ UNCHANGED <<receipt, orderActive>>

\* ... and c goes on as o.
Commit(c, o) == op' = [op EXCEPT ![c] = o] /\ Overtake(c)

Write(c, row, o) == InvoiceExists /\ invoice' = row /\ Commit(c, o)
SetStatus(c, st) == Write(c, [invoice EXCEPT !.status = st], Idle)

Stop(c) == /\ op' = [op EXCEPT ![c] = Idle]
           /\ overtaken' = overtaken \ {c}
           /\ UNCHANGED <<invoice, receipt, orderActive, staleCommit>>

\* A receipt for some lines of the order, nothing delivered yet.
Init == /\ invoice = NoInvoice
        /\ receipt \in {[status |-> "DRAFT", lines |-> L, received |-> [l \in Lines |-> 0]] :
                            L \in (SUBSET Lines) \ {{}}}
        /\ orderActive = TRUE
        /\ op = [c \in Clients |-> Idle]
        /\ overtaken = {} /\ staleCommit = FALSE

(***************************************************************************)
(* The receipt and the order.                                              *)
(***************************************************************************)
\* The receipt's row is written: handlers that have read it are overtaken.
MoveReceipt(row) == /\ receipt' = row
                    /\ overtaken' = overtaken \cup {c \in Clients : ReadsReceipt(op[c])}
                    /\ UNCHANGED <<invoice, orderActive, op, staleCommit>>

\* Goods are received, or counted anew, until the receipt is completed, also by a
\* handler that read the order before it was cancelled.  RECEIVED stands for
\* PARTIALLY_RECEIVED as well.
GoodsReceived == /\ receipt.status \in {"DRAFT", "RECEIVED"}
                 /\ \E l \in receipt.lines : \E q \in 1 .. Quantity[l] :
                       MoveReceipt([receipt EXCEPT !.status = "RECEIVED", !.received[l] = q])

\* Goods turned away leave the quantities received; a receipt that has received
\* nothing may end with them.
GoodsRejected ==
    /\ receipt.status \in {"DRAFT", "RECEIVED"}
    /\ \/ MoveReceipt([receipt EXCEPT !.status = "RECEIVED"])
       \/ /\ \A l \in receipt.lines : receipt.received[l] = 0
          /\ MoveReceipt([receipt EXCEPT !.status = "REJECTED"])

ReceiptCompleted == /\ receipt.status = "RECEIVED"
                    /\ MoveReceipt([receipt EXCEPT !.status = "COMPLETED"])

\* An order delivered in full may still be cancelled before its status says so.
OrderCancelled == /\ orderActive
                  /\ orderActive' = FALSE
                  /\ UNCHANGED <<invoice, receipt, op, history>>

(***************************************************************************)
(* InvoicesService.                                                        *)
(***************************************************************************)
\* The order is issued and not cancelled, goods have been received.  The row is
\* a new one: no handler in flight knows it.
createRead(c) == /\ InFlight = {}
                 /\ ~InvoiceExists
                 /\ orderActive
                 /\ receipt.status \in {"RECEIVED", "COMPLETED"}
                 /\ \E b \in Bills : Begin(c, [pc |-> "create", items |-> b])

create(c) == /\ op[c].pc = "create"
             /\ invoice' = [NoInvoice EXCEPT !.status = "DRAFT", !.items = op[c].items,
                                             !.subtotal = calculateItemsSubtotal(op[c].items)]
             /\ Commit(c, Idle)

\* Faulty variant: whatever is not final may be edited (assertEditable alone).
notReadOnly == invoice.status \in {"DRAFT", "SUBMITTED", "MATCHED", "APPROVED"}

draftOnly == invoice.status = "DRAFT"

\* A new list of items replaces the old one, or the subtotal read is declared again.
updateRead(c) ==
    /\ draftOnly
    /\ \/ \E b \in Bills : Begin(c, [pc |-> "replaceDelete", items |-> b])
       \/ Begin(c, [pc |-> "update", subtotal |-> invoice.subtotal])

update(c) == /\ op[c].pc = "update"
             /\ Write(c, [invoice EXCEPT !.subtotal = op[c].subtotal], Idle)

\* Faulty variant: the DELETE is committed on its own, before the new items.
replaceItemsDeleteAlone(c) ==
    /\ op[c].pc = "replaceDelete"
    /\ Write(c, [invoice EXCEPT !.items = EmptyBag],
             [pc |-> "replace", items |-> op[c].items, kept |-> EmptyBag])

\* replaceItems deletes the items its DELETE finds.  Those another handler commits
\* from then on are not among them and stay: kept (exact for two handlers).
replaceItemsDelete(c) ==
    /\ op[c].pc = "replaceDelete"
    /\ op' = [op EXCEPT ![c] = [pc |-> "replace", items |-> op[c].items, kept |-> EmptyBag]]
    /\ UNCHANGED <<invoice, receipt, orderActive, history>>

replaceItems(c) ==
    LET new == op[c].items
        After(d) == IF d = c THEN Idle
                    ELSE IF op[d].pc = "replace" THEN [op[d] EXCEPT !.kept = new]
                    ELSE op[d]
    IN  /\ op[c].pc = "replace"
        /\ InvoiceExists
        /\ invoice' = [invoice EXCEPT !.items = op[c].kept (+) new,
                                      !.subtotal = calculateItemsSubtotal(new)]
        /\ op' = [d \in Clients |-> After(d)]
        /\ Overtake(c)

deleteRead(c) == draftOnly /\ Begin(c, [pc |-> "delete"])
delete(c) == /\ op[c].pc = "delete"
             /\ Write(c, NoInvoice, Idle)

assertInvoiceItemsTotal == invoice.subtotal = calculateItemsSubtotal(invoice.items)

submitRead(c) == /\ draftOnly
                 /\ assertInvoiceItemsTotal
                 /\ Begin(c, [pc |-> "submit"])
submit(c) == op[c].pc = "submit" /\ SetStatus(c, "SUBMITTED")

QuantityMismatch(items, received) ==
    \E i \in DOMAIN items : i.line \notin receipt.lines \/ i.quantity # received[i.line]

PriceMismatch(items, subtotal) ==
    \/ \E i \in DOMAIN items : i.line \in receipt.lines /\ i.unitPrice # UnitPrice[i.line]
    \/ subtotal # poTotal
    \/ subtotal # grnReceivedTotal

\* Faulty variant: the declared subtotal is compared with nothing.
matchQuantitiesOnly == IF QuantityMismatch(invoice.items, receipt.received)
                       THEN "QUANTITY_MISMATCH" ELSE "MATCHED"

\* Faulty variant: quantities are left out of the comparison.
matchPricesOnly == IF PriceMismatch(invoice.items, invoice.subtotal)
                   THEN "PRICE_MISMATCH" ELSE "MATCHED"

runThreeWayMatch ==
    IF QuantityMismatch(invoice.items, receipt.received) THEN "QUANTITY_MISMATCH"
    ELSE IF PriceMismatch(invoice.items, invoice.subtotal) THEN "PRICE_MISMATCH"
    ELSE "MATCHED"

matchRead(c) == /\ invoice.status = "SUBMITTED"
                /\ Begin(c, [pc |-> "matched", result |-> runThreeWayMatch])

\* Two writes in no common transaction: the result, then, if it is MATCHED, the
\* invoice's status.
upsertMatchingResult(c) ==
    LET next == IF op[c].result = "MATCHED" THEN [pc |-> "setMatched"] ELSE Idle
    IN  /\ op[c].pc = "matched"
        /\ Write(c, [invoice EXCEPT !.match = op[c].result], next)

setMatchedStatus(c) == op[c].pc = "setMatched" /\ SetStatus(c, "MATCHED")

\* Faulty variant: a submitted invoice may be approved without a match.
approveUnmatchedRead(c) == /\ invoice.status \in {"SUBMITTED", "MATCHED"}
                           /\ Begin(c, [pc |-> "approve"])

approveRead(c) == /\ invoice.status = "MATCHED"
                  /\ invoice.match = "MATCHED"
                  /\ Begin(c, [pc |-> "approve"])
approve(c) == op[c].pc = "approve" /\ SetStatus(c, "APPROVED")

rejectRead(c) == /\ invoice.status \in {"SUBMITTED", "MATCHED"}
                 /\ Begin(c, [pc |-> "reject"])
reject(c) == op[c].pc = "reject" /\ SetStatus(c, "REJECTED")

markPaidRead(c) == invoice.status = "APPROVED" /\ Begin(c, [pc |-> "markPaid"])
markPaid(c) == op[c].pc = "markPaid" /\ SetStatus(c, "PAID")

(***************************************************************************)
(* The ways a handler ends without a write.                                *)
(***************************************************************************)
WriteFails(c) == /\ op[c].pc \notin {"idle", "create"}
                 /\ ~InvoiceExists
                 /\ Stop(c)

\* The process dies: an open transaction is rolled back, nothing is resumed.
Crash(c) == op[c] # Idle /\ Stop(c)

Next ==
    \/ GoodsReceived \/ GoodsRejected \/ ReceiptCompleted \/ OrderCancelled
    \/ \E c \in Clients :
          \/ createRead(c)   \/ create(c)
          \/ updateRead(c)   \/ update(c) \/ replaceItemsDelete(c) \/ replaceItems(c)
          \/ deleteRead(c)   \/ delete(c)
          \/ submitRead(c)   \/ submit(c)
          \/ matchRead(c)    \/ upsertMatchingResult(c) \/ setMatchedStatus(c)
          \/ approveRead(c)  \/ approve(c)
          \/ rejectRead(c)   \/ reject(c)
          \/ markPaidRead(c) \/ markPaid(c)
          \/ WriteFails(c)   \/ Crash(c)

Spec == Init /\ [][Next]_vars

(***************************************************************************)
(* Properties.                                                             *)
(***************************************************************************)
\* The columns and the values handlers hold are of their types; the items of a
\* deleted invoice are gone with it.
TypeOK ==
    /\ invoice.status \in InvoiceStatus \cup {"NONE"}
    /\ invoice.match \in MatchStatus \cup {"NONE"}
    /\ invoice.subtotal \in Nat
    /\ IsBill(invoice.items)
    /\ (invoice.items = EmptyBag) = ~InvoiceExists
    /\ receipt \in [status : {"DRAFT", "RECEIVED", "REJECTED", "COMPLETED"}, lines : SUBSET Lines,
                    received : [Lines -> Nat]]
    /\ orderActive \in BOOLEAN
    /\ op \in [Clients -> Ops]
    /\ overtaken \subseteq InFlight
    /\ staleCommit \in BOOLEAN

\* However the handlers overlap or die, an invoice that is matched, approved or
\* paid has been through the three-way match (InvoicesService.approve:
\* 'Invoice must pass three-way matching before approval').
ApprovalNeedsMatching ==
    invoice.status \in {"MATCHED", "APPROVED", "PAID"} => invoice.match # "NONE"

\* As long as no handler writes over what it did not read, an invoice declares
\* the sum of its items, and one that passed the match declares the total of the
\* purchase order and keeps its result (assertInvoiceItemsTotal,
\* runThreeWayMatch and the edits a submitted invoice no longer admits).
MatchedAmounts ==
    ~staleCommit /\ InvoiceExists =>
        /\ invoice.subtotal = calculateItemsSubtotal(invoice.items)
        /\ invoice.status \in {"MATCHED", "APPROVED", "PAID"} =>
               invoice.match = "MATCHED" /\ invoice.subtotal = poTotal

\* What the match compares a bill with: every item bills what was received of its
\* line, and the sum of the items is the worth of what was received.
Stage == [NONE |-> "none", DRAFT |-> "draft", SUBMITTED |-> "claimed", MATCHED |-> "verified",
          APPROVED |-> "cleared", PAID |-> "paid", REJECTED |-> "refused"]
AgreesWithGoods(items, received) ==
    /\ \A i \in DOMAIN items : i.quantity = received[i.line]
    /\ calculateItemsSubtotal(items) = SumFunction(Worth(received))

Claims == INSTANCE Payable WITH
    stage <- Stage[invoice.status], bill <- invoice.items, delivered <- receipt.received,
    NoClaim <- EmptyBag, Agrees <- AgreesWithGoods

\* As long as no handler writes over what it did not read, the invoice is a
\* payable claim: what was submitted is what is matched with the goods received
\* by then, approved and paid, in this order, and a refusal is final (the status
\* checks of InvoicesService).
PaysWhatWasClaimed ==
    Claims!PayableInit /\ [][~staleCommit' => Claims!PayableNext]_vars

\* A matched invoice for goods received in full bills every line with what was
\* received of it, no less and no more.
MatchedBillsWhatArrived ==
    LET Billed(l) == MapThenSumSet(LAMBDA i : invoice.items[i] * i.quantity,
                                   {i \in DOMAIN invoice.items : i.line = l})
    IN  ~staleCommit /\ invoice.status = "MATCHED" /\ receipt.received = Quantity =>
            \A l \in Lines : Billed(l) = Quantity[l]
=============================================================================
