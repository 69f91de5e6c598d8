--------------------------- MODULE ReceivingProofs ---------------------------
(***************************************************************************)
(* Theorems about Receiving, for every set of handlers and of receipts and *)
(* every order.                                                            *)
(***************************************************************************)
EXTENDS Receiving, SumTheorems

(***************************************************************************)
(* Type correctness.                                                       *)
(***************************************************************************)
LEMMA MaxQuantityBounds == MaxQuantity \in Nat /\ \A l \in Lines : Quantity[l] <= MaxQuantity
<1> DEFINE T == {Quantity[l] : l \in Lines}
<1>1. Quantity \in Surjection(Lines, T)
  BY QuantityAssumption DEF Surjection
<1>2. IsFiniteSet(T)
  <2> HIDE DEF T
  <2> QED
    BY <1>1, RowsAssumption, FS_Surjection
<1>3. T \in SUBSET Int /\ T \subseteq Nat /\ T # {}
  BY QuantityAssumption, RowsAssumption
<1>4. Max(T) \in T /\ \A y \in T : y <= Max(T)
  <2> HIDE DEF T
  <2> QED
    BY <1>2, <1>3, MaxIsGreatest
<1> QED
  BY <1>3, <1>4 DEF MaxQuantity

LEMMA TypeOfRows ==
    ASSUME TypeOK, NEW r \in Receipts
    PROVE  /\ receipt[r].status \in GoodsReceiptStatus \cup NoRow
           /\ receipt[r].ordered \in Quantities
           /\ receipt[r].received \in Quantities
           /\ receipt[r].rejected \in Quantities
           /\ receipt[r] = [status |-> receipt[r].status, ordered |-> receipt[r].ordered,
                            received |-> receipt[r].received, rejected |-> receipt[r].rejected]
BY DEF TypeOK, ReceiptRows

\* A handler's place in its code tells what it remembers.
LEMMA TypeOfOps ==
    ASSUME TypeOK, NEW c \in Clients
    PROVE  /\ op[c].pc \in {"create", "deleteReceipt", "complete", "receive", "reject"} =>
                 op[c].r \in Receipts
           /\ op[c].pc = "create" => op[c].ordered \in Quantities
           /\ op[c].pc \in {"receive", "reject"} =>
                 op[c].entries \in Entries /\ op[c].status \in GoodsReceiptStatus
           /\ op[c].pc = "syncWrite" => op[c].status \in PurchaseOrderStatus
<1>1. op[c] \in Ops
  BY DEF TypeOK
<1> QED
  BY <1>1 DEF Ops, Idle, OrderOps

LEMMA TypeOfEntries ==
    ASSUME NEW e \in Entries
    PROVE  /\ DOMAIN e \subseteq Lines
           /\ \A l \in DOMAIN e : e[l] \in Nat \ {0}
           /\ \A q \in Quantities : Written(q, e) \in Quantities
<1>1. DOMAIN e \subseteq Lines /\ \A l \in DOMAIN e : e[l] \in 1 .. MaxQuantity
  BY DEF Entries
<1>2. \A l \in DOMAIN e : e[l] \in Nat \ {0}
  BY <1>1, MaxQuantityBounds
<1> QED
  BY <1>1, <1>2 DEF Written, Quantities

\* What has been received is a natural number for each line.
LEMMA TypeOfSums ==
    ASSUME TypeOK, NEW l \in Lines
    PROVE  /\ \A r \in Receipts : Received(l)[r] = receipt[r].received[l] /\ Received(l)[r] \in Nat
           /\ Cumulative(l) \in Nat
           /\ TotalReceived(l) = SumFunctionOnSet(Received(l), Receipts)
           /\ TotalReceived(l) \in Nat
<1>1. \A r \in Receipts : Received(l)[r] = receipt[r].received[l] /\ Received(l)[r] \in Nat
  BY TypeOfRows DEF Received, Quantities
<1>2. TotalReceived(l) = SumFunctionOnSet(Received(l), Receipts)
  BY DEF TotalReceived, SumFunction, Received
<1>3. SumFunctionOnSet(Received(l), Receipts) \in Nat
  BY <1>1, RowsAssumption, SumNat
<1>4. Cumulative(l) \in Nat
  <2> DEFINE counted == {r \in Receipts : receipt[r].status \in PO_PROGRESS_STATUSES}
  <2>1. IsFiniteSet(counted) /\ \A r \in counted : Received(l)[r] \in Nat
    BY <1>1, RowsAssumption, FS_Subset
  <2> HIDE DEF counted
  <2>2. SumFunctionOnSet(Received(l), counted) \in Nat
    BY <2>1, SumNat
  <2> QED
    BY <2>2 DEF Cumulative, counted
<1> QED
  BY <1>1, <1>2, <1>3, <1>4

LEMMA StatusTypes ==
    /\ \A row, ctx : resolveReceiptProgressStatus(row, ctx) \in GoodsReceiptStatus
    /\ po \in PurchaseOrderStatus => DeliveryStatus \in PurchaseOrderStatus
BY DEF resolveReceiptProgressStatus, GoodsReceiptStatus, DeliveryStatus, PurchaseOrderStatus

\* The rows that the handlers write are rows.
LEMMA RowUpdates ==
    ASSUME NEW row \in ReceiptRows, NEW st \in GoodsReceiptStatus \cup NoRow, NEW q \in Quantities
    PROVE  /\ [row EXCEPT !.status = st] \in ReceiptRows
           /\ [row EXCEPT !.ordered = q] \in ReceiptRows
           /\ [row EXCEPT !.received = q, !.status = st] \in ReceiptRows
           /\ [row EXCEPT !.rejected = q, !.status = st] \in ReceiptRows
           /\ NoReceipt(st) \in ReceiptRows
BY DEF ReceiptRows, NoReceipt, Zero, Quantities

LEMMA TypeOKInit == Init => TypeOK
<1> SUFFICES ASSUME Init PROVE TypeOK
  OBVIOUS
<1>1. receipt \in [Receipts -> ReceiptRows]
  BY DEF Init, NoReceipt, ReceiptRows, NoRow, Zero, Quantities
<1>2. op \in [Clients -> Ops]
  BY DEF Init, Ops
<1> QED
  BY <1>1, <1>2 DEF Init, TypeOK, PurchaseOrderStatus

LEMMA TypeOKNext == TypeOK /\ [Next]_vars => TypeOK'
<1> SUFFICES ASSUME TypeOK, [Next]_vars PROVE TypeOK'
  OBVIOUS
<1>1. CASE UNCHANGED vars
  BY <1>1 DEF vars, TypeOK
<1>2. ASSUME NEW c \in Clients, NEW o \in Ops, Begin(c, o) PROVE TypeOK'
  BY <1>2 DEF Begin, history, TypeOK
<1>3. ASSUME NEW c \in Clients, NEW o \in Ops, NEW row, Commit(c, o, row),
             po' \in PurchaseOrderStatus \cup {"DELETED"}, receipt' \in [Receipts -> ReceiptRows]
      PROVE  TypeOK'
  BY <1>3 DEF Commit, InFlight, TypeOK
<1>4. Idle \in Ops /\ [pc |-> "sync"] \in Ops
  BY DEF Ops
<1>5. ASSUME NEW c \in Clients, Stop(c), crashed' \in BOOLEAN PROVE TypeOK'
  BY <1>4, <1>5 DEF Stop, TypeOK
<1>6. ASSUME NEW c \in Clients,
             deleteOrderRead(c) \/ issueRead(c) \/ acknowledgeRead(c) \/ cancelRead(c)
      PROVE  TypeOK'
  <2>1. \A pc \in OrderOps : [pc |-> pc] \in Ops
    BY DEF Ops
  <2> QED
    BY <1>2, <1>6, <2>1 DEF deleteOrderRead, issueRead, acknowledgeRead, cancelRead, OrderOps
<1>7. ASSUME NEW c \in Clients, createReceiptRead(c) PROVE TypeOK'
  <2> PICK r \in Receipts :
         Begin(c, [pc |-> "create", r |-> r,
                   ordered |-> [l \in Lines |-> IF Remaining(l) > 0 THEN Remaining(l) ELSE 0]])
    BY <1>7 DEF createReceiptRead
  <2>1. \A l \in Lines : Remaining(l) \in Int
    BY TypeOfSums, QuantityAssumption DEF Remaining
  <2>2. [l \in Lines |-> IF Remaining(l) > 0 THEN Remaining(l) ELSE 0] \in Quantities
    BY <2>1 DEF Quantities
  <2>3. \A q \in Quantities : [pc |-> "create", r |-> r, ordered |-> q] \in Ops
    BY DEF Ops
  <2> QED
    BY <1>2, <2>2, <2>3
<1>8. ASSUME NEW c \in Clients, deleteReceiptRead(c) \/ completeRead(c) PROVE TypeOK'
  <2>1. \A r \in Receipts : [pc |-> "deleteReceipt", r |-> r] \in Ops /\ [pc |-> "complete", r |-> r] \in Ops
    BY DEF Ops
  <2> QED
    BY <1>2, <1>8, <2>1 DEF deleteReceiptRead, completeRead
<1>9. ASSUME NEW c \in Clients, receiveRead(c) \/ rejectRead(c) PROVE TypeOK'
  <2>1. \A pc \in {"receive", "reject"}, r \in Receipts, e \in Entries, st \in GoodsReceiptStatus :
           [pc |-> pc, r |-> r, entries |-> e, status |-> st] \in Ops
    BY DEF Ops
  <2>2. CASE receiveRead(c)
    BY <1>2, <2>1, <2>2, StatusTypes DEF receiveRead, Inputs
  <2>3. CASE rejectRead(c)
    BY <1>2, <2>1, <2>3, StatusTypes DEF rejectRead, Inputs
  <2> QED
    BY <1>9, <2>2, <2>3
<1>10. ASSUME NEW c \in Clients, issue(c) \/ acknowledge(c) \/ cancel(c) \/ syncWrite(c) PROVE TypeOK'
  BY <1>3, <1>4, <1>10, TypeOfOps
     DEF issue, acknowledge, cancel, syncWrite, WriteOrder, PurchaseOrderStatus, TypeOK
<1>11. ASSUME NEW c \in Clients, deleteOrder(c) PROVE TypeOK'
  <2>1. NoReceipt("DELETED") \in ReceiptRows
    BY DEF NoReceipt, ReceiptRows, NoRow, Zero, Quantities
  <2>2. receipt' \in [Receipts -> ReceiptRows]
    BY <1>11, <2>1 DEF deleteOrder, TypeOK
  <2> QED
    BY <1>3, <1>4, <1>11, <2>2 DEF deleteOrder
<1>12. ASSUME NEW c \in Clients,
              createReceipt(c) \/ deleteReceipt(c) \/ receive(c) \/ reject(c) \/ complete(c)
       PROVE  TypeOK'
  <2> DEFINE r == op[c].r
  <2>1. receipt' \in [Receipts -> ReceiptRows]
    <3>1. CASE createReceipt(c)
      <4>1. [NoReceipt("DRAFT") EXCEPT !.ordered = op[c].ordered] \in ReceiptRows
        <5>1. NoReceipt("DRAFT") \in ReceiptRows
          BY DEF NoReceipt, ReceiptRows, GoodsReceiptStatus, Zero, Quantities
        <5>2. op[c].ordered \in Quantities
          BY <3>1, TypeOfOps DEF createReceipt
        <5> QED
          BY <5>1, <5>2 DEF ReceiptRows
      <4> QED
        BY <3>1, <4>1 DEF createReceipt, TypeOK
    <3>2. CASE deleteReceipt(c)
      <4>1. NoReceipt("DELETED") \in ReceiptRows
        BY DEF NoReceipt, ReceiptRows, NoRow, Zero, Quantities
      <4> QED
        BY <3>2, <4>1 DEF deleteReceipt, TypeOK
    <3>3. CASE receive(c)
      <4> DEFINE q == Written(receipt[r].received, op[c].entries)
      <4>1. r \in Receipts /\ receipt[r] \in ReceiptRows /\ q \in Quantities
        BY <3>3, TypeOfOps, TypeOfRows, TypeOfEntries DEF receive, writeReceived, TypeOK
      <4>2. [receipt[r] EXCEPT !.received = q, !.status = op[c].status] \in ReceiptRows
        BY <3>3, <4>1, TypeOfOps, RowUpdates DEF receive, writeReceived
      <4>3. receipt' = [receipt EXCEPT ![r] = [receipt[r] EXCEPT !.received = q, !.status = op[c].status]]
        BY <3>3, <4>1 DEF receive, writeReceived, TypeOK
      <4> QED
        BY <4>2, <4>3 DEF TypeOK
    <3>4. CASE reject(c)
      <4> DEFINE q == Written(receipt[r].rejected, op[c].entries)
      <4>1. r \in Receipts /\ receipt[r] \in ReceiptRows /\ q \in Quantities
        BY <3>4, TypeOfOps, TypeOfRows, TypeOfEntries DEF reject, TypeOK
      <4>2. [receipt[r] EXCEPT !.rejected = q, !.status = op[c].status] \in ReceiptRows
        BY <3>4, <4>1, TypeOfOps, RowUpdates DEF reject
      <4>3. receipt' = [receipt EXCEPT ![r] = [receipt[r] EXCEPT !.rejected = q, !.status = op[c].status]]
        BY <3>4, <4>1 DEF reject, TypeOK
      <4> QED
        BY <4>2, <4>3 DEF TypeOK
    <3>5. CASE complete(c)
      <4>1. r \in Receipts /\ receipt[r] \in ReceiptRows
        BY <3>5, TypeOfOps DEF complete, TypeOK
      <4>2. [receipt[r] EXCEPT !.status = "COMPLETED"] \in ReceiptRows
        BY <4>1 DEF ReceiptRows, GoodsReceiptStatus
      <4> QED
        BY <3>5, <4>1, <4>2 DEF complete, TypeOK
    <3> QED
      BY <1>12, <3>1, <3>2, <3>3, <3>4, <3>5
  <2> QED
    BY <1>3, <1>4, <1>12, <2>1
       DEF createReceipt, deleteReceipt, receive, writeReceived, reject, complete, TypeOK
<1>13. ASSUME NEW c \in Clients, syncRead(c) PROVE TypeOK'
  <2>1. po \in PurchaseOrderStatus
    BY <1>13 DEF syncRead, SyncDue, OrderExists, NoRow, TypeOK
  <2>2. [pc |-> "syncWrite", status |-> DeliveryStatus] \in Ops
    BY <2>1, StatusTypes DEF Ops
  <2> QED
    BY <1>13, <2>2 DEF syncRead, TypeOK
<1>14. ASSUME NEW c \in Clients, syncIdle(c) \/ WriteFails(c) \/ Crash(c) PROVE TypeOK'
  BY <1>5, <1>14 DEF syncIdle, WriteFails, Crash, TypeOK
<1> QED
  BY <1>1, <1>6, <1>7, <1>8, <1>9, <1>10, <1>11, <1>12, <1>13, <1>14 DEF Next, Request, Continue

\* The tables, the handlers and the history variables keep their types, whatever
\* overlaps and dies: every receipt is a receipt, every order status one of the six.
THEOREM TypeCorrect == Spec => []TypeOK
BY TypeOKInit, TypeOKNext, PTL DEF Spec

(***************************************************************************)
(* The inductive invariants.                                               *)
(***************************************************************************)
\* Under any overlap: a row that does not exist is empty, and a handler that
\* creates a receipt is the only one that knows of it.
RowsInv ==
    /\ \A r \in Receipts : ~ ReceiptExists(r) => receipt[r] = NoReceipt(receipt[r].status)
    /\ \A c \in Clients :
          /\ op[c].pc = "create" =>
                /\ receipt[op[c].r].status = "NEW"
                /\ \A d \in Clients : d # c /\ op[d].pc = "create" => op[d].r # op[c].r
          /\ op[c].pc \in {"deleteReceipt", "complete", "receive", "reject"} =>
                receipt[op[c].r].status # "NEW"

\* Under any overlap: lines stay within what was ordered, and so does what the
\* handlers in flight are about to write to them.
LineInv ==
    /\ LineWithinOrdered
    /\ \A c \in Clients :
          /\ op[c].pc = "create" => \A l \in Lines : op[c].ordered[l] <= Quantity[l]
          /\ op[c].pc \in {"receive", "reject"} /\ ReceiptExists(op[c].r) =>
                \A l \in DOMAIN op[c].entries : op[c].entries[l] <= receipt[op[c].r].ordered[l]
          /\ op[c].pc = "receive" => op[c].status \in {"RECEIVED", "PARTIALLY_RECEIVED"}
          /\ op[c].pc = "reject" => op[c].status \in {"RECEIVED", "PARTIALLY_RECEIVED", "REJECTED"}

OverlapInv == RowsInv /\ LineInv

\* What a handler that was not overtaken remembers is the truth about the rows
\* it read, or the row it is about to write is gone.
Fresh(c) ==
    /\ op[c].pc \in {"deleteOrder", "issue"} => po = "DRAFT"
    /\ op[c].pc = "acknowledge" => po = "ISSUED"
    /\ op[c].pc = "cancel" => po \notin {"CANCELLED", "COMPLETED", "DELETED"}
    /\ op[c].pc \in {"create", "receive", "reject"} => assertPurchaseOrderEligible
    /\ op[c].pc = "deleteReceipt" => receipt[op[c].r].status \in {"DRAFT", "DELETED"}
    /\ op[c].pc = "complete" => receipt[op[c].r].status \notin {"DRAFT", "COMPLETED", "REJECTED"}
    /\ op[c].pc \in {"receive", "reject"} => assertReceivable(op[c].r)
    /\ op[c].pc = "receive" =>
          \A l \in DOMAIN op[c].entries : MayReceive(receipt[op[c].r], l, op[c].entries[l])
    /\ op[c].pc = "reject" =>
          /\ \A l \in DOMAIN op[c].entries : MayReject(receipt[op[c].r], l, op[c].entries[l])
          /\ op[c].status = "REJECTED" => \A l \in Lines : receipt[op[c].r].received[l] = 0
    /\ op[c].pc = "syncWrite" => SyncDue /\ op[c].status = DeliveryStatus

\* The receipts in themselves.
BalanceInv ==
    /\ \A l \in Lines : TotalReceived(l) <= Quantity[l]
    /\ \A r \in Receipts, l \in Lines :
          /\ receipt[r].received[l] + receipt[r].rejected[l] <= receipt[r].ordered[l]
          /\ receipt[r].status \in {"DRAFT", "REJECTED"} => receipt[r].received[l] = 0

\* The receipts against the status of the order.
OrderInv ==
    /\ po = "DRAFT" => \A r \in Receipts : ~ ReceiptExists(r)
    /\ po = "COMPLETED" => allFullyReceived
    /\ po = "PARTIALLY_DELIVERED" => anyReceived

UnoverlappedInv ==
    ~ staleCommit => /\ BalanceInv
                     /\ OrderInv
                     /\ DeliveryStatusAgrees
                     /\ \A c \in Clients \ overtaken : Fresh(c)

(***************************************************************************)
(* What holds however handlers overlap.                                    *)
(***************************************************************************)
LEMMA OverlapInit == Init => OverlapInv
<1> SUFFICES ASSUME Init PROVE OverlapInv
  OBVIOUS
<1>1. \A c \in Clients : op[c].pc = "idle"
  BY DEF Init, Idle
<1>2. \A r \in Receipts : receipt[r] = NoReceipt("NEW")
  BY DEF Init
<1>3. NoReceipt("NEW").status = "NEW"
  BY DEF NoReceipt
<1>4. RowsInv
  BY <1>1, <1>2, <1>3 DEF RowsInv, ReceiptExists
<1>5. LineWithinOrdered
  BY <1>2, QuantityAssumption DEF LineWithinOrdered, NoReceipt, Zero
<1> QED
  BY <1>1, <1>4, <1>5 DEF OverlapInv, LineInv

RowOps == {"create", "deleteReceipt", "complete", "receive", "reject"}

\* A step that writes no receipt and leaves its handler with none.
LEMMA OverlapQuiet ==
    ASSUME TypeOK, OverlapInv, NEW c \in Clients, NEW o, o.pc \notin RowOps,
           op' = [op EXCEPT ![c] = o], receipt' = receipt
    PROVE  OverlapInv'
<1>1. \A d \in Clients : op'[d].pc \in RowOps => op'[d] = op[d]
  BY DEF TypeOK
<1>2. RowsInv'
  BY <1>1 DEF OverlapInv, RowsInv, ReceiptExists, RowOps
<1>3. LineInv'
  BY <1>1 DEF OverlapInv, LineInv, LineWithinOrdered, ReceiptExists, RowOps
<1> QED
  BY <1>2, <1>3 DEF OverlapInv

\* A step that writes one receipt and ends its handler's dealings with it.
LEMMA OverlapRow ==
    ASSUME TypeOK, OverlapInv, NEW c \in Clients, NEW o, o.pc \notin RowOps,
           NEW r \in Receipts, NEW row \in ReceiptRows,
           op' = [op EXCEPT ![c] = o], receipt' = [receipt EXCEPT ![r] = row],
           row.status # "NEW", row.status = "DELETED" => row = NoReceipt("DELETED"),
           \A l \in Lines : /\ row.received[l] <= row.ordered[l]
                            /\ row.rejected[l] <= row.ordered[l]
                            /\ row.ordered[l] <= Quantity[l],
           \/ op[c].pc = "create" /\ op[c].r = r
           \/ receipt[r].status # "NEW" /\ row.status = "DELETED"
           \/ ReceiptExists(r) /\ row.ordered = receipt[r].ordered
    PROVE  OverlapInv'
<1>1. \A d \in Clients : op'[d].pc \in RowOps => d # c /\ op'[d] = op[d]
  BY DEF TypeOK
<1>2. receipt'[r] = row /\ \A s \in Receipts \ {r} : receipt'[s] = receipt[s]
  BY DEF TypeOK
<1>3. \A d \in Clients : d # c /\ op[d].pc = "create" => op[d].r # r
  BY DEF OverlapInv, RowsInv, ReceiptExists, NoRow
<1>4. \A d \in Clients : op[d].pc \in RowOps => op[d].r \in Receipts
  BY TypeOfOps DEF RowOps
<1>5. RowsInv'
  <2>1. ~ ReceiptExists(r)' => row = NoReceipt(row.status)
    BY <1>2 DEF ReceiptExists, NoRow
  <2>2. \A s \in Receipts : ~ ReceiptExists(s)' => receipt'[s] = NoReceipt(receipt'[s].status)
    BY <1>2, <2>1 DEF OverlapInv, RowsInv, ReceiptExists
  <2>3. \A d \in Clients : op'[d].pc = "create" => receipt'[op'[d].r].status = "NEW"
    BY <1>1, <1>2, <1>3, <1>4 DEF OverlapInv, RowsInv, RowOps
  <2>4. \A d, e \in Clients : op'[d].pc = "create" /\ e # d /\ op'[e].pc = "create" => op'[e].r # op'[d].r
    BY <1>1 DEF OverlapInv, RowsInv, RowOps
  <2>5. \A d \in Clients : op'[d].pc \in {"deleteReceipt", "complete", "receive", "reject"} =>
                              receipt'[op'[d].r].status # "NEW"
    BY <1>1, <1>2, <1>4 DEF OverlapInv, RowsInv, RowOps
  <2> QED
    BY <2>2, <2>3, <2>4, <2>5 DEF RowsInv
<1>6. LineInv'
  <2>1. LineWithinOrdered'
    BY <1>2 DEF OverlapInv, LineInv, LineWithinOrdered
  <2>2. ASSUME NEW d \in Clients, op'[d].pc \in {"receive", "reject"}, receipt'[op'[d].r].status \notin NoRow,
               NEW l \in DOMAIN op'[d].entries
        PROVE  op'[d].entries[l] <= receipt'[op'[d].r].ordered[l]
    <3>1. d # c /\ op'[d] = op[d] /\ op[d].r \in Receipts
      BY <1>1, <1>4, <2>2 DEF RowOps
    <3>2. CASE op[d].r # r
      BY <1>2, <2>2, <3>1, <3>2 DEF OverlapInv, LineInv, ReceiptExists
    <3>3. CASE op[d].r = r
      <4>1. receipt[r].status # "NEW"
        BY <2>2, <3>1, <3>3 DEF OverlapInv, RowsInv
      <4>2. row.status # "DELETED"
        BY <1>2, <2>2, <3>1, <3>3 DEF NoRow
      <4>3. ReceiptExists(r) /\ row.ordered = receipt[r].ordered
        BY <4>1, <4>2 DEF OverlapInv, RowsInv
      <4> QED
        BY <1>2, <2>2, <3>1, <3>3, <4>3 DEF OverlapInv, LineInv
    <3> QED
      BY <3>2, <3>3
  <2>3. \A d \in Clients :
           /\ op'[d].pc = "create" => \A l \in Lines : op'[d].ordered[l] <= Quantity[l]
           /\ op'[d].pc = "receive" => op'[d].status \in {"RECEIVED", "PARTIALLY_RECEIVED"}
           /\ op'[d].pc = "reject" => op'[d].status \in {"RECEIVED", "PARTIALLY_RECEIVED", "REJECTED"}
    BY <1>1 DEF OverlapInv, LineInv, RowOps
  <2> QED
    BY <2>1, <2>2, <2>3 DEF LineInv, ReceiptExists
<1> QED
  BY <1>5, <1>6 DEF OverlapInv

\* A receipt that goods are entered for is received, at least partially.
LEMMA ReceivingStatus ==
    ASSUME TypeOK, NEW r \in Receipts, NEW e \in Inputs(r)
    PROVE  resolveReceiptProgressStatus(
              [receipt[r] EXCEPT !.received = Written(@, e)], FALSE) \in {"RECEIVED", "PARTIALLY_RECEIVED"}
<1> DEFINE row == [receipt[r] EXCEPT !.received = Written(@, e)]
<1>1. e \in Entries /\ \E l \in DOMAIN e : l \in OnReceipt(r)
  BY DEF Inputs
<1>2. row.received = Written(receipt[r].received, e) /\ row.ordered = receipt[r].ordered
  BY TypeOfRows
<1>3. PICK l \in Lines : l \in DOMAIN e /\ row.ordered[l] > 0
  BY <1>1, <1>2 DEF OnReceipt
<1>4. row.received[l] \in Nat \ {0}
  BY <1>1, <1>2, <1>3, TypeOfEntries DEF Written
<1> HIDE DEF row
<1>5. row.received[l] > 0 /\ row.received[l] # 0
  BY <1>4
<1>6. resolveReceiptProgressStatus(row, FALSE) \in {"RECEIVED", "PARTIALLY_RECEIVED"}
  BY <1>3, <1>5 DEF resolveReceiptProgressStatus
<1> QED
  BY <1>6 DEF row

\* A receipt that rejections are entered for is rejected only if it received nothing.
LEMMA RejectingStatus ==
    ASSUME TypeOK, NEW r \in Receipts, NEW e \in Inputs(r), NEW st,
           st = resolveReceiptProgressStatus([receipt[r] EXCEPT !.rejected = Written(@, e)], TRUE)
    PROVE  /\ st \in {"RECEIVED", "PARTIALLY_RECEIVED", "REJECTED"}
           /\ st = "REJECTED" => \A l \in OnReceipt(r) : receipt[r].received[l] = 0
<1> DEFINE row == [receipt[r] EXCEPT !.rejected = Written(@, e)]
<1>1. e \in Entries /\ \E l \in DOMAIN e : l \in OnReceipt(r)
  BY DEF Inputs
<1>2. /\ row.rejected = Written(receipt[r].rejected, e)
      /\ row.ordered = receipt[r].ordered /\ row.received = receipt[r].received
  BY TypeOfRows
<1>3. PICK l \in Lines : l \in DOMAIN e /\ row.ordered[l] > 0
  BY <1>1, <1>2 DEF OnReceipt
<1>4. row.rejected[l] \in Nat \ {0}
  BY <1>1, <1>2, <1>3, TypeOfEntries DEF Written
<1>5. st = resolveReceiptProgressStatus(row, TRUE)
  OBVIOUS
<1> HIDE DEF row
<1>6. row.rejected[l] > 0
  BY <1>4
<1>7. st \in {"RECEIVED", "PARTIALLY_RECEIVED", "REJECTED"}
  BY <1>3, <1>5, <1>6 DEF resolveReceiptProgressStatus
<1>8. st = "REJECTED" => \A k \in Lines : row.ordered[k] > 0 => row.received[k] = 0
  BY <1>5 DEF resolveReceiptProgressStatus
<1> QED
  BY <1>2, <1>7, <1>8 DEF OnReceipt

LEMMA OverlapNext == TypeOK /\ OverlapInv /\ [Next]_vars => OverlapInv'
<1> SUFFICES ASSUME TypeOK, OverlapInv, [Next]_vars PROVE OverlapInv'
  OBVIOUS
<1>1. CASE UNCHANGED vars
  BY <1>1 DEF vars, OverlapInv, RowsInv, LineInv, LineWithinOrdered, ReceiptExists
<1>2. ASSUME NEW c \in Clients,
             \/ deleteOrderRead(c) \/ issueRead(c) \/ acknowledgeRead(c) \/ cancelRead(c)
             \/ issue(c) \/ acknowledge(c) \/ cancel(c) \/ syncWrite(c)
             \/ syncRead(c) \/ syncIdle(c) \/ WriteFails(c) \/ Crash(c)
      PROVE  OverlapInv'
  <2>1. \E o : o.pc \notin RowOps /\ op' = [op EXCEPT ![c] = o] /\ receipt' = receipt
    <3>1. Idle.pc \notin RowOps /\ \A pc \in OrderOps : [pc |-> pc].pc \notin RowOps
      BY DEF Idle, RowOps, OrderOps
    <3>2. CASE deleteOrderRead(c) \/ issueRead(c) \/ acknowledgeRead(c) \/ cancelRead(c)
      BY <3>1, <3>2 DEF deleteOrderRead, issueRead, acknowledgeRead, cancelRead, Begin, OrderOps
    <3>3. CASE issue(c) \/ acknowledge(c) \/ cancel(c) \/ syncWrite(c)
      BY <3>1, <3>3 DEF issue, acknowledge, cancel, syncWrite, WriteOrder, Commit
    <3>4. CASE syncIdle(c) \/ WriteFails(c) \/ Crash(c)
      BY <3>1, <3>4 DEF syncIdle, WriteFails, Crash, Stop
    <3>5. CASE syncRead(c)
      <4>1. [pc |-> "syncWrite", status |-> DeliveryStatus].pc \notin RowOps
        BY DEF RowOps
      <4> QED
        BY <3>5, <4>1 DEF syncRead
    <3> QED
      BY <1>2, <3>2, <3>3, <3>4, <3>5
  <2> QED
    BY <2>1, OverlapQuiet
<1>3. ASSUME NEW c \in Clients, createReceiptRead(c) PROVE OverlapInv'
  <2> PICK r \in Receipts :
         /\ receipt[r].status = "NEW"
         /\ \A d \in Clients : op[d].pc = "create" => op[d].r # r
         /\ Begin(c, [pc |-> "create", r |-> r,
                      ordered |-> [l \in Lines |-> IF Remaining(l) > 0 THEN Remaining(l) ELSE 0]])
    BY <1>3 DEF createReceiptRead
  <2>1. /\ receipt' = receipt
        /\ op'[c].pc = "create" /\ op'[c].r = r
        /\ \A l \in Lines : op'[c].ordered[l] = IF Remaining(l) > 0 THEN Remaining(l) ELSE 0
        /\ \A d \in Clients \ {c} : op'[d] = op[d]
    BY DEF Begin, TypeOK
  <2>2. \A l \in Lines : op'[c].ordered[l] <= Quantity[l]
    BY <2>1, TypeOfSums, QuantityAssumption DEF Remaining
  <2>3. RowsInv'
    BY <2>1 DEF OverlapInv, RowsInv, ReceiptExists
  <2>4. LineInv'
    BY <2>1, <2>2 DEF OverlapInv, LineInv, LineWithinOrdered, ReceiptExists
  <2> QED
    BY <2>3, <2>4 DEF OverlapInv
<1>4. ASSUME NEW c \in Clients, deleteReceiptRead(c) \/ completeRead(c) PROVE OverlapInv'
  <2>1. /\ receipt' = receipt
        /\ op'[c].pc \in {"deleteReceipt", "complete"} /\ receipt[op'[c].r].status # "NEW"
        /\ \A d \in Clients \ {c} : op'[d] = op[d]
    <3>1. CASE deleteReceiptRead(c)
      BY <3>1 DEF deleteReceiptRead, Begin, TypeOK
    <3>2. CASE completeRead(c)
      BY <3>2 DEF completeRead, Begin, ReceiptExists, NoRow, TypeOK
    <3> QED
      BY <1>4, <3>1, <3>2
  <2>2. RowsInv'
    BY <2>1 DEF OverlapInv, RowsInv, ReceiptExists
  <2>3. LineInv'
    BY <2>1 DEF OverlapInv, LineInv, LineWithinOrdered, ReceiptExists
  <2> QED
    BY <2>2, <2>3 DEF OverlapInv
<1>5. ASSUME NEW c \in Clients, receiveRead(c) \/ rejectRead(c) PROVE OverlapInv'
  <2>1. /\ receipt' = receipt
        /\ op'[c].pc \in {"receive", "reject"} /\ receipt[op'[c].r].status # "NEW"
        /\ \A l \in DOMAIN op'[c].entries : op'[c].entries[l] <= receipt[op'[c].r].ordered[l]
        /\ op'[c].pc = "receive" => op'[c].status \in {"RECEIVED", "PARTIALLY_RECEIVED"}
        /\ op'[c].pc = "reject" => op'[c].status \in {"RECEIVED", "PARTIALLY_RECEIVED", "REJECTED"}
        /\ \A d \in Clients \ {c} : op'[d] = op[d]
    <3>1. CASE receiveRead(c)
      <4> PICK r \in Receipts : \E first, last \in Inputs(r) :
             /\ assertReceivable(r)
             /\ \A l \in DOMAIN last : MayReceive(receipt[r], l, last[l])
             /\ Begin(c, [pc |-> "receive", r |-> r, entries |-> last,
                          status |-> resolveReceiptProgressStatus(
                                        [receipt[r] EXCEPT !.received = Written(@, first)], FALSE)])
        BY <3>1 DEF receiveRead
      <4> PICK first \in Inputs(r), last \in Inputs(r) :
             /\ assertReceivable(r)
             /\ \A l \in DOMAIN last : MayReceive(receipt[r], l, last[l])
             /\ Begin(c, [pc |-> "receive", r |-> r, entries |-> last,
                          status |-> resolveReceiptProgressStatus(
                                        [receipt[r] EXCEPT !.received = Written(@, first)], FALSE)])
        OBVIOUS
      <4>1. op'[c] = [pc |-> "receive", r |-> r, entries |-> last,
                      status |-> resolveReceiptProgressStatus(
                                    [receipt[r] EXCEPT !.received = Written(@, first)], FALSE)]
        BY DEF Begin, TypeOK
      <4>2. \A l \in DOMAIN last : last[l] <= receipt[r].ordered[l]
        <5> TAKE l \in DOMAIN last
        <5>1. last \in Entries
          BY DEF Inputs
        <5>2. l \in Lines /\ last[l] \in Nat
          BY <5>1, TypeOfEntries
        <5>3. /\ receipt[r].ordered[l] \in Nat
              /\ receipt[r].rejected[l] \in Nat
              /\ receipt[r].received[l] \in Nat
          BY <5>2, TypeOfRows DEF Quantities
        <5>4. MayReceive(receipt[r], l, last[l])
          OBVIOUS
        <5> QED
          BY <5>2, <5>3, <5>4 DEF MayReceive
      <4>3. receipt[r].status # "NEW"
        BY DEF assertReceivable, ReceiptExists, NoRow
      <4> QED
        BY <4>1, <4>2, <4>3, ReceivingStatus DEF Begin, TypeOK
    <3>2. CASE rejectRead(c)
      <4> PICK r \in Receipts : \E first, last \in Inputs(r) :
             /\ assertReceivable(r)
             /\ \A l \in DOMAIN last : MayReject(receipt[r], l, last[l])
             /\ Begin(c, [pc |-> "reject", r |-> r, entries |-> last,
                          status |-> resolveReceiptProgressStatus(
                                        [receipt[r] EXCEPT !.rejected = Written(@, first)], TRUE)])
        BY <3>2 DEF rejectRead
      <4> PICK first \in Inputs(r), last \in Inputs(r) :
             /\ assertReceivable(r)
             /\ \A l \in DOMAIN last : MayReject(receipt[r], l, last[l])
             /\ Begin(c, [pc |-> "reject", r |-> r, entries |-> last,
                          status |-> resolveReceiptProgressStatus(
                                        [receipt[r] EXCEPT !.rejected = Written(@, first)], TRUE)])
        OBVIOUS
      <4>1. op'[c] = [pc |-> "reject", r |-> r, entries |-> last,
                      status |-> resolveReceiptProgressStatus(
                                    [receipt[r] EXCEPT !.rejected = Written(@, first)], TRUE)]
        BY DEF Begin, TypeOK
      <4>2. \A l \in DOMAIN last : last[l] <= receipt[r].ordered[l]
        <5> TAKE l \in DOMAIN last
        <5>1. last \in Entries
          BY DEF Inputs
        <5>2. l \in Lines /\ last[l] \in Nat
          BY <5>1, TypeOfEntries
        <5>3. /\ receipt[r].ordered[l] \in Nat
              /\ receipt[r].rejected[l] \in Nat
              /\ receipt[r].received[l] \in Nat
          BY <5>2, TypeOfRows DEF Quantities
        <5>4. MayReject(receipt[r], l, last[l])
          OBVIOUS
        <5> QED
          BY <5>2, <5>3, <5>4 DEF MayReject
      <4>3. receipt[r].status # "NEW"
        BY DEF assertReceivable, ReceiptExists, NoRow
      <4> QED
        BY <4>1, <4>2, <4>3, RejectingStatus DEF Begin, TypeOK
    <3> QED
      BY <1>5, <3>1, <3>2
  <2>2. RowsInv'
    BY <2>1 DEF OverlapInv, RowsInv, ReceiptExists
  <2>3. LineInv'
    BY <2>1 DEF OverlapInv, LineInv, LineWithinOrdered, ReceiptExists
  <2> QED
    BY <2>2, <2>3 DEF OverlapInv
<1>6. ASSUME NEW c \in Clients, deleteOrder(c) PROVE OverlapInv'
  <2>1. /\ op' = [op EXCEPT ![c] = Idle]
        /\ \A r \in Receipts : receipt'[r] = IF ReceiptExists(r) THEN NoReceipt("DELETED") ELSE receipt[r]
    BY <1>6 DEF deleteOrder, Commit
  <2>2. \A d \in Clients : op'[d].pc \in RowOps => d # c /\ op'[d] = op[d] /\ op[d].r \in Receipts
    BY <2>1, TypeOfOps DEF TypeOK, Idle, RowOps
  <2>3. NoReceipt("DELETED").status = "DELETED"
    BY DEF NoReceipt
  <2>4. \A r \in Receipts : receipt'[r].status \in NoRow /\ (receipt'[r].status = "NEW" <=> receipt[r].status = "NEW")
    BY <2>1, <2>3 DEF ReceiptExists, NoRow
  <2>5. RowsInv'
    <3>1. \A r \in Receipts : receipt'[r] = NoReceipt(receipt'[r].status)
      BY <2>1, <2>3 DEF OverlapInv, RowsInv
    <3> QED
      BY <2>2, <2>4, <3>1 DEF OverlapInv, RowsInv, RowOps
  <2>6. LineInv'
    <3>1. LineWithinOrdered'
      BY <2>1, QuantityAssumption DEF OverlapInv, LineInv, LineWithinOrdered, NoReceipt, Zero
    <3> QED
      BY <2>2, <2>4, <3>1 DEF OverlapInv, LineInv, ReceiptExists, RowOps
  <2> QED
    BY <2>5, <2>6 DEF OverlapInv
<1>7. ASSUME NEW c \in Clients,
             createReceipt(c) \/ deleteReceipt(c) \/ receive(c) \/ reject(c) \/ complete(c)
      PROVE  OverlapInv'
  <2> DEFINE r == op[c].r
  <2>1. Idle.pc \notin RowOps /\ [pc |-> "sync"].pc \notin RowOps
    BY DEF Idle, RowOps
  <2>2. r \in Receipts
    BY <1>7, TypeOfOps DEF createReceipt, deleteReceipt, receive, writeReceived, reject, complete
  <2>3. receipt'[r] \in ReceiptRows /\ receipt[r] \in ReceiptRows /\ TypeOK'
    BY <2>2, TypeOKNext DEF TypeOK
  <2>4. CASE createReceipt(c)
    <3> DEFINE row == [NoReceipt("DRAFT") EXCEPT !.ordered = op[c].ordered]
    <3>1. /\ receipt' = [receipt EXCEPT ![r] = row]
          /\ op' = [op EXCEPT ![c] = Idle]
          /\ op[c].pc = "create"
      BY <2>4 DEF createReceipt, Commit
    <3>2. receipt'[r] = row
      BY <2>2, <3>1 DEF TypeOK
    <3>3. row.status = "DRAFT" /\ row.ordered = op[c].ordered /\ row.received = Zero /\ row.rejected = Zero
      BY DEF NoReceipt
    <3>4. \A l \in Lines : /\ row.received[l] <= row.ordered[l]
                           /\ row.rejected[l] <= row.ordered[l]
                           /\ row.ordered[l] <= Quantity[l]
      BY <3>1, <3>3, TypeOfOps DEF Zero, Quantities, OverlapInv, LineInv
    <3> HIDE DEF row
    <3> QED
      BY <2>1, <2>2, <2>3, <3>1, <3>2, <3>3, <3>4, OverlapRow
  <2>5. CASE deleteReceipt(c)
    <3> DEFINE row == NoReceipt("DELETED")
    <3>1. /\ receipt' = [receipt EXCEPT ![r] = row]
          /\ op' = [op EXCEPT ![c] = Idle]
          /\ receipt[r].status # "NEW"
      BY <2>5 DEF deleteReceipt, Commit, ReceiptExists, NoRow
    <3>2. receipt'[r] = row
      BY <2>2, <3>1 DEF TypeOK
    <3>3. row.status = "DELETED" /\ row = NoReceipt("DELETED")
      BY DEF NoReceipt
    <3>4. \A l \in Lines : /\ row.received[l] <= row.ordered[l]
                           /\ row.rejected[l] <= row.ordered[l]
                           /\ row.ordered[l] <= Quantity[l]
      BY QuantityAssumption DEF Zero, NoReceipt
    <3> HIDE DEF row
    <3> QED
      BY <2>1, <2>2, <2>3, <3>1, <3>2, <3>3, <3>4, OverlapRow
  <2>6. CASE receive(c)
    <3> DEFINE row == [receipt[r] EXCEPT !.received = Written(@, op[c].entries), !.status = op[c].status]
    <3>1. /\ receipt' = [receipt EXCEPT ![r] = row]
          /\ op' = [op EXCEPT ![c] = [pc |-> "sync"]]
          /\ op[c].pc = "receive" /\ ReceiptExists(r)
      BY <2>2, <2>6 DEF receive, writeReceived, Commit, TypeOK
    <3>2. receipt'[r] = row
      BY <2>2, <3>1 DEF TypeOK
    <3>3. /\ row.status = op[c].status /\ row.ordered = receipt[r].ordered
          /\ row.received = Written(receipt[r].received, op[c].entries) /\ row.rejected = receipt[r].rejected
      BY <2>2, TypeOfRows
    <3>4. row.status \in {"RECEIVED", "PARTIALLY_RECEIVED"}
      BY <3>1, <3>3 DEF OverlapInv, LineInv
    <3>5. \A l \in Lines : /\ row.received[l] <= row.ordered[l]
                           /\ row.rejected[l] <= row.ordered[l]
                           /\ row.ordered[l] <= Quantity[l]
      BY <2>2, <3>1, <3>3 DEF OverlapInv, LineInv, LineWithinOrdered, Written
    <3> HIDE DEF row
    <3> QED
      BY <2>1, <2>2, <2>3, <3>1, <3>2, <3>3, <3>4, <3>5, OverlapRow
  <2>7. CASE reject(c)
    <3> DEFINE row == [receipt[r] EXCEPT !.rejected = Written(@, op[c].entries), !.status = op[c].status]
    <3>1. /\ receipt' = [receipt EXCEPT ![r] = row]
          /\ op' = [op EXCEPT ![c] = [pc |-> "sync"]]
          /\ op[c].pc = "reject" /\ ReceiptExists(r)
      BY <2>2, <2>7 DEF reject, Commit, TypeOK
    <3>2. receipt'[r] = row
      BY <2>2, <3>1 DEF TypeOK
    <3>3. /\ row.status = op[c].status /\ row.ordered = receipt[r].ordered
          /\ row.rejected = Written(receipt[r].rejected, op[c].entries) /\ row.received = receipt[r].received
      BY <2>2, TypeOfRows
    <3>4. row.status \in {"RECEIVED", "PARTIALLY_RECEIVED", "REJECTED"}
      BY <3>1, <3>3 DEF OverlapInv, LineInv
    <3>5. \A l \in Lines : /\ row.received[l] <= row.ordered[l]
                           /\ row.rejected[l] <= row.ordered[l]
                           /\ row.ordered[l] <= Quantity[l]
      BY <2>2, <3>1, <3>3 DEF OverlapInv, LineInv, LineWithinOrdered, Written
    <3> HIDE DEF row
    <3> QED
      BY <2>1, <2>2, <2>3, <3>1, <3>2, <3>3, <3>4, <3>5, OverlapRow
  <2>8. CASE complete(c)
    <3> DEFINE row == [receipt[r] EXCEPT !.status = "COMPLETED"]
    <3>1. /\ receipt' = [receipt EXCEPT ![r] = row]
          /\ op' = [op EXCEPT ![c] = [pc |-> "sync"]]
          /\ ReceiptExists(r)
      BY <2>2, <2>8 DEF complete, Commit, TypeOK
    <3>2. receipt'[r] = row
      BY <2>2, <3>1 DEF TypeOK
    <3>3. /\ row.status = "COMPLETED" /\ row.ordered = receipt[r].ordered
          /\ row.rejected = receipt[r].rejected /\ row.received = receipt[r].received
      BY <2>2, TypeOfRows
    <3>4. \A l \in Lines : /\ row.received[l] <= row.ordered[l]
                           /\ row.rejected[l] <= row.ordered[l]
                           /\ row.ordered[l] <= Quantity[l]
      BY <2>2, <3>3 DEF OverlapInv, LineInv, LineWithinOrdered
    <3> HIDE DEF row
    <3> QED
      BY <2>1, <2>2, <2>3, <3>1, <3>2, <3>3, <3>4, OverlapRow
  <2> QED
    BY <1>7, <2>4, <2>5, <2>6, <2>7, <2>8
<1> QED
  BY <1>1, <1>2, <1>3, <1>4, <1>5, <1>6, <1>7 DEF Next, Request, Continue

\* However handlers overlap, whatever dies: no receipt line takes in or turns away
\* more than its receipt was opened for, nor was it opened for more than ordered.
THEOREM LinesStayWithinOrdered == Spec => []LineWithinOrdered
<1>1. OverlapInv => LineWithinOrdered
  BY DEF OverlapInv, LineInv
<1> QED
  BY <1>1, TypeCorrect, OverlapInit, OverlapNext, PTL DEF Spec

(***************************************************************************)
(* What the totals say while no handler has written on an overtaken read.  *)
(***************************************************************************)
\* The receipts that the delivery progress leaves out have received nothing.
LEMMA CumulativeIsTotal ==
    TypeOK /\ RowsInv /\ BalanceInv => \A l \in Lines : Cumulative(l) = TotalReceived(l)
<1> SUFFICES ASSUME TypeOK, RowsInv, BalanceInv, NEW l \in Lines
             PROVE  Cumulative(l) = TotalReceived(l)
  OBVIOUS
<1> DEFINE counted == {r \in Receipts : receipt[r].status \in PO_PROGRESS_STATUSES}
<1>1. ASSUME NEW r \in Receipts \ counted PROVE Received(l)[r] = 0
  <2>1. receipt[r].status \in {"DRAFT", "REJECTED"} \/ ~ ReceiptExists(r)
    BY <1>1, TypeOfRows DEF PO_PROGRESS_STATUSES, GoodsReceiptStatus, ReceiptExists
  <2>2. ~ ReceiptExists(r) => receipt[r].received[l] = 0
    <3>1. NoReceipt(receipt[r].status).received[l] = 0
      BY DEF NoReceipt, Zero
    <3> QED
      BY <3>1 DEF RowsInv
  <2>3. receipt[r].status \in {"DRAFT", "REJECTED"} => receipt[r].received[l] = 0
    BY DEF BalanceInv
  <2> QED
    BY <2>1, <2>2, <2>3, TypeOfSums
<1>2. counted \in SUBSET Receipts /\ \A r \in Receipts : Received(l)[r] \in Int
  BY TypeOfSums
<1>3. SumFunctionOnSet(Received(l), counted) = SumFunctionOnSet(Received(l), Receipts)
  <2> HIDE DEF counted
  <2> QED
    BY <1>1, <1>2, RowsAssumption, SumSupport
<1> QED
  BY <1>3, TypeOfSums DEF Cumulative

\* An order is on its way once something was received, and complete only then.
LEMMA Progress ==
    TypeOK /\ RowsInv /\ BalanceInv =>
        /\ anyReceived <=> \E l \in Lines, r \in Receipts : receipt[r].received[l] > 0
        /\ anyReceived <=> \E l \in Lines : TotalReceived(l) > 0
        /\ allFullyReceived <=> \A l \in Lines : TotalReceived(l) >= Quantity[l]
        /\ allFullyReceived => anyReceived
<1> SUFFICES ASSUME TypeOK, RowsInv, BalanceInv
             PROVE  /\ anyReceived <=> \E l \in Lines, r \in Receipts : receipt[r].received[l] > 0
                    /\ anyReceived <=> \E l \in Lines : TotalReceived(l) > 0
                    /\ allFullyReceived <=> \A l \in Lines : TotalReceived(l) >= Quantity[l]
                    /\ allFullyReceived => anyReceived
  OBVIOUS
<1>1. \A l \in Lines : Cumulative(l) = TotalReceived(l)
  BY CumulativeIsTotal
<1>2. ASSUME NEW l \in Lines
      PROVE  TotalReceived(l) > 0 <=> \E r \in Receipts : receipt[r].received[l] > 0
  <2>1. SumFunctionOnSet(Received(l), Receipts) > 0 <=> \E r \in Receipts : Received(l)[r] > 0
    BY TypeOfSums, RowsAssumption, SumPositive
  <2> QED
    BY <2>1, TypeOfSums
<1>3. anyReceived <=> \E l \in Lines : TotalReceived(l) > 0
  BY <1>1 DEF anyReceived
<1>4. allFullyReceived <=> \A l \in Lines : TotalReceived(l) >= Quantity[l]
  BY <1>1 DEF allFullyReceived
<1>5. allFullyReceived => anyReceived
  <2> PICK l \in Lines : TRUE
    BY RowsAssumption
  <2>1. TotalReceived(l) >= Quantity[l] => TotalReceived(l) > 0
    BY TypeOfSums, QuantityAssumption
  <2> QED
    BY <1>3, <1>4, <2>1
<1> QED
  BY <1>2, <1>3, <1>4, <1>5

\* Writing one receipt changes a total by what changes on it.
LEMMA TotalsOfRow ==
    ASSUME TypeOK, TypeOK', NEW r \in Receipts, NEW row,
           receipt' = [receipt EXCEPT ![r] = row], NEW l \in Lines
    PROVE  TotalReceived(l)' = TotalReceived(l) - receipt[r].received[l] + row.received[l]
<1> DEFINE f == Received(l)
           g == Received(l)'
<1>1. receipt'[r] = row /\ \A s \in Receipts \ {r} : receipt'[s] = receipt[s]
  BY DEF TypeOK
<1>2. /\ f = [s \in Receipts |-> receipt[s].received[l]]
      /\ g = [s \in Receipts |-> receipt'[s].received[l]]
  BY DEF Received
<1>3. \A s \in Receipts : f[s] \in Int /\ g[s] \in Int
  <2>1. \A s \in Receipts : receipt[s] \in ReceiptRows /\ receipt'[s] \in ReceiptRows
    BY DEF TypeOK
  <2> QED
    BY <1>2, <2>1 DEF ReceiptRows, Quantities
<1>4. \A s \in Receipts \ {r} : g[s] = f[s]
  BY <1>1, <1>2
<1>5. f[r] = receipt[r].received[l] /\ g[r] = row.received[l]
  BY <1>1, <1>2
<1>6. TotalReceived(l) = SumFunctionOnSet(f, Receipts) /\ TotalReceived(l)' = SumFunctionOnSet(g, Receipts)
  <2>1. DOMAIN f = Receipts /\ DOMAIN g = Receipts
    BY <1>2
  <2>2. TotalReceived(l) = SumFunctionOnSet(f, DOMAIN f) /\ TotalReceived(l)' = SumFunctionOnSet(g, DOMAIN g)
    BY DEF TotalReceived, SumFunction
  <2> QED
    BY <2>1, <2>2
<1> HIDE DEF f, g
<1>7. SumFunctionOnSet(g, Receipts) = SumFunctionOnSet(f, Receipts) - f[r] + g[r]
  BY <1>3, <1>4, RowsAssumption, SumUpdate
<1> QED
  BY <1>5, <1>6, <1>7

(***************************************************************************)
(* What a step does to the rows when no write follows an overtaken read.   *)
(***************************************************************************)
Moving == /\ \/ po = "DRAFT" /\ po' \in {"ISSUED", "DELETED"}
             \/ po = "ISSUED" /\ po' = "ACKNOWLEDGED"
             \/ po \notin {"CANCELLED", "COMPLETED", "DELETED"} /\ po' = "CANCELLED"
          /\ UNCHANGED receipt

Syncing == /\ SyncDue
           /\ po' = DeliveryStatus
           /\ UNCHANGED receipt

Creating(r) == /\ receipt[r].status = "NEW"
               /\ assertPurchaseOrderEligible
               /\ \E q \in Quantities : receipt' = [receipt EXCEPT ![r] = [NoReceipt("DRAFT") EXCEPT !.ordered = q]]
               /\ UNCHANGED po

Removing(r) == /\ receipt[r].status = "DRAFT"
               /\ receipt' = [receipt EXCEPT ![r] = NoReceipt("DELETED")]
               /\ UNCHANGED po

Entering(r, e) ==
    /\ assertReceivable(r) /\ assertPurchaseOrderEligible
    /\ \A l \in DOMAIN e : MayReceive(receipt[r], l, e[l])
    /\ \E st \in {"RECEIVED", "PARTIALLY_RECEIVED"} :
          receipt' = [receipt EXCEPT ![r] = [receipt[r] EXCEPT !.received = Written(@, e), !.status = st]]
    /\ UNCHANGED po

TurningAway(r, e) ==
    /\ assertReceivable(r) /\ assertPurchaseOrderEligible
    /\ \A l \in DOMAIN e : MayReject(receipt[r], l, e[l])
    /\ \E st \in {"RECEIVED", "PARTIALLY_RECEIVED", "REJECTED"} :
          /\ st = "REJECTED" => \A l \in Lines : receipt[r].received[l] = 0
          /\ receipt' = [receipt EXCEPT ![r] = [receipt[r] EXCEPT !.rejected = Written(@, e), !.status = st]]
    /\ UNCHANGED po

Completing(r) == /\ ReceiptExists(r)
                 /\ receipt[r].status \notin {"DRAFT", "COMPLETED", "REJECTED"}
                 /\ receipt' = [receipt EXCEPT ![r] = [receipt[r] EXCEPT !.status = "COMPLETED"]]
                 /\ UNCHANGED po

RowStep == \/ UNCHANGED <<po, receipt>>
           \/ Moving \/ Syncing
           \/ \E r \in Receipts :
                 \/ Creating(r) \/ Removing(r) \/ Completing(r)
                 \/ \E e \in Entries : Entering(r, e) \/ TurningAway(r, e)

\* A handler that commits on a read nobody has overtaken finds it still true.
LEMMA CommitsOnFreshRead ==
    ASSUME UnoverlappedInv, ~staleCommit', NEW c \in Clients, NEW o, NEW row, Commit(c, o, row)
    PROVE  ~staleCommit /\ Fresh(c)
BY DEF Commit, UnoverlappedInv

LEMMA UnoverlappedRowStep ==
    ASSUME TypeOK, OverlapInv, UnoverlappedInv, ~staleCommit', [Next]_vars
    PROVE  RowStep
<1>1. CASE UNCHANGED vars
  BY <1>1 DEF vars, RowStep
<1>2. ASSUME NEW c \in Clients,
             \/ Request(c) \/ syncRead(c) \/ syncIdle(c) \/ WriteFails(c) \/ Crash(c)
      PROVE  RowStep
  BY <1>2 DEF Request, deleteOrderRead, issueRead, acknowledgeRead, cancelRead, createReceiptRead,
              deleteReceiptRead, receiveRead, rejectRead, completeRead, Begin,
              syncRead, syncIdle, WriteFails, Crash, Stop, RowStep
<1>3. ASSUME NEW c \in Clients, issue(c) \/ acknowledge(c) \/ cancel(c) PROVE RowStep
  <2>1. Fresh(c)
    BY <1>3, CommitsOnFreshRead DEF issue, acknowledge, cancel, WriteOrder
  <2>2. Moving
    BY <1>3, <2>1 DEF issue, acknowledge, cancel, WriteOrder, Fresh, Moving
  <2> QED
    BY <2>2 DEF RowStep
<1>4. ASSUME NEW c \in Clients, deleteOrder(c) PROVE RowStep
  <2>1. Fresh(c) /\ ~staleCommit
    BY <1>4, CommitsOnFreshRead DEF deleteOrder
  <2>2. po = "DRAFT" /\ \A r \in Receipts : ~ ReceiptExists(r)
    BY <1>4, <2>1 DEF deleteOrder, Fresh, UnoverlappedInv, OrderInv
  <2>3. receipt' = receipt
    BY <1>4, <2>2 DEF deleteOrder, TypeOK
  <2> QED
    BY <1>4, <2>2, <2>3 DEF deleteOrder, Moving, RowStep
<1>5. ASSUME NEW c \in Clients, syncWrite(c) PROVE RowStep
  <2>1. Fresh(c)
    BY <1>5, CommitsOnFreshRead DEF syncWrite, WriteOrder
  <2>2. Syncing
    BY <1>5, <2>1 DEF syncWrite, WriteOrder, Fresh, Syncing
  <2> QED
    BY <2>2 DEF RowStep
<1>6. ASSUME NEW c \in Clients, createReceipt(c) PROVE RowStep
  <2>1. Fresh(c)
    BY <1>6, CommitsOnFreshRead DEF createReceipt
  <2>2. op[c].r \in Receipts /\ op[c].ordered \in Quantities /\ receipt[op[c].r].status = "NEW"
    BY <1>6, TypeOfOps DEF createReceipt, OverlapInv, RowsInv
  <2>3. Creating(op[c].r)
    BY <1>6, <2>1, <2>2 DEF createReceipt, Fresh, Creating
  <2> QED
    BY <2>2, <2>3 DEF RowStep
<1>7. ASSUME NEW c \in Clients, deleteReceipt(c) PROVE RowStep
  <2>1. Fresh(c)
    BY <1>7, CommitsOnFreshRead DEF deleteReceipt
  <2>2. op[c].r \in Receipts
    BY <1>7, TypeOfOps DEF deleteReceipt
  <2>3. Removing(op[c].r)
    BY <1>7, <2>1, <2>2 DEF deleteReceipt, Fresh, ReceiptExists, NoRow, Removing
  <2> QED
    BY <2>2, <2>3 DEF RowStep
<1>8. ASSUME NEW c \in Clients, receive(c) PROVE RowStep
  <2> DEFINE r == op[c].r
  <2>1. Fresh(c)
    BY <1>8, CommitsOnFreshRead DEF receive, writeReceived
  <2>2. r \in Receipts /\ op[c].entries \in Entries /\ op[c].status \in {"RECEIVED", "PARTIALLY_RECEIVED"}
    BY <1>8, TypeOfOps DEF receive, writeReceived, OverlapInv, LineInv
  <2>3. receipt' = [receipt EXCEPT ![r] = [receipt[r] EXCEPT !.received = Written(@, op[c].entries),
                                                             !.status = op[c].status]]
    BY <1>8, <2>2 DEF receive, writeReceived, TypeOK
  <2>4. Entering(r, op[c].entries)
    BY <1>8, <2>1, <2>2, <2>3 DEF receive, writeReceived, Fresh, Entering
  <2> QED
    BY <2>2, <2>4 DEF RowStep
<1>9. ASSUME NEW c \in Clients, reject(c) PROVE RowStep
  <2> DEFINE r == op[c].r
  <2>1. Fresh(c)
    BY <1>9, CommitsOnFreshRead DEF reject
  <2>2. /\ r \in Receipts /\ op[c].entries \in Entries
        /\ op[c].status \in {"RECEIVED", "PARTIALLY_RECEIVED", "REJECTED"}
    BY <1>9, TypeOfOps DEF reject, OverlapInv, LineInv
  <2>3. receipt' = [receipt EXCEPT ![r] = [receipt[r] EXCEPT !.rejected = Written(@, op[c].entries),
                                                             !.status = op[c].status]]
    BY <1>9, <2>2 DEF reject, TypeOK
  <2>4. TurningAway(r, op[c].entries)
    BY <1>9, <2>1, <2>2, <2>3 DEF reject, Fresh, TurningAway
  <2> QED
    BY <2>2, <2>4 DEF RowStep
<1>10. ASSUME NEW c \in Clients, complete(c) PROVE RowStep
  <2>1. Fresh(c)
    BY <1>10, CommitsOnFreshRead DEF complete
  <2>2. op[c].r \in Receipts
    BY <1>10, TypeOfOps DEF complete
  <2>3. Completing(op[c].r)
    BY <1>10, <2>1, <2>2 DEF complete, Fresh, Completing, TypeOK
  <2> QED
    BY <2>2, <2>3 DEF RowStep
<1> QED
  BY <1>1, <1>2, <1>3, <1>4, <1>5, <1>6, <1>7, <1>8, <1>9, <1>10 DEF Next, Continue

\* Only entering goods changes a total, and never beyond what was ordered.
LEMMA RowStepTotals ==
    ASSUME TypeOK, TypeOK', OverlapInv, BalanceInv, RowStep, NEW l \in Lines
    PROVE  /\ TotalReceived(l)' <= Quantity[l]
           /\ ~ assertPurchaseOrderEligible => TotalReceived(l)' = TotalReceived(l)
           /\ \A r \in Receipts : Creating(r) \/ Removing(r) => TotalReceived(l)' = TotalReceived(l)
<1>1. TotalReceived(l) <= Quantity[l] /\ TotalReceived(l) \in Nat /\ Quantity[l] \in Nat
  BY TypeOfSums, QuantityAssumption DEF BalanceInv
<1>2. CASE UNCHANGED receipt
  BY <1>1, <1>2 DEF TotalReceived, Received
<1>3. ASSUME NEW r \in Receipts, Creating(r) PROVE TotalReceived(l)' = TotalReceived(l)
  <2>1. PICK q \in Quantities : receipt' = [receipt EXCEPT ![r] = [NoReceipt("DRAFT") EXCEPT !.ordered = q]]
    BY <1>3 DEF Creating
  <2>2. [NoReceipt("DRAFT") EXCEPT !.ordered = q].received[l] = 0 /\ NoReceipt("NEW").received[l] = 0
    BY DEF NoReceipt, Zero
  <2>3. receipt[r] = NoReceipt("NEW")
    BY <1>3 DEF Creating, OverlapInv, RowsInv, ReceiptExists, NoRow
  <2>4. TotalReceived(l)' = TotalReceived(l) - receipt[r].received[l]
                                             + [NoReceipt("DRAFT") EXCEPT !.ordered = q].received[l]
    BY <2>1, TotalsOfRow
  <2> QED
    BY <1>1, <2>2, <2>3, <2>4
<1>4. ASSUME NEW r \in Receipts, Removing(r) PROVE TotalReceived(l)' = TotalReceived(l)
  <2>1. receipt[r].received[l] = 0 /\ NoReceipt("DELETED").received[l] = 0
    BY <1>4 DEF Removing, BalanceInv, NoReceipt, Zero
  <2>2. TotalReceived(l)' = TotalReceived(l) - 0 + 0
    BY <1>4, <2>1, TotalsOfRow DEF Removing
  <2> QED
    BY <1>1, <2>2
<1>5. ASSUME NEW r \in Receipts, Completing(r) PROVE TotalReceived(l)' = TotalReceived(l)
  <2>1. [receipt[r] EXCEPT !.status = "COMPLETED"].received = receipt[r].received
    BY TypeOfRows
  <2>2. receipt[r].received[l] \in Nat
    BY TypeOfRows DEF Quantities
  <2>3. TotalReceived(l)' = TotalReceived(l) - receipt[r].received[l] + receipt[r].received[l]
    BY <1>5, <2>1, TotalsOfRow DEF Completing
  <2> QED
    BY <1>1, <2>2, <2>3
<1>6. ASSUME NEW r \in Receipts, NEW e \in Entries, TurningAway(r, e)
      PROVE  TotalReceived(l)' = TotalReceived(l)
  <2>0. PICK st : receipt' = [receipt EXCEPT ![r] = [receipt[r] EXCEPT !.rejected = Written(@, e), !.status = st]]
    BY <1>6 DEF TurningAway
  <2> DEFINE row == [receipt[r] EXCEPT !.rejected = Written(@, e), !.status = st]
  <2>1. row.received = receipt[r].received /\ receipt' = [receipt EXCEPT ![r] = row]
    BY <2>0, TypeOfRows
  <2>2. receipt[r].received[l] \in Nat
    BY TypeOfRows DEF Quantities
  <2> HIDE DEF row
  <2>3. TotalReceived(l)' = TotalReceived(l) - receipt[r].received[l] + row.received[l]
    BY <2>1, TotalsOfRow
  <2> QED
    BY <1>1, <2>1, <2>2, <2>3
<1>7. ASSUME NEW r \in Receipts, NEW e \in Entries, Entering(r, e)
      PROVE  TotalReceived(l)' <= Quantity[l] /\ assertPurchaseOrderEligible
  <2> PICK st : receipt' = [receipt EXCEPT ![r] = [receipt[r] EXCEPT !.received = Written(@, e), !.status = st]]
    BY <1>7 DEF Entering
  <2>1. [receipt[r] EXCEPT !.received = Written(@, e), !.status = st].received = Written(receipt[r].received, e)
    BY TypeOfRows
  <2>2. receipt[r].received[l] \in Nat /\ Cumulative(l) = TotalReceived(l)
    BY TypeOfRows, CumulativeIsTotal DEF Quantities, OverlapInv
  <2>3. TotalReceived(l)' = TotalReceived(l) - receipt[r].received[l] + Written(receipt[r].received, e)[l]
    BY <2>1, TotalsOfRow
  <2>4. CASE l \in DOMAIN e
    <3>1. MayReceive(receipt[r], l, e[l]) /\ e[l] \in Nat
      BY <1>7, <2>4, TypeOfEntries DEF Entering
    <3>2. Written(receipt[r].received, e)[l] = e[l]
      BY <2>4 DEF Written
    <3> QED
      BY <1>1, <1>7, <2>2, <2>3, <3>1, <3>2 DEF MayReceive, Entering
  <2>5. CASE l \notin DOMAIN e
    <3>1. Written(receipt[r].received, e)[l] = receipt[r].received[l]
      BY <2>5 DEF Written
    <3> QED
      BY <1>1, <1>7, <2>2, <2>3, <3>1 DEF Entering
  <2> QED
    BY <2>4, <2>5
<1> QED
  BY <1>1, <1>2, <1>3, <1>4, <1>5, <1>6, <1>7 DEF RowStep, Moving, Syncing

\* A unit once received stays received, on a receipt that counts.
LEMMA ReceivedStays ==
    ASSUME TypeOK, TypeOK', OverlapInv, BalanceInv, RowStep,
           NEW l \in Lines, NEW s \in Receipts, receipt[s].received[l] > 0
    PROVE  receipt'[s].received[l] > 0
<1>1. receipt[s].status \notin {"NEW", "DRAFT"}
  <2>1. NoReceipt("NEW").received[l] = 0
    BY DEF NoReceipt, Zero
  <2> QED
    BY <2>1 DEF OverlapInv, RowsInv, ReceiptExists, NoRow, BalanceInv
<1>2. CASE UNCHANGED receipt
  BY <1>2
<1>3. ASSUME NEW r \in Receipts, Creating(r) \/ Removing(r)
      PROVE  receipt'[s] = receipt[s]
  <2>1. r # s
    BY <1>1, <1>3 DEF Creating, Removing
  <2> QED
    BY <1>3, <2>1 DEF Creating, Removing, TypeOK
<1>4. ASSUME NEW r \in Receipts, Completing(r)
      PROVE  receipt'[s].received = receipt[s].received
  BY <1>4, TypeOfRows DEF Completing, TypeOK
<1>5. ASSUME NEW r \in Receipts, NEW e \in Entries, TurningAway(r, e)
      PROVE  receipt'[s].received = receipt[s].received
  BY <1>5, TypeOfRows DEF TurningAway, TypeOK
<1>6. ASSUME NEW r \in Receipts, NEW e \in Entries, Entering(r, e)
      PROVE  receipt'[s].received[l] > 0
  <2> PICK st : receipt' = [receipt EXCEPT ![r] = [receipt[r] EXCEPT !.received = Written(@, e), !.status = st]]
    BY <1>6 DEF Entering
  <2>1. CASE r # s
    BY <2>1 DEF TypeOK
  <2>2. CASE r = s
    <3>1. receipt'[s].received = Written(receipt[s].received, e)
      BY <2>2, TypeOfRows DEF TypeOK
    <3>2. l \in DOMAIN e => e[l] \in Nat \ {0}
      BY TypeOfEntries
    <3> QED
      BY <3>1, <3>2 DEF Written
  <2> QED
    BY <2>1, <2>2
<1> QED
  BY <1>2, <1>3, <1>4, <1>5, <1>6 DEF RowStep, Moving, Syncing

LEMMA BalanceNext ==
    ASSUME TypeOK, TypeOK', OverlapInv, OverlapInv', BalanceInv, RowStep
    PROVE  BalanceInv'
<1>1. \A l \in Lines : TotalReceived(l)' <= Quantity[l]
  BY RowStepTotals
<1>2. ASSUME NEW s \in Receipts, NEW l \in Lines
      PROVE  /\ receipt'[s].received[l] + receipt'[s].rejected[l] <= receipt'[s].ordered[l]
             /\ receipt'[s].status \in {"DRAFT", "REJECTED"} => receipt'[s].received[l] = 0
  <2>1. CASE receipt'[s] = receipt[s]
    BY <2>1 DEF BalanceInv
  <2>2. ASSUME Creating(s) PROVE receipt'[s].received[l] = 0 /\ receipt'[s].rejected[l] = 0
    <3> PICK q \in Quantities : receipt' = [receipt EXCEPT ![s] = [NoReceipt("DRAFT") EXCEPT !.ordered = q]]
      BY <2>2 DEF Creating
    <3>1. receipt'[s] = [NoReceipt("DRAFT") EXCEPT !.ordered = q]
      BY DEF TypeOK
    <3>2. receipt'[s].received = Zero /\ receipt'[s].rejected = Zero
      BY <3>1 DEF NoReceipt
    <3> QED
      BY <3>2 DEF Zero
  <2>3. ASSUME Removing(s) PROVE receipt'[s].received[l] = 0 /\ receipt'[s].rejected[l] = 0
    <3>1. receipt'[s] = NoReceipt("DELETED")
      BY <2>3 DEF Removing, TypeOK
    <3>2. receipt'[s].received = Zero /\ receipt'[s].rejected = Zero
      BY <3>1 DEF NoReceipt
    <3> QED
      BY <3>2 DEF Zero
  <2>4. receipt'[s].ordered[l] \in Nat
    BY DEF TypeOK, ReceiptRows, Quantities
  <2>5. /\ receipt[s].ordered[l] \in Nat /\ receipt[s].received[l] \in Nat /\ receipt[s].rejected[l] \in Nat
        /\ receipt[s].received[l] + receipt[s].rejected[l] <= receipt[s].ordered[l]
    BY TypeOfRows DEF Quantities, BalanceInv
  <2>6. CASE Completing(s)
    <3>1. receipt'[s] = [receipt[s] EXCEPT !.status = "COMPLETED"]
      BY <2>6 DEF Completing, TypeOK
    <3> QED
      BY <2>5, <3>1, TypeOfRows
  <2>7. ASSUME NEW e \in Entries, Entering(s, e)
        PROVE  /\ receipt'[s].received[l] + receipt'[s].rejected[l] <= receipt'[s].ordered[l]
               /\ receipt'[s].status \notin {"DRAFT", "REJECTED"}
    <3> PICK st \in {"RECEIVED", "PARTIALLY_RECEIVED"} :
               receipt' = [receipt EXCEPT ![s] = [receipt[s] EXCEPT !.received = Written(@, e), !.status = st]]
      BY <2>7 DEF Entering
    <3>1. /\ receipt'[s].status = st /\ receipt'[s].ordered = receipt[s].ordered
          /\ receipt'[s].rejected = receipt[s].rejected
          /\ receipt'[s].received = Written(receipt[s].received, e)
      BY TypeOfRows DEF TypeOK
    <3>2. l \in DOMAIN e => e[l] \in Nat /\ MayReceive(receipt[s], l, e[l])
      BY <2>7, TypeOfEntries DEF Entering
    <3>3. l \in DOMAIN e => e[l] + receipt[s].rejected[l] <= receipt[s].ordered[l]
      BY <3>2 DEF MayReceive
    <3> QED
      BY <2>5, <3>1, <3>2, <3>3 DEF Written
  <2>8. ASSUME NEW e \in Entries, TurningAway(s, e)
        PROVE  /\ receipt'[s].received[l] + receipt'[s].rejected[l] <= receipt'[s].ordered[l]
               /\ receipt'[s].status \in {"DRAFT", "REJECTED"} => receipt'[s].received[l] = 0
    <3> PICK st \in {"RECEIVED", "PARTIALLY_RECEIVED", "REJECTED"} :
          /\ st = "REJECTED" => \A k \in Lines : receipt[s].received[k] = 0
          /\ receipt' = [receipt EXCEPT ![s] = [receipt[s] EXCEPT !.rejected = Written(@, e), !.status = st]]
      BY <2>8 DEF TurningAway
    <3>1. /\ receipt'[s].status = st /\ receipt'[s].ordered = receipt[s].ordered
          /\ receipt'[s].received = receipt[s].received
          /\ receipt'[s].rejected = Written(receipt[s].rejected, e)
      BY TypeOfRows DEF TypeOK
    <3>2. l \in DOMAIN e => e[l] \in Nat /\ MayReject(receipt[s], l, e[l])
      BY <2>8, TypeOfEntries DEF TurningAway
    <3>3. l \in DOMAIN e => e[l] + receipt[s].received[l] <= receipt[s].ordered[l]
      BY <3>2 DEF MayReject
    <3> QED
      BY <2>5, <3>1, <3>2, <3>3 DEF Written
  <2>9. \/ receipt'[s] = receipt[s]
        \/ Creating(s) \/ Removing(s) \/ Completing(s)
        \/ \E e \in Entries : Entering(s, e) \/ TurningAway(s, e)
    BY DEF RowStep, Moving, Syncing, Creating, Removing, Completing, Entering, TurningAway, TypeOK
  <2> QED
    BY <2>1, <2>2, <2>3, <2>4, <2>6, <2>7, <2>8, <2>9
<1> QED
  BY <1>1, <1>2 DEF BalanceInv

LEMMA OrderNext ==
    ASSUME TypeOK, TypeOK', OverlapInv, OverlapInv', BalanceInv, OrderInv, RowStep
    PROVE  OrderInv'
<1>1. BalanceInv'
  BY BalanceNext
<1>2. /\ anyReceived' <=> \E l \in Lines, r \in Receipts : receipt'[r].received[l] > 0
      /\ allFullyReceived' <=> \A l \in Lines : TotalReceived(l)' >= Quantity[l]
  <2>1. (TypeOK /\ RowsInv /\ BalanceInv =>
            /\ anyReceived <=> \E l \in Lines, r \in Receipts : receipt[r].received[l] > 0
            /\ anyReceived <=> \E l \in Lines : TotalReceived(l) > 0
            /\ allFullyReceived <=> \A l \in Lines : TotalReceived(l) >= Quantity[l]
            /\ allFullyReceived => anyReceived)'
    BY Progress, PTL
  <2> QED
    BY <1>1, <2>1 DEF OverlapInv
<1>3. anyReceived => anyReceived'
  BY <1>2, Progress, ReceivedStays DEF OverlapInv
<1>4. ~ assertPurchaseOrderEligible /\ allFullyReceived => allFullyReceived'
  BY <1>2, Progress, RowStepTotals DEF OverlapInv
<1>5. CASE po' = po
  <2>1. po' = "DRAFT" => \A r \in Receipts : ~ ReceiptExists(r)'
    <3> SUFFICES ASSUME po' = "DRAFT" PROVE UNCHANGED receipt
      BY <1>5 DEF OrderInv, ReceiptExists
    <3>1. ~ assertPurchaseOrderEligible /\ \A r \in Receipts : receipt[r].status \in NoRow
      BY <1>5 DEF assertPurchaseOrderEligible, ELIGIBLE_PO_STATUSES, OrderInv, ReceiptExists
    <3> QED
      BY <3>1 DEF RowStep, Moving, Syncing, Creating, Removing, Completing, Entering, TurningAway, ReceiptExists, NoRow
  <2>2. po' = "COMPLETED" => allFullyReceived'
    BY <1>4, <1>5 DEF OrderInv, assertPurchaseOrderEligible, ELIGIBLE_PO_STATUSES
  <2> QED
    BY <1>3, <1>5, <2>1, <2>2 DEF OrderInv
<1>6. CASE po' # po
  <2>1. CASE Moving
    BY <1>6, <2>1 DEF OrderInv, Moving
  <2>2. CASE Syncing
    <3>1. /\ po' # "DRAFT"
          /\ po' = "COMPLETED" => allFullyReceived
          /\ po' = "PARTIALLY_DELIVERED" => anyReceived
      BY <1>6, <2>2 DEF Syncing, SyncDue, DeliveryStatus
    <3>2. allFullyReceived' = allFullyReceived
      BY <2>2 DEF Syncing, allFullyReceived, Cumulative, Received
    <3> QED
      BY <1>3, <3>1, <3>2 DEF OrderInv
  <2> QED
    BY <1>6, <2>1, <2>2 DEF RowStep, Creating, Removing, Completing, Entering, TurningAway
<1> QED
  BY <1>5, <1>6

(***************************************************************************)
(* The handlers in flight that were not overtaken.                         *)
(***************************************************************************)
\* What a handler remembers stays true while nothing is written.
LEMMA FreshQuiet ==
    ASSUME NEW d \in Clients, Fresh(d), op'[d] = op[d], UNCHANGED <<po, receipt>>
    PROVE  Fresh(d)'
<1>1. \A l \in Lines : Cumulative(l)' = Cumulative(l)
  BY DEF Cumulative, Received
<1>2. SyncDue' = SyncDue /\ DeliveryStatus' = DeliveryStatus
  BY <1>1 DEF SyncDue, OrderExists, DeliveryStatus, allFullyReceived, anyReceived
<1>3. assertPurchaseOrderEligible' = assertPurchaseOrderEligible
  BY DEF assertPurchaseOrderEligible
<1>4. op[d].pc = "receive" =>
         \A l \in DOMAIN op[d].entries : MayReceive(receipt[op[d].r], l, op[d].entries[l])'
  BY DEF Fresh, MayReceive, Cumulative, Received
<1>5. op[d].pc = "reject" =>
         \A l \in DOMAIN op[d].entries : MayReject(receipt[op[d].r], l, op[d].entries[l])'
  BY DEF Fresh, MayReject
<1>6. op[d].pc \in {"receive", "reject"} => assertReceivable(op[d].r)'
  BY DEF Fresh, assertReceivable, ReceiptExists
<1> QED
  BY <1>2, <1>3, <1>4, <1>5, <1>6 DEF Fresh, MayReceive, MayReject, assertReceivable, ReceiptExists

\* A write leaves alone what the handlers it does not overtake have read.
LEMMA FreshCommit ==
    ASSUME TypeOK, UnoverlappedInv, ~staleCommit',
           NEW c \in Clients, NEW o \in {Idle, [pc |-> "sync"]}, NEW row, Commit(c, o, row),
           \/ row = "po" /\ UNCHANGED receipt
           \/ /\ row \in Receipts
              /\ UNCHANGED po
              /\ \A s \in Receipts \ {row} : receipt'[s] = receipt[s],
           NEW d \in Clients \ overtaken'
    PROVE  Fresh(d)'
<1>1. CASE d = c
  <2>1. op'[c].pc \in {"idle", "sync"}
    BY DEF Commit, Idle, TypeOK
  <2> QED
    BY <1>1, <2>1 DEF Fresh
<1>2. CASE d # c /\ op[d].pc \in {"idle", "sync"}
  <2>1. op'[d] = op[d]
    BY <1>2 DEF Commit, TypeOK
  <2> QED
    BY <1>2, <2>1 DEF Fresh
<1>3. CASE d # c /\ op[d].pc \notin {"idle", "sync"}
  <2>1. op'[d] = op[d] /\ d \notin overtaken /\ row \notin RowsRead(d)
    BY <1>3 DEF Commit, InFlight, Idle, TypeOK
  <2>2. Fresh(d)
    BY <2>1 DEF Commit, UnoverlappedInv
  <2>3. CASE row = "po" /\ UNCHANGED receipt
    <3>1. op[d].pc \in {"deleteReceipt", "complete"}
      BY <2>1, <2>3 DEF RowsRead
    <3> QED
      BY <2>1, <2>2, <2>3, <3>1 DEF Fresh
  <2>4. CASE row \in Receipts /\ UNCHANGED po /\ \A s \in Receipts \ {row} : receipt'[s] = receipt[s]
    <3>1. \/ op[d].pc \in OrderOps
          \/ op[d].pc \in {"deleteReceipt", "complete"} /\ op[d].r \in Receipts \ {row}
      BY <2>1, <2>4, TypeOfOps DEF RowsRead
    <3> QED
      BY <2>1, <2>2, <2>4, <3>1 DEF Fresh, OrderOps
  <2> QED
    BY <2>3, <2>4
<1> QED
  BY <1>1, <1>2, <1>3

LEMMA FreshNext ==
    ASSUME TypeOK, TypeOK', OverlapInv, UnoverlappedInv, ~staleCommit', RowStep, [Next]_vars,
           NEW d \in Clients \ overtaken'
    PROVE  Fresh(d)'
<1>1. CASE UNCHANGED vars
  <2>1. Fresh(d)
    BY <1>1 DEF vars, UnoverlappedInv
  <2> QED
    BY <1>1, <2>1, FreshQuiet DEF vars
\* A handler that only read: the others remember what they did, and it what it read.
<1>2. ASSUME NEW c \in Clients, NEW o, Begin(c, o), Fresh(c)' PROVE Fresh(d)'
  <2>1. CASE d = c
    BY <1>2, <2>1
  <2>2. CASE d # c
    <3>1. op'[d] = op[d] /\ Fresh(d) /\ UNCHANGED <<po, receipt>>
      BY <1>2, <2>2 DEF Begin, history, TypeOK, UnoverlappedInv
    <3> QED
      BY <3>1, FreshQuiet
  <2> QED
    BY <2>1, <2>2
<1>3. ASSUME NEW c \in Clients,
             deleteOrderRead(c) \/ issueRead(c) \/ acknowledgeRead(c) \/ cancelRead(c)
      PROVE  Fresh(d)'
  <2>1. \E o : Begin(c, o)
    BY <1>3 DEF deleteOrderRead, issueRead, acknowledgeRead, cancelRead
  <2>2. /\ po' = po
        /\ \/ op'[c].pc \in {"deleteOrder", "issue"} /\ po = "DRAFT"
           \/ op'[c].pc = "acknowledge" /\ po = "ISSUED"
           \/ op'[c].pc = "cancel" /\ po \notin {"CANCELLED", "COMPLETED", "DELETED"}
    BY <1>3 DEF deleteOrderRead, issueRead, acknowledgeRead, cancelRead, OrderExists, NoRow, Begin, TypeOK
  <2>3. Fresh(c)'
    BY <2>2 DEF Fresh
  <2> QED
    BY <1>2, <2>1, <2>3
<1>4. ASSUME NEW c \in Clients, createReceiptRead(c) PROVE Fresh(d)'
  <2> PICK r \in Receipts :
         Begin(c, [pc |-> "create", r |-> r,
                   ordered |-> [l \in Lines |-> IF Remaining(l) > 0 THEN Remaining(l) ELSE 0]])
    BY <1>4 DEF createReceiptRead
  <2>1. op'[c].pc = "create" /\ po' = po
    BY DEF Begin, TypeOK
  <2>2. Fresh(c)'
    BY <1>4, <2>1 DEF Fresh, createReceiptRead, assertPurchaseOrderEligible
  <2> QED
    BY <1>2, <2>2
<1>5. ASSUME NEW c \in Clients, deleteReceiptRead(c) \/ completeRead(c) PROVE Fresh(d)'
  <2>1. \E o : Begin(c, o)
    BY <1>5 DEF deleteReceiptRead, completeRead
  <2>2. /\ receipt' = receipt
        /\ \/ op'[c].pc = "deleteReceipt" /\ receipt[op'[c].r].status = "DRAFT"
           \/ op'[c].pc = "complete" /\ receipt[op'[c].r].status \notin {"DRAFT", "COMPLETED", "REJECTED"}
    BY <1>5 DEF deleteReceiptRead, completeRead, Begin, TypeOK
  <2>3. Fresh(c)'
    BY <2>2 DEF Fresh
  <2> QED
    BY <1>2, <2>1, <2>3
<1>6. ASSUME NEW c \in Clients, receiveRead(c) PROVE Fresh(d)'
  <2>1. PICK r \in Receipts : \E first, last \in Inputs(r) :
           /\ assertReceivable(r)
           /\ \A l \in DOMAIN last : MayReceive(receipt[r], l, last[l])
           /\ Begin(c, [pc |-> "receive", r |-> r, entries |-> last,
                        status |-> resolveReceiptProgressStatus(
                                      [receipt[r] EXCEPT !.received = Written(@, first)], FALSE)])
    BY <1>6 DEF receiveRead
  <2>2. PICK last, st :
           /\ last \in Inputs(r)
           /\ assertReceivable(r)
           /\ \A l \in DOMAIN last : MayReceive(receipt[r], l, last[l])
           /\ Begin(c, [pc |-> "receive", r |-> r, entries |-> last, status |-> st])
    BY <2>1
  <2>3. op'[c] = [pc |-> "receive", r |-> r, entries |-> last, status |-> st] /\ UNCHANGED <<po, receipt>>
    BY <2>2 DEF Begin, TypeOK
  <2>4. assertPurchaseOrderEligible' /\ assertReceivable(r)'
    BY <1>6, <2>2, <2>3 DEF receiveRead, assertPurchaseOrderEligible, assertReceivable, ReceiptExists
  <2>5. \A l \in DOMAIN last : MayReceive(receipt[r], l, last[l])'
    BY <2>2, <2>3 DEF MayReceive, Cumulative, Received
  <2>6. Fresh(c)'
    BY <2>3, <2>4, <2>5 DEF Fresh, MayReceive, assertReceivable, ReceiptExists
  <2> QED
    BY <1>2, <2>2, <2>6
<1>7. ASSUME NEW c \in Clients, rejectRead(c) PROVE Fresh(d)'
  <2>1. PICK r \in Receipts : \E first, last \in Inputs(r) :
           /\ assertReceivable(r)
           /\ \A l \in DOMAIN last : MayReject(receipt[r], l, last[l])
           /\ Begin(c, [pc |-> "reject", r |-> r, entries |-> last,
                        status |-> resolveReceiptProgressStatus(
                                      [receipt[r] EXCEPT !.rejected = Written(@, first)], TRUE)])
    BY <1>7 DEF rejectRead
  <2>2. PICK first \in Inputs(r), last \in Inputs(r) :
           /\ assertReceivable(r)
           /\ \A l \in DOMAIN last : MayReject(receipt[r], l, last[l])
           /\ Begin(c, [pc |-> "reject", r |-> r, entries |-> last,
                        status |-> resolveReceiptProgressStatus(
                                      [receipt[r] EXCEPT !.rejected = Written(@, first)], TRUE)])
    BY <2>1
  <2> DEFINE st == resolveReceiptProgressStatus([receipt[r] EXCEPT !.rejected = Written(@, first)], TRUE)
  <2>3. op'[c] = [pc |-> "reject", r |-> r, entries |-> last, status |-> st] /\ UNCHANGED <<po, receipt>>
    BY <2>2 DEF Begin, TypeOK
  <2>4. st = "REJECTED" => \A l \in Lines : receipt[r].received[l] = 0
    <3>1. st = "REJECTED" => \A l \in OnReceipt(r) : receipt[r].received[l] = 0
      BY RejectingStatus
    <3>2. ASSUME NEW l \in Lines \ OnReceipt(r) PROVE receipt[r].received[l] = 0
      <4>1. receipt[r].ordered[l] \in Nat /\ receipt[r].received[l] \in Nat
        BY TypeOfRows DEF Quantities
      <4>2. receipt[r].received[l] <= receipt[r].ordered[l] /\ ~ (receipt[r].ordered[l] > 0)
        BY DEF OnReceipt, OverlapInv, LineInv, LineWithinOrdered
      <4> QED
        BY <4>1, <4>2
    <3> QED
      BY <3>1, <3>2
  <2> HIDE DEF st
  <2>5. assertPurchaseOrderEligible' /\ assertReceivable(r)'
    BY <1>7, <2>2, <2>3 DEF rejectRead, assertPurchaseOrderEligible, assertReceivable, ReceiptExists
  <2>6. \A l \in DOMAIN last : MayReject(receipt[r], l, last[l])'
    BY <2>2, <2>3 DEF MayReject
  <2>7. Fresh(c)'
    BY <2>3, <2>4, <2>5, <2>6 DEF Fresh, MayReject, assertReceivable, ReceiptExists
  <2> QED
    BY <1>2, <2>2, <2>7
\* The writes.
<1>8. ASSUME NEW c \in Clients, issue(c) \/ acknowledge(c) \/ cancel(c) \/ syncWrite(c) PROVE Fresh(d)'
  BY <1>8, FreshCommit DEF issue, acknowledge, cancel, syncWrite, WriteOrder
<1>9. ASSUME NEW c \in Clients, deleteOrder(c) PROVE Fresh(d)'
  <2>1. UNCHANGED receipt
    <3>1. po = "DRAFT" /\ ~staleCommit
      BY <1>9, CommitsOnFreshRead DEF deleteOrder, Fresh
    <3>2. \A r \in Receipts : ~ ReceiptExists(r)
      BY <3>1 DEF UnoverlappedInv, OrderInv
    <3> QED
      BY <1>9, <3>2 DEF deleteOrder, TypeOK
  <2> QED
    BY <1>9, <2>1, FreshCommit DEF deleteOrder
<1>10. ASSUME NEW c \in Clients,
              createReceipt(c) \/ deleteReceipt(c) \/ receive(c) \/ reject(c) \/ complete(c)
       PROVE  Fresh(d)'
  <2>1. /\ op[c].r \in Receipts
        /\ UNCHANGED po
        /\ \E o \in {Idle, [pc |-> "sync"]} : Commit(c, o, op[c].r)
    BY <1>10, TypeOfOps DEF createReceipt, deleteReceipt, receive, writeReceived, reject, complete
  <2>2. \A s \in Receipts \ {op[c].r} : receipt'[s] = receipt[s]
    BY <1>10, <2>1 DEF createReceipt, deleteReceipt, receive, writeReceived, reject, complete, TypeOK
  <2> QED
    BY <2>1, <2>2, FreshCommit
\* The steps of the second write, and the ends without one.
<1>11. ASSUME NEW c \in Clients, syncRead(c) PROVE Fresh(d)'
  <2>1. UNCHANGED <<po, receipt>> /\ op'[c] = [pc |-> "syncWrite", status |-> DeliveryStatus] /\ SyncDue
    BY <1>11 DEF syncRead, TypeOK
  <2>2. Fresh(c)'
    <3>1. \A l \in Lines : Cumulative(l)' = Cumulative(l)
      BY <2>1 DEF Cumulative, Received
    <3>2. SyncDue' /\ DeliveryStatus' = DeliveryStatus
      BY <2>1, <3>1 DEF SyncDue, OrderExists, DeliveryStatus, allFullyReceived, anyReceived
    <3> QED
      BY <2>1, <3>2 DEF Fresh
  <2>3. d # c => op'[d] = op[d] /\ Fresh(d)
    BY <1>11 DEF syncRead, TypeOK, UnoverlappedInv
  <2> QED
    BY <2>1, <2>2, <2>3, FreshQuiet
<1>12. ASSUME NEW c \in Clients, syncIdle(c) \/ WriteFails(c) \/ Crash(c) PROVE Fresh(d)'
  <2>1. UNCHANGED <<po, receipt>> /\ op'[c].pc = "idle" /\ (d # c => op'[d] = op[d] /\ Fresh(d))
    BY <1>12 DEF syncIdle, WriteFails, Crash, Stop, Idle, TypeOK, UnoverlappedInv
  <2>2. Fresh(c)'
    BY <2>1 DEF Fresh
  <2> QED
    BY <2>1, <2>2, FreshQuiet
<1> QED
  BY <1>1, <1>3, <1>4, <1>5, <1>6, <1>7, <1>8, <1>9, <1>10, <1>11, <1>12 DEF Next, Request, Continue

(***************************************************************************)
(* The delivery status, once nobody is about to write it.                  *)
(***************************************************************************)
LEMMA DeliveryNext ==
    ASSUME TypeOK, TypeOK', OverlapInv, OverlapInv', UnoverlappedInv, ~staleCommit, ~staleCommit',
           RowStep, OrderInv', [Next]_vars
    PROVE  DeliveryStatusAgrees'
<1> DEFINE Settled == \A c \in Clients : op[c].pc \notin {"sync", "syncWrite"}
           Agrees == /\ po = "COMPLETED" <=> allFullyReceived
                     /\ po = "PARTIALLY_DELIVERED" <=> anyReceived /\ ~allFullyReceived
<1> SUFFICES ASSUME ~crashed', Settled', po' \notin {"CANCELLED", "DELETED"} PROVE Agrees'
  BY DEF DeliveryStatusAgrees
<1>1. OrderInv /\ BalanceInv /\ BalanceInv'
  BY BalanceNext DEF UnoverlappedInv
<1>2. ~crashed /\ Settled /\ po \notin {"CANCELLED", "DELETED"} => Agrees
  BY DEF UnoverlappedInv, DeliveryStatusAgrees
<1>3. UNCHANGED receipt => allFullyReceived' = allFullyReceived /\ anyReceived' = anyReceived
  BY DEF allFullyReceived, anyReceived, Cumulative, Received
<1>4. ASSUME UNCHANGED <<po, receipt>>, ~crashed, Settled PROVE Agrees'
  BY <1>2, <1>3, <1>4
<1>5. CASE UNCHANGED vars
  BY <1>4, <1>5 DEF vars
<1>6. ASSUME NEW c \in Clients, Request(c) PROVE Agrees'
  <2>1. \E o : Begin(c, o)
    BY <1>6 DEF Request, deleteOrderRead, issueRead, acknowledgeRead, cancelRead, createReceiptRead,
                deleteReceiptRead, receiveRead, rejectRead, completeRead
  <2>2. Settled
    BY <2>1 DEF Begin, Idle, TypeOK
  <2> QED
    BY <1>4, <2>1, <2>2 DEF Begin, history
<1>7. ASSUME NEW c \in Clients, WriteFails(c) PROVE Agrees'
  <2>1. op[c].pc # "syncWrite"
    BY <1>7 DEF WriteFails, Stop, OrderExists, NoRow, TypeOK, PurchaseOrderStatus
  <2>2. op[c].pc # "sync"
    BY <1>7 DEF WriteFails, OrderOps
  <2>3. Settled
    BY <1>7, <2>1, <2>2 DEF WriteFails, Stop, TypeOK
  <2> QED
    BY <1>4, <1>7, <2>3 DEF WriteFails, Stop
<1>8. ASSUME NEW c \in Clients, Crash(c) \/ syncRead(c) \/ receive(c) \/ reject(c) \/ complete(c) PROVE FALSE
  <2>1. CASE Crash(c)
    BY <2>1 DEF Crash
  <2>2. CASE syncRead(c)
    BY <2>2 DEF syncRead, TypeOK
  <2>3. CASE receive(c) \/ reject(c) \/ complete(c)
    <3>1. op'[c] = [pc |-> "sync"]
      BY <2>3 DEF receive, writeReceived, reject, complete, Commit, TypeOK
    <3> QED
      BY <3>1
  <2> QED
    BY <1>8, <2>1, <2>2, <2>3
<1>9. ASSUME NEW c \in Clients, createReceipt(c) \/ deleteReceipt(c) PROVE Agrees'
  <2>1. UNCHANGED po /\ ~crashed /\ op[c].pc \in {"create", "deleteReceipt"}
    BY <1>9 DEF createReceipt, deleteReceipt, Commit
  <2>2. Settled
    BY <1>9, <2>1 DEF createReceipt, deleteReceipt, Commit, TypeOK
  <2>3. \A l \in Lines : TotalReceived(l)' = TotalReceived(l)
    <3>1. Fresh(c)
      BY <1>9, CommitsOnFreshRead DEF createReceipt, deleteReceipt
    <3>2. op[c].r \in Receipts
      BY <2>1, TypeOfOps
    <3>3. CASE createReceipt(c)
      <4>1. receipt[op[c].r].status = "NEW" /\ op[c].ordered \in Quantities
        BY <3>3, TypeOfOps DEF createReceipt, OverlapInv, RowsInv
      <4>2. Creating(op[c].r)
        BY <3>1, <3>3, <4>1 DEF createReceipt, Fresh, Creating
      <4> QED
        BY <1>1, <3>2, <4>2, RowStepTotals
    <3>4. CASE deleteReceipt(c)
      <4>1. Removing(op[c].r)
        BY <3>1, <3>4 DEF deleteReceipt, Fresh, ReceiptExists, NoRow, Removing
      <4> QED
        BY <1>1, <3>2, <4>1, RowStepTotals
    <3> QED
      BY <1>9, <3>3, <3>4
  <2>4. allFullyReceived' = allFullyReceived /\ anyReceived' = anyReceived
    <3>1. /\ anyReceived <=> \E l \in Lines : TotalReceived(l) > 0
          /\ allFullyReceived <=> \A l \in Lines : TotalReceived(l) >= Quantity[l]
      BY <1>1, Progress DEF OverlapInv
    <3>2. /\ anyReceived' <=> \E l \in Lines : TotalReceived(l)' > 0
          /\ allFullyReceived' <=> \A l \in Lines : TotalReceived(l)' >= Quantity[l]
      <4>1. (TypeOK /\ RowsInv /\ BalanceInv =>
                /\ anyReceived <=> \E l \in Lines, r \in Receipts : receipt[r].received[l] > 0
                /\ anyReceived <=> \E l \in Lines : TotalReceived(l) > 0
                /\ allFullyReceived <=> \A l \in Lines : TotalReceived(l) >= Quantity[l]
                /\ allFullyReceived => anyReceived)'
        BY Progress, PTL
      <4> QED
        BY <1>1, <4>1 DEF OverlapInv
    <3>3. anyReceived' <=> anyReceived
      BY <2>3, <3>1, <3>2
    <3>4. allFullyReceived' <=> allFullyReceived
      BY <2>3, <3>1, <3>2
    <3> QED
      BY <3>3, <3>4 DEF allFullyReceived, anyReceived
  <2> QED
    BY <1>2, <2>1, <2>2, <2>4
<1>10. ASSUME NEW c \in Clients, issue(c) \/ acknowledge(c) \/ cancel(c) \/ deleteOrder(c) PROVE Agrees'
  <2>1. ~crashed /\ op[c].pc \in OrderOps /\ Settled
    BY <1>10 DEF issue, acknowledge, cancel, deleteOrder, WriteOrder, Commit, OrderOps, TypeOK
  <2>2. CASE issue(c) \/ acknowledge(c)
    <3>1. Fresh(c) /\ UNCHANGED receipt /\ po' \in {"ISSUED", "ACKNOWLEDGED"}
      BY <2>2, CommitsOnFreshRead DEF issue, acknowledge, WriteOrder
    <3>2. po \in {"DRAFT", "ISSUED"}
      BY <2>2, <3>1 DEF issue, acknowledge, Fresh
    <3>3. ~allFullyReceived /\ ~anyReceived
      BY <1>2, <2>1, <3>2
    <3> QED
      BY <1>3, <3>1, <3>3
  <2>3. CASE cancel(c) \/ deleteOrder(c)
    BY <2>3 DEF cancel, deleteOrder, WriteOrder
  <2> QED
    BY <1>10, <2>2, <2>3
<1>11. ASSUME NEW c \in Clients, syncIdle(c) \/ syncWrite(c) PROVE Agrees'
  <2>1. UNCHANGED receipt
    BY <1>11 DEF syncIdle, syncWrite, Stop, WriteOrder
  <2>2. allFullyReceived => anyReceived
    BY <1>1, Progress DEF OverlapInv
  <2>3. CASE po' = "DRAFT"
    <3>1. \A r \in Receipts : ~ ReceiptExists(r)
      BY <2>1, <2>3 DEF OrderInv, ReceiptExists
    <3>2. \A r \in Receipts, l \in Lines : receipt[r].received[l] = 0
      <4>1. \A st \in NoRow, l \in Lines : NoReceipt(st).received[l] = 0
        BY DEF NoReceipt, Zero
      <4> QED
        BY <3>1, <4>1 DEF OverlapInv, RowsInv, ReceiptExists
    <3>3. ~anyReceived
      BY <1>1, <3>2, Progress DEF OverlapInv
    <3> QED
      BY <1>3, <2>1, <2>2, <2>3, <3>3
  <2>4. CASE po' # "DRAFT"
    <3>1. po' = DeliveryStatus
      <4>1. CASE syncIdle(c)
        BY <2>4, <4>1 DEF syncIdle, Stop, SyncDue, OrderExists, NoRow, TypeOK, PurchaseOrderStatus
      <4>2. CASE syncWrite(c)
        <5>1. Fresh(c)
          BY <4>2, CommitsOnFreshRead DEF syncWrite, WriteOrder
        <5> QED
          BY <4>2, <5>1 DEF syncWrite, WriteOrder, Fresh
      <4> QED
        BY <1>11, <4>1, <4>2
    <3>2. allFullyReceived' = allFullyReceived /\ anyReceived' = anyReceived
      BY <1>3, <2>1
    <3>3. CASE anyReceived
      BY <2>2, <3>1, <3>2, <3>3 DEF DeliveryStatus
    <3>4. CASE ~anyReceived
      BY <2>2, <3>1, <3>2, <3>4 DEF OrderInv
    <3> QED
      BY <3>3, <3>4
  <2> QED
    BY <2>3, <2>4
<1> QED
  BY <1>5, <1>6, <1>7, <1>8, <1>9, <1>10, <1>11 DEF Next, Continue

(***************************************************************************)
(* The invariants, and what follows from them.                             *)
(***************************************************************************)
LEMMA UnoverlappedInit == Init => UnoverlappedInv
<1> SUFFICES ASSUME Init PROVE UnoverlappedInv
  OBVIOUS
<1>1. TypeOK /\ OverlapInv
  BY TypeOKInit, OverlapInit
<1>2. \A r \in Receipts, l \in Lines :
         /\ receipt[r].received[l] = 0 /\ receipt[r].rejected[l] = 0 /\ receipt[r].ordered[l] = 0
         /\ receipt[r].status = "NEW"
  BY DEF Init, NoReceipt, Zero
<1>3. \A l \in Lines : TotalReceived(l) = 0
  <2> TAKE l \in Lines
  <2>1. \A r \in Receipts : Received(l)[r] = 0
    BY <1>2 DEF Received
  <2> QED
    BY <1>1, <2>1, TypeOfSums, RowsAssumption, SumOfZeros
<1>4. BalanceInv
  BY <1>2, <1>3, QuantityAssumption DEF BalanceInv
<1>5. ~anyReceived /\ ~allFullyReceived
  BY <1>1, <1>2, <1>4, Progress DEF OverlapInv
<1>6. po = "DRAFT" /\ \A r \in Receipts : ~ ReceiptExists(r)
  BY DEF Init, ReceiptExists, NoRow, NoReceipt
<1>7. OrderInv /\ DeliveryStatusAgrees
  BY <1>5, <1>6 DEF OrderInv, DeliveryStatusAgrees
<1>8. \A c \in Clients : Fresh(c)
  BY DEF Init, Idle, Fresh
<1> QED
  BY <1>4, <1>7, <1>8 DEF UnoverlappedInv

\* A write on an overtaken read is remembered.
LEMMA StaysStale == [Next]_vars /\ ~staleCommit' => ~staleCommit
<1> SUFFICES ASSUME [Next]_vars, staleCommit PROVE staleCommit'
  OBVIOUS
<1>1. CASE UNCHANGED vars
  BY <1>1 DEF vars
<1>2. ASSUME NEW c \in Clients, Request(c) PROVE staleCommit'
  BY <1>2 DEF Request, deleteOrderRead, issueRead, acknowledgeRead, cancelRead, createReceiptRead,
              deleteReceiptRead, receiveRead, rejectRead, completeRead, Begin, history
<1>3. ASSUME NEW c \in Clients, syncRead(c) \/ syncIdle(c) \/ WriteFails(c) \/ Crash(c) PROVE staleCommit'
  BY <1>3 DEF syncRead, syncIdle, WriteFails, Crash, Stop
<1>4. ASSUME NEW c \in Clients, NEW o, NEW row, Commit(c, o, row) PROVE staleCommit'
  BY <1>4 DEF Commit
<1> QED
  BY <1>1, <1>2, <1>3, <1>4
     DEF Next, Continue, deleteOrder, issue, acknowledge, cancel, createReceipt, deleteReceipt, receive,
         writeReceived, reject, complete, syncWrite, WriteOrder

LEMMA UnoverlappedNext ==
    TypeOK /\ TypeOK' /\ OverlapInv /\ OverlapInv' /\ UnoverlappedInv /\ [Next]_vars => UnoverlappedInv'
<1> SUFFICES ASSUME TypeOK, TypeOK', OverlapInv, OverlapInv', UnoverlappedInv, [Next]_vars, ~staleCommit'
             PROVE  /\ BalanceInv'
                    /\ OrderInv'
                    /\ DeliveryStatusAgrees'
                    /\ \A c \in Clients \ overtaken' : Fresh(c)'
  BY DEF UnoverlappedInv
<1>1. ~staleCommit
  BY StaysStale
<1>2. BalanceInv /\ OrderInv
  BY <1>1 DEF UnoverlappedInv
<1>3. RowStep
  BY UnoverlappedRowStep
<1>4. BalanceInv' /\ OrderInv'
  BY <1>2, <1>3, BalanceNext, OrderNext
<1>5. DeliveryStatusAgrees'
  BY <1>1, <1>3, <1>4, DeliveryNext
<1>6. \A c \in Clients \ overtaken' : Fresh(c)'
  BY <1>3, FreshNext
<1> QED
  BY <1>4, <1>5, <1>6

LEMMA Unoverlapped == Spec => [](TypeOK /\ OverlapInv /\ UnoverlappedInv)
BY TypeOKInit, TypeOKNext, OverlapInit, OverlapNext, UnoverlappedInit, UnoverlappedNext, PTL DEF Spec

\* Until a handler writes on an overtaken read, the receipts of an order together
\* stay within what was ordered, units are received or rejected and not both, and
\* what the delivery progress does not count has received nothing.
THEOREM ReceiptsStayBalanced == Spec => []ReceiptsBalance
<1>1. UnoverlappedInv => ReceiptsBalance
  BY DEF UnoverlappedInv, BalanceInv, ReceiptsBalance
<1> QED
  BY <1>1, Unoverlapped, PTL

\* Until a process dies or a handler writes on an overtaken read, the order's status
\* tells how much was delivered whenever no handler is about to write it.
THEOREM DeliveryStatusIsTrue == Spec => []DeliveryStatusAgrees
<1>1. UnoverlappedInv => DeliveryStatusAgrees
  BY DEF UnoverlappedInv, DeliveryStatusAgrees
<1> QED
  BY <1>1, Unoverlapped, PTL

\* Until a handler writes on an overtaken read, a closed receipt and a closed order
\* are never written again.
THEOREM ClosedIsFinal == Spec => ClosedStaysClosed
<1>1. ASSUME TypeOK, OverlapInv, UnoverlappedInv, [Next]_vars, ~staleCommit'
      PROVE  /\ \A r \in Receipts :
                   receipt[r].status \in {"COMPLETED", "REJECTED"} => receipt'[r] = receipt[r]
             /\ po \in {"COMPLETED", "CANCELLED", "DELETED"} => po' = po
  <2>1. RowStep
    BY <1>1, UnoverlappedRowStep
  <2>2. ASSUME NEW r \in Receipts, receipt[r].status \in {"COMPLETED", "REJECTED"}
        PROVE  receipt'[r] = receipt[r]
    BY <1>1, <2>1, <2>2
       DEF RowStep, Moving, Syncing, Creating, Removing, Entering, TurningAway, Completing,
           assertReceivable, TypeOK
  <2>3. po = "COMPLETED" => ~ Syncing
    <3>1. ~staleCommit
      BY <1>1, StaysStale
    <3> QED
      BY <1>1, <3>1 DEF UnoverlappedInv, OrderInv, Syncing, SyncDue, DeliveryStatus
  <2>4. po \in {"COMPLETED", "CANCELLED", "DELETED"} => po' = po
    BY <2>1, <2>3 DEF RowStep, Moving, Syncing, SyncDue, OrderExists, NoRow,
                      Creating, Removing, Entering, TurningAway, Completing
  <2> QED
    BY <2>2, <2>4
<1>2. TypeOK /\ OverlapInv /\ UnoverlappedInv /\ [Next]_vars =>
        [~staleCommit' =>
          /\ \A r \in Receipts :
                receipt[r].status \in {"COMPLETED", "REJECTED"} => receipt'[r] = receipt[r]
          /\ po \in {"COMPLETED", "CANCELLED", "DELETED"} => po' = po]_vars
  BY <1>1
<1> QED
  BY <1>2, Unoverlapped, PTL DEF Spec, ClosedStaysClosed

=============================================================================
