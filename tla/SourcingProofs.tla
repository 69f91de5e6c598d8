--------------------------- MODULE SourcingProofs ---------------------------
(***************************************************************************)
(* Theorems about Sourcing, for every set of handlers, vendors, bids,      *)
(* items, prices, evaluators and scores.                                   *)
(***************************************************************************)
EXTENDS Sourcing, SumTheorems

(***************************************************************************)
(* Type correctness.                                                       *)
(***************************************************************************)
LEMMA TypeOfBids ==
    ASSUME TypeOK, NEW b \in Bids
    PROVE  /\ bid[b] \in BidRows
           /\ bid[b].status \in BidStatus \cup {"NONE"}
           /\ bid[b].vendor \in Vendors \cup {NoBid}
           /\ bid[b].items \in SUBSET Items
           /\ bid[b].totalAmount \in Totals
           /\ bid[b].scores \in [Evaluators -> Scores \cup {Unscored}]
BY DEF TypeOK, BidRows

\* A handler's place in its code tells what it remembers.
LEMMA TypeOfOps ==
    ASSUME TypeOK, NEW c \in Clients
    PROVE  /\ op[c] \in Ops
           /\ op[c].pc = "idle" <=> op[c] = Idle
           /\ op[c].pc \in {"invite", "createBid"} => op[c].vendor \in Vendors
           /\ OnBid(op[c]) => op[c].b \in Bids
           /\ op[c].pc \in {"addItem", "removeItem"} => op[c].item \in Items
           /\ op[c].pc \in {"submit", "recalculated"} => op[c].total \in Totals
           /\ op[c].pc \in {"evaluate", "updateEvaluation"} =>
                 op[c].by \in Evaluators /\ op[c].score \in Scores
           /\ op[c].pc = "createOrder" => op[c].items \in SUBSET Items
<1>1. op[c] \in Ops
  BY DEF TypeOK
<1> QED
  BY <1>1 DEF Ops, Idle, OnBid, RFQOps

LEMMA OpsMade ==
    /\ Idle \in Ops
    /\ \A pc \in RFQOps : [pc |-> pc] \in Ops
    /\ \A v \in Vendors : [pc |-> "invite", vendor |-> v] \in Ops
    /\ \A b \in Bids, v \in Vendors : [pc |-> "createBid", b |-> b, vendor |-> v] \in Ops
    /\ \A b \in Bids, pc \in {"deleteBid", "withdraw", "recalculate", "award"} :
          [pc |-> pc, b |-> b] \in Ops
    /\ \A b \in Bids, i \in Items, pc \in {"addItem", "removeItem"} :
          [pc |-> pc, b |-> b, item |-> i] \in Ops
    /\ \A b \in Bids, t \in Totals, pc \in {"submit", "recalculated"} :
          [pc |-> pc, b |-> b, total |-> t] \in Ops
    /\ \A b \in Bids, e \in Evaluators, s \in Scores, pc \in {"evaluate", "updateEvaluation"} :
          [pc |-> pc, b |-> b, by |-> e, score |-> s] \in Ops
    /\ \A b \in Bids, S \in SUBSET Items : [pc |-> "createOrder", b |-> b, items |-> S] \in Ops
BY DEF Ops

LEMMA NothingCostsNothing == 0 \in Totals /\ NoBidRow \in BidRows /\ NoOrder \in Orders
<1>1. 0 \in Totals
  BY SumEmpty DEF Totals, calculateTotalCost
<1> QED
  BY <1>1 DEF NoBidRow, BidRows, NoOrder, Orders

LEMMA TypeBegin == ASSUME TypeOK, NEW c \in Clients, NEW o \in Ops, Begin(c, o) PROVE TypeOK'
BY DEF TypeOK, Begin, rows, history

LEMMA TypeStop == ASSUME TypeOK, NEW c \in Clients, Stop(c) PROVE TypeOK'
BY OpsMade DEF TypeOK, Stop, rows

LEMMA TypeCommit ==
    ASSUME TypeOK, NEW c \in Clients, NEW o \in Ops, NEW written, Commit(c, o, written)
    PROVE  /\ op' \in [Clients -> Ops]
           /\ overtaken' \in SUBSET Clients
           /\ staleCommit' \in BOOLEAN
BY DEF TypeOK, Commit, InFlight

LEMMA TypeWriteRFQ ==
    ASSUME TypeOK, NEW c \in Clients, NEW row \in RFQs, WriteRFQ(c, row)
    PROVE  TypeOK'
<1>1. Commit(c, Idle, {RFQRow}) /\ rfq' = row /\ bid' = bid /\ award' = award /\ order' = order
  BY DEF WriteRFQ
<1> QED
  BY <1>1, TypeCommit, OpsMade DEF TypeOK

LEMMA TypeWriteBid ==
    ASSUME TypeOK, NEW c \in Clients, NEW b \in Bids, NEW row \in BidRows, NEW o \in Ops,
           NEW written, WriteBid(c, b, row, o, written)
    PROVE  TypeOK'
<1>1. /\ Commit(c, o, written) /\ bid' = [bid EXCEPT ![b] = row]
      /\ rfq' = rfq /\ award' = award /\ order' = order
  BY DEF WriteBid
<1>2. bid' \in [Bids -> BidRows]
  BY <1>1 DEF TypeOK
<1> QED
  BY <1>1, <1>2, TypeCommit DEF TypeOK

LEMMA TypeInit == Init => TypeOK
<1>1. NoRFQ \in RFQs
  BY DEF NoRFQ, RFQs
<1> QED
  BY <1>1, NothingCostsNothing, OpsMade DEF Init, TypeOK

LEMMA TypeRFQ == ASSUME TypeOK, NEW c \in Clients, RFQNext(c) PROVE TypeOK'
<1>1. CASE createRFQ(c)
  <2>1. Commit(c, Idle, {RFQRow}) /\ bid' = bid /\ award' = award /\ order' = order
    BY <1>1 DEF createRFQ
  <2>2. rfq' \in RFQs
    BY <1>1 DEF createRFQ, NoRFQ, RFQs, RFQStatus
  <2> QED
    BY <2>1, <2>2, TypeCommit, OpsMade DEF TypeOK
<1>2. CASE \E pc \in RFQOps : Begin(c, [pc |-> pc])
  BY <1>2, OpsMade, TypeBegin
<1>3. CASE updateRead(c) \/ deleteRFQRead(c) \/ publishRead(c) \/ closeRead(c) \/ cancelRead(c)
  BY <1>2, <1>3 DEF updateRead, deleteRFQRead, publishRead, closeRead, cancelRead, RFQOps
<1>4. CASE inviteVendorRead(c)
  BY <1>4, OpsMade, TypeBegin DEF inviteVendorRead
<1>5. CASE update(c) \/ publish(c) \/ close(c) \/ cancel(c)
  <2>1. PICK row : WriteRFQ(c, row) /\ \/ row = [rfq EXCEPT !.open = TRUE]
                                       \/ \E st \in RFQStatus : row = [rfq EXCEPT !.status = st]
    BY <1>5 DEF update, publish, close, cancel, RFQStatus
  <2>2. row \in RFQs
    BY <2>1 DEF TypeOK, RFQs
  <2> QED
    BY <2>1, <2>2, TypeWriteRFQ
<1>6. CASE deleteRFQ(c)
  <2>1. /\ Commit(c, Idle, AllRows) /\ rfq' = NoRFQ /\ bid' = [b \in Bids |-> NoBidRow]
        /\ award' = NoBid /\ order' = NoOrder
    BY <1>6 DEF deleteRFQ
  <2>2. NoRFQ \in RFQs
    BY DEF NoRFQ, RFQs
  <2> QED
    BY <2>1, <2>2, TypeCommit, OpsMade, NothingCostsNothing DEF TypeOK
<1>7. CASE inviteVendor(c)
  <2>1. op[c].vendor \in Vendors
    BY <1>7, TypeOfOps DEF inviteVendor
  <2>2. [rfq EXCEPT !.invited = @ \cup {op[c].vendor}] \in RFQs
    BY <2>1 DEF TypeOK, RFQs
  <2> QED
    BY <1>7, <2>2, TypeWriteRFQ DEF inviteVendor
<1> QED
  BY <1>1, <1>3, <1>4, <1>5, <1>6, <1>7 DEF RFQNext

LEMMA TypeBid == ASSUME TypeOK, NEW c \in Clients, BidNext(c) PROVE TypeOK'
<1> DEFINE b == op[c].b
<1>1. CASE createBidRead(c)
  BY <1>1, OpsMade, TypeBegin DEF createBidRead, TypeOK, RFQs
<1>2. CASE deleteBidRead(c) \/ withdrawRead(c)
  BY <1>2, OpsMade, TypeBegin DEF deleteBidRead, withdrawRead
<1>3. CASE submitBidRead(c)
  BY <1>3, OpsMade, TypeBegin, TypeOfBids DEF submitBidRead
<1>4. CASE addItemRead(c)
  BY <1>4, OpsMade, TypeBegin DEF addItemRead, FreshItems
<1>5. CASE removeItemRead(c)
  BY <1>5, OpsMade, TypeBegin, TypeOfBids DEF removeItemRead
<1>6. CASE createBid(c)
  <2>1. b \in Bids /\ op[c].vendor \in Vendors
    BY <1>6, TypeOfOps DEF createBid, OnBid, RFQOps
  <2>2. [NoBidRow EXCEPT !.status = "DRAFT", !.vendor = op[c].vendor] \in BidRows
    BY <2>1, NothingCostsNothing DEF BidRows, BidStatus
  <2>3. /\ Commit(c, Idle, {BidsOf(op[c].vendor)}) /\ rfq' = rfq /\ award' = award /\ order' = order
        /\ bid' = [bid EXCEPT ![b] = [NoBidRow EXCEPT !.status = "DRAFT", !.vendor = op[c].vendor]]
    BY <1>6 DEF createBid
  <2> QED
    BY <2>1, <2>2, <2>3, TypeCommit, OpsMade DEF TypeOK
<1>7. CASE deleteBid(c)
  <2>1. PICK written : Commit(c, Idle, written)
    BY <1>7 DEF deleteBid
  <2>2. bid' = [bid EXCEPT ![b] = NoBidRow] /\ rfq' = rfq
    BY <1>7 DEF deleteBid
  <2>3. award' \in {award, NoBid} /\ order' \in {order, NoOrder}
    BY <1>7 DEF deleteBid
  <2> QED
    BY <2>1, <2>2, <2>3, TypeCommit, OpsMade, NothingCostsNothing DEF TypeOK
<1>8. ASSUME b \in Bids, NEW row \in BidRows, NEW o \in Ops, NEW written, WriteBid(c, b, row, o, written)
      PROVE  TypeOK'
  BY <1>8, TypeWriteBid
<1>9. ASSUME OnBid(op[c]) PROVE b \in Bids
  BY <1>9, TypeOfOps
<1>10. CASE submitBid(c)
  <2>1. b \in Bids /\ op[c].total \in Totals
    BY <1>9, <1>10, TypeOfOps DEF submitBid, OnBid, RFQOps
  <2>2. [bid[b] EXCEPT !.status = "SUBMITTED", !.totalAmount = op[c].total] \in BidRows
    BY <2>1, TypeOfBids DEF BidRows, BidStatus
  <2> QED
    BY <1>8, <1>10, <2>1, <2>2, OpsMade DEF submitBid
<1>11. CASE withdraw(c)
  <2>1. b \in Bids
    BY <1>9, <1>11 DEF withdraw, OnBid, RFQOps
  <2>2. [bid[b] EXCEPT !.status = "WITHDRAWN"] \in BidRows
    BY <2>1, TypeOfBids DEF BidRows, BidStatus
  <2> QED
    BY <1>8, <1>11, <2>1, <2>2, OpsMade DEF withdraw
<1>12. CASE addItem(c) \/ removeItem(c)
  <2>1. b \in Bids /\ op[c].item \in Items
    BY <1>9, <1>12, TypeOfOps DEF addItem, removeItem, OnBid, RFQOps
  <2>2. PICK S : /\ S \in {bid[b].items \cup {op[c].item}, bid[b].items \ {op[c].item}}
                 /\ WriteBid(c, b, [bid[b] EXCEPT !.items = S], [pc |-> "recalculate", b |-> b],
                             {BidRow(b)})
    BY <1>12 DEF addItem, removeItem
  <2>3. S \in SUBSET Items
    BY <2>1, <2>2, TypeOfBids
  <2>4. [bid[b] EXCEPT !.items = S] \in BidRows
    BY <2>1, <2>3, TypeOfBids DEF BidRows
  <2> QED
    BY <1>8, <2>1, <2>2, <2>4, OpsMade
<1>13. CASE recalculateTotalRead(c)
  <2>1. b \in Bids
    BY <1>9, <1>13 DEF recalculateTotalRead, OnBid, RFQOps
  <2>2. calculateTotalCost(bid[b].items) \in Totals
    BY <2>1, TypeOfBids DEF Totals
  <2> DEFINE o == [pc |-> "recalculated", b |-> b, total |-> calculateTotalCost(bid[b].items)]
  <2>3. o \in Ops
    BY <2>1, <2>2, OpsMade
  <2>4. /\ op' = [op EXCEPT ![c] = o] /\ overtaken' = overtaken \ {c}
        /\ rfq' = rfq /\ bid' = bid /\ award' = award /\ order' = order /\ staleCommit' = staleCommit
    BY <1>13 DEF recalculateTotalRead, rows
  <2> HIDE DEF o
  <2> QED
    BY <2>3, <2>4 DEF TypeOK
<1>14. CASE recalculateTotal(c)
  <2>1. b \in Bids /\ op[c].total \in Totals
    BY <1>9, <1>14, TypeOfOps DEF recalculateTotal, OnBid, RFQOps
  <2>2. [bid[b] EXCEPT !.totalAmount = op[c].total] \in BidRows
    BY <2>1, TypeOfBids DEF BidRows
  <2> QED
    BY <1>8, <1>14, <2>1, <2>2, OpsMade DEF recalculateTotal
<1> QED
  BY <1>1, <1>2, <1>3, <1>4, <1>5, <1>6, <1>7, <1>10, <1>11, <1>12, <1>13, <1>14 DEF BidNext

LEMMA TypeAward == ASSUME TypeOK, NEW c \in Clients, AwardNext(c) PROVE TypeOK'
<1> DEFINE b == op[c].b
<1>1. CASE createEvaluationRead(c) \/ updateEvaluationRead(c)
  BY <1>1, OpsMade, TypeBegin DEF createEvaluationRead, updateEvaluationRead
<1>2. CASE awardBidRead(c)
  BY <1>2, OpsMade, TypeBegin DEF awardBidRead
<1>3. CASE createOrderRead(c)
  <2>1. award \in Bids
    BY <1>3 DEF createOrderRead, TypeOK
  <2> QED
    BY <1>3, <2>1, OpsMade, TypeBegin, TypeOfBids DEF createOrderRead
<1>4. CASE createEvaluation(c) \/ updateEvaluation(c)
  <2>1. b \in Bids /\ op[c].by \in Evaluators /\ op[c].score \in Scores
    BY <1>4, TypeOfOps DEF createEvaluation, updateEvaluation, OnBid, RFQOps
  <2>2. [bid[b] EXCEPT !.scores[op[c].by] = op[c].score] \in BidRows
    BY <2>1, TypeOfBids DEF BidRows
  <2>3. WriteBid(c, b, [bid[b] EXCEPT !.scores[op[c].by] = op[c].score], Idle, {ScoresOf(b)})
    BY <1>4 DEF createEvaluation, updateEvaluation
  <2> QED
    BY <2>1, <2>2, <2>3, OpsMade, TypeWriteBid
<1>5. CASE awardBid(c)
  <2>1. b \in Bids
    BY <1>5, TypeOfOps DEF awardBid, OnBid, RFQOps
  <2>2. PICK written : Commit(c, Idle, written)
    BY <1>5 DEF awardBid
  <2>3. /\ award' = b /\ bid' = [bid EXCEPT ![b].status = "AWARDED"]
        /\ rfq' = rfq /\ order' = order
    BY <1>5 DEF awardBid
  <2>4. [bid[b] EXCEPT !.status = "AWARDED"] \in BidRows
    BY <2>1, TypeOfBids DEF BidRows, BidStatus
  <2>5. bid' \in [Bids -> BidRows]
    BY <2>1, <2>3, <2>4 DEF TypeOK
  <2> QED
    BY <2>1, <2>2, <2>3, <2>5, TypeCommit, OpsMade DEF TypeOK
<1>6. CASE createOrder(c)
  <2>1. op[c].items \in SUBSET Items
    BY <1>6, TypeOfOps DEF createOrder
  <2>2. order' \in Orders
    BY <1>6, <2>1 DEF createOrder, Orders, Totals
  <2>3. Commit(c, Idle, {OrderRow}) /\ rfq' = rfq /\ bid' = bid /\ award' = award
    BY <1>6 DEF createOrder
  <2> QED
    BY <2>2, <2>3, TypeCommit, OpsMade DEF TypeOK
<1> QED
  BY <1>1, <1>2, <1>3, <1>4, <1>5, <1>6 DEF AwardNext

LEMMA TypeNext == ASSUME TypeOK, Next PROVE TypeOK'
<1>1. CASE ClosingDatePasses
  BY <1>1 DEF ClosingDatePasses, history, TypeOK, RFQs
<1>2. ASSUME NEW c \in Clients, WriteFails(c) \/ Crash(c) PROVE TypeOK'
  BY <1>2, TypeStop DEF WriteFails, Crash
<1> QED
  BY <1>1, <1>2, TypeRFQ, TypeBid, TypeAward DEF Next

\* The tables, the handlers and the history variables keep their types, for every
\* price list: the totals that are written are totals of a bid's items.
THEOREM TypeCorrect == Spec => []TypeOK
<1>1. TypeOK /\ UNCHANGED vars => TypeOK'
  BY DEF TypeOK, vars
<1> QED
  BY <1>1, TypeInit, TypeNext, PTL DEF Spec

(***************************************************************************)
(* Under any overlap.                                                      *)
(***************************************************************************)
\* The bids go with the RFQ, and a bid that is gone leaves nothing behind.
BidsInv == /\ ~RFQExists => \A b \in Bids : ~BidExists(b)
           /\ \A b \in Bids : ~BidExists(b) => bid[b] = NoBidRow

\* Whoever is creating a bid is the only one to know it; whoever is awarding one
\* has seen an evaluation of it, and no evaluation is ever taken back.
HandlersInv ==
    \A c \in Clients :
        /\ op[c].pc = "createBid" =>
              /\ ~BidExists(op[c].b)
              /\ \A d \in Clients \ {c} : OnBid(op[d]) => op[d].b # op[c].b
        /\ op[c].pc = "award" /\ BidExists(op[c].b) => Evaluated(op[c].b)

RowsInv == BidsInv /\ HandlersInv /\ AwardNamesTheWinner

\* What a handler at o has read and relies on when it writes.
Truth(o) ==
    /\ o.pc = "deleteRFQ" => rfq.status = "DRAFT"
    /\ o.pc = "createBid" =>
          rfq.status = "PUBLISHED" /\ o.vendor \in rfq.invited /\ ActiveBids(o.vendor) = {}
    /\ o.pc \in {"deleteBid", "addItem", "removeItem"} => bid[o.b].status = "DRAFT"
    /\ o.pc = "submit" => /\ rfq.status = "PUBLISHED"
                          /\ bid[o.b].status = "DRAFT" /\ amountsMatch(o.b)
                          /\ o.total = bid[o.b].totalAmount
    /\ o.pc = "withdraw" => /\ bid[o.b].status = "SUBMITTED"
                            /\ rfq.status \notin {"CLOSED", "CANCELLED"}
    /\ o.pc = "recalculated" => o.total = calculateTotalCost(bid[o.b].items)
    /\ o.pc \in {"evaluate", "award"} => bid[o.b].status = "SUBMITTED"
    /\ o.pc = "updateEvaluation" => bid[o.b].status # "AWARDED"
    /\ o.pc = "createOrder" => o.items = bid[o.b].items

\* A handler begins with a bid that is there, or with one that nobody knows.
Begins(o) == /\ o.pc = "createBid" => ~BidExists(o.b) /\ o.b \notin Remembered
             /\ OnBid(o) /\ o.pc # "createBid" => BidExists(o.b)
             /\ o.pc = "award" => Evaluated(o.b)

Reads(c) == \/ updateRead(c) \/ deleteRFQRead(c) \/ publishRead(c) \/ closeRead(c) \/ cancelRead(c)
            \/ inviteVendorRead(c)
            \/ createBidRead(c) \/ deleteBidRead(c) \/ submitBidRead(c) \/ withdrawRead(c)
            \/ addItemRead(c) \/ removeItemRead(c)
            \/ createEvaluationRead(c) \/ updateEvaluationRead(c)
            \/ awardBidRead(c) \/ createOrderRead(c)

\* What a handler has just read is the truth.
LEMMA ReadsTheTruth ==
    ASSUME TypeOK, BidsInv, AwardNamesTheWinner, NEW c \in Clients, Reads(c)
    PROVE  \E o : Begin(c, o) /\ Truth(o) /\ Begins(o)
<1>1. CASE updateRead(c) \/ deleteRFQRead(c) \/ publishRead(c) \/ closeRead(c) \/ cancelRead(c)
  <2>1. PICK pc \in RFQOps : /\ Begin(c, [pc |-> pc])
                             /\ pc = "deleteRFQ" => rfq.status = "DRAFT"
    BY <1>1 DEF updateRead, deleteRFQRead, publishRead, closeRead, cancelRead, RFQOps
  <2> DEFINE o == [pc |-> pc]
  <2>2. Truth(o) /\ Begins(o)
    BY <2>1 DEF RFQOps, Truth, Begins, OnBid
  <2> QED
    BY <2>1, <2>2
<1>2. CASE inviteVendorRead(c)
  <2>1. PICK v \in Vendors : Begin(c, [pc |-> "invite", vendor |-> v])
    BY <1>2 DEF inviteVendorRead
  <2> DEFINE o == [pc |-> "invite", vendor |-> v]
  <2>2. Truth(o) /\ Begins(o)
    BY DEF Truth, Begins, OnBid
  <2> QED
    BY <2>1, <2>2
<1>3. CASE createBidRead(c)
  <2>1. PICK v \in rfq.invited, b \in Bids \ Remembered :
             /\ assertRfqOpen /\ ~BidExists(b) /\ ActiveBids(v) = {}
             /\ Begin(c, [pc |-> "createBid", b |-> b, vendor |-> v])
    BY <1>3 DEF createBidRead
  <2> DEFINE o == [pc |-> "createBid", b |-> b, vendor |-> v]
  <2>2. Truth(o) /\ Begins(o)
    BY <2>1 DEF Truth, Begins, OnBid, assertRfqOpen
  <2> QED
    BY <2>1, <2>2
<1>4. CASE deleteBidRead(c) \/ withdrawRead(c)
  <2>1. PICK b \in Bids, pc \in {"deleteBid", "withdraw"} :
             /\ Begin(c, [pc |-> pc, b |-> b])
             /\ pc = "deleteBid" => bid[b].status = "DRAFT"
             /\ pc = "withdraw" => /\ bid[b].status = "SUBMITTED"
                                   /\ rfq.status \notin {"CLOSED", "CANCELLED"}
    BY <1>4 DEF deleteBidRead, withdrawRead, assertDraftOwner, isRfqClosed
  <2> DEFINE o == [pc |-> pc, b |-> b]
  <2>2. Truth(o) /\ Begins(o)
    BY <2>1 DEF Truth, Begins, OnBid, BidExists
  <2> QED
    BY <2>1, <2>2
<1>5. CASE submitBidRead(c)
  <2>1. PICK b \in Bids : /\ assertDraftOwner(b) /\ assertRfqOpen /\ amountsMatch(b)
                          /\ Begin(c, [pc |-> "submit", b |-> b, total |-> bid[b].totalAmount])
    BY <1>5 DEF submitBidRead
  <2> DEFINE o == [pc |-> "submit", b |-> b, total |-> bid[b].totalAmount]
  <2>2. Truth(o) /\ Begins(o)
    BY <2>1 DEF Truth, Begins, OnBid, BidExists, assertDraftOwner, assertRfqOpen
  <2> QED
    BY <2>1, <2>2
<1>6. CASE addItemRead(c) \/ removeItemRead(c)
  <2>1. PICK b, i, pc : /\ assertDraftOwner(b) /\ pc \in {"addItem", "removeItem"}
                        /\ Begin(c, [pc |-> pc, b |-> b, item |-> i])
    BY <1>6 DEF addItemRead, removeItemRead
  <2> DEFINE o == [pc |-> pc, b |-> b, item |-> i]
  <2>2. Truth(o) /\ Begins(o)
    BY <2>1 DEF Truth, Begins, OnBid, BidExists, assertDraftOwner
  <2> QED
    BY <2>1, <2>2
<1>7. CASE createEvaluationRead(c) \/ updateEvaluationRead(c)
  <2>1. PICK b \in Bids, e \in Evaluators, s \in Scores, pc \in {"evaluate", "updateEvaluation"} :
             /\ Begin(c, [pc |-> pc, b |-> b, by |-> e, score |-> s])
             /\ pc = "evaluate" => bid[b].status = "SUBMITTED"
             /\ pc = "updateEvaluation" => bid[b].status # "AWARDED" /\ bid[b].scores[e] # Unscored
    BY <1>7 DEF createEvaluationRead, updateEvaluationRead
  <2> DEFINE o == [pc |-> pc, b |-> b, by |-> e, score |-> s]
  <2>2. BidExists(b)
    BY <2>1 DEF BidsInv, BidExists, NoBidRow
  <2>3. Truth(o) /\ Begins(o)
    BY <2>1, <2>2 DEF Truth, Begins, OnBid
  <2> QED
    BY <2>1, <2>3
<1>8. CASE awardBidRead(c)
  <2>1. PICK b \in Bids : /\ bid[b].status = "SUBMITTED" /\ Evaluated(b)
                          /\ Begin(c, [pc |-> "award", b |-> b])
    BY <1>8 DEF awardBidRead
  <2> DEFINE o == [pc |-> "award", b |-> b]
  <2>2. Truth(o) /\ Begins(o)
    BY <2>1 DEF Truth, Begins, OnBid, BidExists
  <2> QED
    BY <2>1, <2>2
<1>9. CASE createOrderRead(c)
  <2> DEFINE o == [pc |-> "createOrder", b |-> award, items |-> bid[award].items]
  <2>1. Begin(c, o) /\ BidExists(award)
    BY <1>9 DEF createOrderRead, BidExists
  <2>2. Truth(o) /\ Begins(o)
    BY <2>1 DEF Truth, Begins, OnBid
  <2> QED
    BY <2>1, <2>2
<1> QED
  BY <1>1, <1>2, <1>3, <1>4, <1>5, <1>6, <1>7, <1>8, <1>9 DEF Reads

\* What a step of c may do to the bids: only the handler that creates a bid brings
\* it about, and nobody takes an evaluation back.
Evolves(c) == \A b \in Bids :
                 BidExists(b)' => \/ op[c].pc = "createBid" /\ b = op[c].b
                                  \/ BidExists(b) /\ (Evaluated(b) => Evaluated(b)')

\* A handler goes on with the bid it had, or ends.
Continues(c, o) == /\ o.pc \notin {"createBid", "award"}
                   /\ OnBid(o) => OnBid(op[c]) /\ op[c].pc # "createBid" /\ o.b = op[c].b

LEMMA HandlersContinue ==
    ASSUME TypeOK, HandlersInv, NEW c \in Clients, NEW o, op' = [op EXCEPT ![c] = o],
           Continues(c, o), Evolves(c)
    PROVE  HandlersInv'
<1>1. op'[c] = o /\ \A d \in Clients \ {c} : op'[d] = op[d]
  BY DEF TypeOK
<1>2. ASSUME NEW d \in Clients, op'[d].pc = "createBid"
      PROVE  /\ bid'[op'[d].b].status = "NONE"
             /\ \A e \in Clients \ {d} : OnBid(op'[e]) => op'[e].b # op'[d].b
  <2>1. d # c /\ op'[d] = op[d]
    BY <1>1, <1>2 DEF Continues
  <2>2. op[d].b \in Bids /\ OnBid(op[d])
    BY <1>2, <2>1, TypeOfOps DEF OnBid, RFQOps
  <2>3. ~BidExists(op[d].b) /\ \A e \in Clients \ {d} : OnBid(op[e]) => op[e].b # op[d].b
    BY <1>2, <2>1 DEF HandlersInv
  <2>4. op[c].pc = "createBid" => op[c].b # op[d].b
    BY <2>1, <2>3 DEF OnBid, RFQOps
  <2>5. bid'[op[d].b].status = "NONE"
    BY <2>2, <2>3, <2>4 DEF Evolves, BidExists
  <2>6. ASSUME NEW e \in Clients \ {d}, OnBid(op'[e]) PROVE op'[e].b # op[d].b
    <3>1. CASE e = c
      BY <1>1, <2>1, <2>3, <2>6, <3>1 DEF Continues
    <3>2. CASE e # c
      BY <1>1, <2>3, <2>6, <3>2
    <3> QED
      BY <3>1, <3>2
  <2> QED
    BY <2>1, <2>5, <2>6
<1>3. ASSUME NEW d \in Clients, op'[d].pc = "award", bid'[op'[d].b].status # "NONE"
      PROVE  \E e \in Evaluators : bid'[op'[d].b].scores[e] # Unscored
  <2>1. d # c /\ op'[d] = op[d]
    BY <1>1, <1>3 DEF Continues
  <2>2. op[d].b \in Bids /\ OnBid(op[d])
    BY <1>3, <2>1, TypeOfOps DEF OnBid, RFQOps
  <2>3. op[c].pc = "createBid" => op[c].b # op[d].b
    BY <2>1, <2>2 DEF HandlersInv
  <2>4. PICK b \in Bids : b = op[d].b
    BY <2>2
  <2>5. BidExists(b) /\ (Evaluated(b) => Evaluated(b)')
    BY <1>3, <2>1, <2>3, <2>4 DEF Evolves, BidExists
  <2>6. Evaluated(b)
    BY <1>3, <2>1, <2>4, <2>5 DEF HandlersInv
  <2> QED
    BY <2>1, <2>4, <2>5, <2>6 DEF Evaluated
<1> QED
  BY <1>2, <1>3 DEF HandlersInv, BidExists, Evaluated, OnBid

LEMMA HandlersBegin ==
    ASSUME TypeOK, HandlersInv, NEW c \in Clients, NEW o, Begin(c, o), Begins(o)
    PROVE  HandlersInv'
<1>1. /\ op'[c] = o /\ bid' = bid /\ op[c] = Idle
      /\ \A d \in Clients \ {c} : op'[d] = op[d]
  BY DEF TypeOK, Begin, rows
<1>2. \A d \in Clients : op[d].pc = "createBid" => ~BidExists(op[d].b) /\ OnBid(op[d])
  BY DEF HandlersInv, OnBid, RFQOps
<1>3. ASSUME NEW d \in Clients, op'[d].pc = "createBid"
      PROVE  /\ ~BidExists(op'[d].b)
             /\ \A e \in Clients \ {d} : OnBid(op'[e]) => op'[e].b # op'[d].b
  <2>1. CASE d = c
    BY <1>1, <1>3, <2>1 DEF Begins, Remembered
  <2>2. CASE d # c
    <3>1. op'[d] = op[d] /\ op[d].pc = "createBid"
      BY <1>1, <1>3, <2>2
    <3>2. ~BidExists(op[d].b) /\ op[d].b \in Remembered
      BY <1>2, <3>1 DEF Remembered
    <3>3. OnBid(o) => o.b # op[d].b
      BY <3>2 DEF Begins
    <3>4. \A e \in Clients \ {d} : OnBid(op[e]) => op[e].b # op[d].b
      BY <3>1 DEF HandlersInv
    <3> QED
      BY <1>1, <3>1, <3>2, <3>3, <3>4
  <2> QED
    BY <2>1, <2>2
<1>4. ASSUME NEW d \in Clients, op'[d].pc = "award", BidExists(op'[d].b)
      PROVE  Evaluated(op'[d].b)
  BY <1>1, <1>4 DEF Begins, HandlersInv
<1> QED
  BY <1>1, <1>3, <1>4 DEF HandlersInv, BidExists, Evaluated, OnBid

(***************************************************************************)
(* What the other steps do to the bids.                                    *)
(***************************************************************************)
\* A step that writes no bid.
LEMMA BidsUntouched ==
    ASSUME TypeOK, BidsInv, HandlersInv, NEW c \in Clients, NEW o, op' = [op EXCEPT ![c] = o],
           Continues(c, o), bid' = bid, RFQExists => RFQExists'
    PROVE  BidsInv' /\ HandlersInv'
<1>1. Evolves(c)
  BY DEF Evolves, BidExists, Evaluated
<1>2. BidsInv'
  BY DEF BidsInv, BidExists, RFQExists
<1> QED
  BY <1>1, <1>2, HandlersContinue

\* A bid that is there is written: it stays there, with its evaluations, and it is
\* awarded only if it was.
LEMMA BidWritten ==
    ASSUME TypeOK, RowsInv, NEW c \in Clients, NEW b \in Bids, NEW row \in BidRows, NEW o, NEW written,
           WriteBid(c, b, row, o, written), Continues(c, o),
           row.status \in {"DRAFT", "SUBMITTED", "WITHDRAWN", bid[b].status},
           \A e \in Evaluators : bid[b].scores[e] # Unscored => row.scores[e] # Unscored
    PROVE  RowsInv'
<1>1. /\ op' = [op EXCEPT ![c] = o] /\ BidExists(b)
      /\ bid'[b] = row /\ \A a \in Bids \ {b} : bid'[a] = bid[a]
      /\ rfq' = rfq /\ award' = award /\ order' = order
  BY DEF WriteBid, Commit, TypeOK
<1>2. \A a \in Bids : /\ BidExists(a)' <=> BidExists(a)
                      /\ Evaluated(a) => Evaluated(a)'
  BY <1>1 DEF BidExists, Evaluated
<1>3. HandlersInv'
  BY <1>1, <1>2, HandlersContinue DEF RowsInv, Evolves
<1>4. BidsInv'
  BY <1>1, <1>2 DEF RowsInv, BidsInv, RFQExists, BidExists
<1>5. AwardNamesTheWinner'
  <2>1. \A a \in Bids : bid'[a].status = "AWARDED" => bid[a].status = "AWARDED"
    BY <1>1
  <2>2. award # NoBid => BidExists(award)' /\ Evaluated(award)'
    BY <1>1, <1>2 DEF RowsInv, AwardNamesTheWinner, TypeOK, BidExists, Evaluated
  <2> QED
    BY <1>1, <2>1, <2>2 DEF RowsInv, AwardNamesTheWinner
<1> QED
  BY <1>3, <1>4, <1>5 DEF RowsInv

\* A step that writes neither a bid nor the award.
LEMMA RowsUntouched ==
    ASSUME TypeOK, RowsInv, NEW c \in Clients, NEW o, op' = [op EXCEPT ![c] = o], Continues(c, o),
           bid' = bid, award' = award, RFQExists => RFQExists',
           order'.status # "NONE" => award # NoBid
    PROVE  RowsInv'
<1>1. AwardNamesTheWinner'
  BY DEF RowsInv, AwardNamesTheWinner, BidExists, Evaluated
<1> QED
  BY <1>1, BidsUntouched DEF RowsInv

LEMMA IdleContinues == \A c \in Clients : Continues(c, Idle)
BY DEF Continues, Idle, OnBid

LEMMA RowsReads ==
    ASSUME TypeOK, RowsInv, NEW c \in Clients, Reads(c)
    PROVE  RowsInv'
<1>1. PICK o : Begin(c, o) /\ Begins(o)
  BY ReadsTheTruth DEF RowsInv
<1>2. HandlersInv'
  BY <1>1, HandlersBegin DEF RowsInv
<1>3. rfq' = rfq /\ bid' = bid /\ award' = award /\ order' = order
  BY <1>1 DEF Begin, rows
<1> QED
  BY <1>2, <1>3 DEF RowsInv, BidsInv, AwardNamesTheWinner, BidExists, RFQExists, Evaluated

LEMMA RowsStop == ASSUME TypeOK, RowsInv, NEW c \in Clients, Stop(c) PROVE RowsInv'
<1>1. op' = [op EXCEPT ![c] = Idle] /\ rfq' = rfq /\ bid' = bid /\ award' = award /\ order' = order
  BY DEF Stop, rows
<1>2. order'.status # "NONE" => award # NoBid
  BY <1>1 DEF RowsInv, AwardNamesTheWinner
<1> QED
  BY <1>1, <1>2, IdleContinues, RowsUntouched DEF RFQExists

LEMMA RowsRFQ ==
    ASSUME TypeOK, RowsInv, NEW c \in Clients,
           createRFQ(c) \/ update(c) \/ publish(c) \/ close(c) \/ cancel(c) \/ inviteVendor(c)
    PROVE  RowsInv'
<1>1. /\ op' = [op EXCEPT ![c] = Idle] /\ bid' = bid /\ award' = award /\ order' = order
      /\ rfq'.status # "NONE"
  <2>1. CASE createRFQ(c)
    BY <2>1 DEF createRFQ, Commit, NoRFQ
  <2>2. CASE update(c) \/ publish(c) \/ close(c) \/ cancel(c) \/ inviteVendor(c)
    BY <2>2 DEF update, publish, close, cancel, inviteVendor, WriteRFQ, Commit, TypeOK, RFQs, RFQExists
  <2> QED
    BY <2>1, <2>2
<1>2. order'.status # "NONE" => award # NoBid
  BY <1>1 DEF RowsInv, AwardNamesTheWinner
<1> QED
  BY <1>1, <1>2, IdleContinues, RowsUntouched DEF RFQExists

LEMMA RowsDeleteRFQ == ASSUME TypeOK, RowsInv, NEW c \in Clients, deleteRFQ(c) PROVE RowsInv'
<1>1. /\ op' = [op EXCEPT ![c] = Idle] /\ bid' = [b \in Bids |-> NoBidRow] /\ award' = NoBid
      /\ order' = NoOrder
  BY DEF deleteRFQ, Commit
<1>2. \A b \in Bids : ~BidExists(b)' /\ bid'[b] = NoBidRow
  BY <1>1 DEF BidExists, NoBidRow
<1>3. BidsInv'
  BY <1>2 DEF BidsInv
<1>4. HandlersInv'
  BY <1>1, <1>2, IdleContinues, HandlersContinue DEF RowsInv, Evolves
<1>5. AwardNamesTheWinner'
  BY <1>1, <1>2 DEF AwardNamesTheWinner, NoBidRow, NoOrder
<1> QED
  BY <1>3, <1>4, <1>5 DEF RowsInv

LEMMA RowsCreateBid == ASSUME TypeOK, RowsInv, NEW c \in Clients, createBid(c) PROVE RowsInv'
<1>1. op[c].b \in Bids
  BY TypeOfOps DEF createBid, OnBid, RFQOps
<1>2. PICK b \in Bids : b = op[c].b
  BY <1>1
<1>3. /\ op' = [op EXCEPT ![c] = Idle] /\ rfq' = rfq /\ award' = award /\ order' = order
      /\ RFQExists /\ op[c].pc = "createBid"
      /\ bid'[b].status = "DRAFT" /\ \A a \in Bids \ {b} : bid'[a] = bid[a]
  BY <1>2 DEF createBid, Commit, TypeOK, NoBidRow
<1>4. ~BidExists(b)
  BY <1>2, <1>3 DEF RowsInv, HandlersInv
<1>5. BidsInv'
  BY <1>3 DEF RowsInv, BidsInv, RFQExists, BidExists
<1>6. Evolves(c)
  BY <1>2, <1>3 DEF Evolves, BidExists, Evaluated
<1>7. HandlersInv'
  BY <1>3, <1>6, IdleContinues, HandlersContinue DEF RowsInv
<1>8. AwardNamesTheWinner'
  BY <1>3, <1>4 DEF RowsInv, AwardNamesTheWinner, BidExists, Evaluated, TypeOK
<1> QED
  BY <1>5, <1>7, <1>8 DEF RowsInv

LEMMA RowsDeleteBid == ASSUME TypeOK, RowsInv, NEW c \in Clients, deleteBid(c) PROVE RowsInv'
<1>1. op[c].b \in Bids
  BY TypeOfOps DEF deleteBid, OnBid, RFQOps
<1>2. PICK b \in Bids : b = op[c].b
  BY <1>1
<1>3. /\ op' = [op EXCEPT ![c] = Idle] /\ rfq' = rfq /\ BidExists(b)
      /\ bid'[b] = NoBidRow /\ \A a \in Bids \ {b} : bid'[a] = bid[a]
      /\ \/ award = b /\ award' = NoBid /\ order' = NoOrder
         \/ award # b /\ award' = award /\ order' = order
  BY <1>2 DEF deleteBid, Commit, TypeOK
<1>4. BidsInv'
  BY <1>3 DEF RowsInv, BidsInv, RFQExists, BidExists, NoBidRow
<1>5. Evolves(c)
  BY <1>3 DEF Evolves, BidExists, Evaluated, NoBidRow
<1>6. HandlersInv'
  BY <1>3, <1>5, IdleContinues, HandlersContinue DEF RowsInv
<1>7. \A a \in Bids : bid'[a].status = "AWARDED" => a # b /\ bid[a].status = "AWARDED"
  BY <1>3 DEF NoBidRow
<1>8. CASE award = b
  <2>1. award' = NoBid /\ order'.status = "NONE"
    BY <1>3, <1>8, IdentityAssumption DEF NoOrder
  <2>2. \A a \in Bids : bid'[a].status # "AWARDED"
    BY <1>7, <1>8 DEF RowsInv, AwardNamesTheWinner
  <2> QED
    BY <1>4, <1>6, <2>1, <2>2 DEF RowsInv, AwardNamesTheWinner
<1>9. CASE award # b
  <2>1. award' = award /\ order' = order /\ (award # NoBid => bid'[award] = bid[award])
    BY <1>3, <1>9 DEF TypeOK
  <2>2. AwardNamesTheWinner'
    BY <1>7, <2>1 DEF RowsInv, AwardNamesTheWinner, BidExists, Evaluated
  <2> QED
    BY <1>4, <1>6, <2>2 DEF RowsInv
<1> QED
  BY <1>8, <1>9

LEMMA RowsWriteBid ==
    ASSUME TypeOK, RowsInv, NEW c \in Clients,
           \/ submitBid(c) \/ withdraw(c) \/ addItem(c) \/ removeItem(c) \/ recalculateTotal(c)
           \/ createEvaluation(c) \/ updateEvaluation(c)
    PROVE  RowsInv'
<1>1. op[c].b \in Bids /\ OnBid(op[c]) /\ op[c].pc # "createBid"
  BY TypeOfOps DEF submitBid, withdraw, addItem, removeItem, recalculateTotal, createEvaluation,
                   updateEvaluation, OnBid, RFQOps
<1>2. PICK b \in Bids : b = op[c].b
  BY <1>1
<1>3. ASSUME NEW row \in BidRows, NEW o \in {Idle, [pc |-> "recalculate", b |-> b]}, NEW written,
             WriteBid(c, b, row, o, written),
             row.status \in {"DRAFT", "SUBMITTED", "WITHDRAWN", bid[b].status},
             \A e \in Evaluators : bid[b].scores[e] # Unscored => row.scores[e] # Unscored
      PROVE  RowsInv'
  <2>1. Continues(c, o)
    BY <1>1, <1>2 DEF Continues, Idle, OnBid
  <2> QED
    BY <1>3, <2>1, BidWritten
<1>4. CASE submitBid(c)
  <2> DEFINE row == [bid[b] EXCEPT !.status = "SUBMITTED", !.totalAmount = op[c].total]
  <2>1. PICK written : WriteBid(c, b, row, Idle, written)
    BY <1>2, <1>4 DEF submitBid
  <2>2. row \in BidRows /\ row.status = "SUBMITTED" /\ row.scores = bid[b].scores
    BY <1>4, TypeOfBids, TypeOfOps DEF submitBid, BidRows, BidStatus
  <2> HIDE DEF row
  <2> QED
    BY <1>3, <2>1, <2>2
<1>5. CASE withdraw(c)
  <2> DEFINE row == [bid[b] EXCEPT !.status = "WITHDRAWN"]
  <2>1. PICK written : WriteBid(c, b, row, Idle, written)
    BY <1>2, <1>5 DEF withdraw
  <2>2. row \in BidRows /\ row.status = "WITHDRAWN" /\ row.scores = bid[b].scores
    BY TypeOfBids DEF BidRows, BidStatus
  <2> HIDE DEF row
  <2> QED
    BY <1>3, <2>1, <2>2
<1>6. CASE addItem(c) \/ removeItem(c)
  <2>1. op[c].item \in Items
    BY <1>6, TypeOfOps DEF addItem, removeItem
  <2>2. PICK S : /\ S \in {bid[b].items \cup {op[c].item}, bid[b].items \ {op[c].item}}
                 /\ WriteBid(c, b, [bid[b] EXCEPT !.items = S], [pc |-> "recalculate", b |-> b],
                             {BidRow(b)})
    BY <1>2, <1>6 DEF addItem, removeItem
  <2> DEFINE row == [bid[b] EXCEPT !.items = S]
  <2>3. row \in BidRows /\ row.status = bid[b].status /\ row.scores = bid[b].scores
    BY <2>1, <2>2, TypeOfBids DEF BidRows
  <2>4. WriteBid(c, b, row, [pc |-> "recalculate", b |-> b], {BidRow(b)})
    BY <2>2
  <2> HIDE DEF row
  <2> QED
    BY <1>3, <2>3, <2>4
<1>7. CASE recalculateTotal(c)
  <2> DEFINE row == [bid[b] EXCEPT !.totalAmount = op[c].total]
  <2>1. WriteBid(c, b, row, Idle, {BidRow(b)})
    BY <1>2, <1>7 DEF recalculateTotal
  <2>2. row \in BidRows /\ row.status = bid[b].status /\ row.scores = bid[b].scores
    BY <1>7, TypeOfBids, TypeOfOps DEF recalculateTotal, BidRows
  <2> HIDE DEF row
  <2> QED
    BY <1>3, <2>1, <2>2
<1>8. CASE createEvaluation(c) \/ updateEvaluation(c)
  <2> DEFINE row == [bid[b] EXCEPT !.scores[op[c].by] = op[c].score]
  <2>1. WriteBid(c, b, row, Idle, {ScoresOf(b)})
    BY <1>2, <1>8 DEF createEvaluation, updateEvaluation
  <2>2. op[c].by \in Evaluators /\ op[c].score \in Scores
    BY <1>8, TypeOfOps DEF createEvaluation, updateEvaluation
  <2>3. row \in BidRows /\ row.status = bid[b].status
    BY <2>2, TypeOfBids DEF BidRows
  <2>4. \A e \in Evaluators : bid[b].scores[e] # Unscored => row.scores[e] # Unscored
    BY <2>2, TypeOfBids, IdentityAssumption DEF BidRows
  <2> HIDE DEF row
  <2> QED
    BY <1>3, <2>1, <2>3, <2>4
<1> QED
  BY <1>4, <1>5, <1>6, <1>7, <1>8

LEMMA RowsRecalculate ==
    ASSUME TypeOK, RowsInv, NEW c \in Clients, recalculateTotalRead(c)
    PROVE  RowsInv'
<1> DEFINE o == [pc |-> "recalculated", b |-> op[c].b, total |-> calculateTotalCost(bid[op[c].b].items)]
<1>1. /\ op' = [op EXCEPT ![c] = o] /\ rfq' = rfq /\ bid' = bid /\ award' = award /\ order' = order
      /\ op[c].pc = "recalculate"
  BY DEF recalculateTotalRead, rows
<1>2. Continues(c, o)
  BY <1>1 DEF Continues, OnBid, RFQOps
<1>3. order'.status # "NONE" => award # NoBid
  BY <1>1 DEF RowsInv, AwardNamesTheWinner
<1> HIDE DEF o
<1> QED
  BY <1>1, <1>2, <1>3, RowsUntouched DEF RFQExists

LEMMA RowsAward == ASSUME TypeOK, RowsInv, NEW c \in Clients, awardBid(c) PROVE RowsInv'
<1>1. op[c].b \in Bids
  BY TypeOfOps DEF awardBid, OnBid, RFQOps
<1>2. PICK b \in Bids : b = op[c].b
  BY <1>1
<1>3. /\ op' = [op EXCEPT ![c] = Idle] /\ rfq' = rfq /\ order' = order /\ op[c].pc = "award"
      /\ award = NoBid /\ award' = b /\ BidExists(b)
      /\ bid'[b].status = "AWARDED" /\ bid'[b].scores = bid[b].scores
      /\ \A a \in Bids \ {b} : bid'[a] = bid[a]
  BY <1>2, TypeOfBids DEF awardBid, Commit, TypeOK, BidRows
<1>4. BidsInv'
  BY <1>3 DEF RowsInv, BidsInv, RFQExists, BidExists
<1>5. Evolves(c)
  BY <1>3 DEF Evolves, BidExists, Evaluated
<1>6. HandlersInv'
  BY <1>3, <1>5, IdleContinues, HandlersContinue DEF RowsInv
<1>7. Evaluated(b) /\ b # NoBid
  BY <1>2, <1>3, IdentityAssumption DEF RowsInv, HandlersInv
<1>8. AwardNamesTheWinner'
  <2>1. \A a \in Bids : bid'[a].status = "AWARDED" => a = b
    BY <1>3, IdentityAssumption DEF RowsInv, AwardNamesTheWinner
  <2>2. BidExists(b)' /\ Evaluated(b)'
    BY <1>3, <1>7 DEF BidExists, Evaluated
  <2> QED
    BY <1>3, <1>7, <2>1, <2>2 DEF AwardNamesTheWinner, BidExists, Evaluated
<1> QED
  BY <1>4, <1>6, <1>8 DEF RowsInv

LEMMA RowsCreateOrder == ASSUME TypeOK, RowsInv, NEW c \in Clients, createOrder(c) PROVE RowsInv'
<1>1. op[c].b \in Bids
  BY TypeOfOps DEF createOrder, OnBid, RFQOps
<1>2. /\ op' = [op EXCEPT ![c] = Idle] /\ rfq' = rfq /\ bid' = bid /\ award' = award
      /\ award # NoBid
  BY <1>1, IdentityAssumption DEF createOrder, Commit
<1> QED
  BY <1>2, IdleContinues, RowsUntouched DEF RFQExists

LEMMA RowsInit == ASSUME Init PROVE RowsInv
<1>1. \A b \in Bids : ~BidExists(b) /\ bid[b] = NoBidRow
  BY DEF Init, BidExists, NoBidRow
<1>2. HandlersInv
  BY DEF Init, HandlersInv, Idle
<1>3. AwardNamesTheWinner
  BY <1>1 DEF Init, AwardNamesTheWinner, BidExists, NoOrder
<1> QED
  BY <1>1, <1>2, <1>3 DEF RowsInv, BidsInv

LEMMA RowsNext == ASSUME TypeOK, RowsInv, Next PROVE RowsInv'
<1>1. CASE ClosingDatePasses
  <2>1. bid' = bid /\ award' = award /\ order' = order /\ op' = op /\ rfq'.status = rfq.status
    BY <1>1 DEF ClosingDatePasses, TypeOK, RFQs
  <2> QED
    BY <2>1 DEF RowsInv, BidsInv, HandlersInv, AwardNamesTheWinner, RFQExists, BidExists, Evaluated
<1>2. ASSUME NEW c \in Clients, WriteFails(c) \/ Crash(c) PROVE RowsInv'
  BY <1>2, RowsStop DEF WriteFails, Crash
<1>3. ASSUME NEW c \in Clients, RFQNext(c) PROVE RowsInv'
  BY <1>3, RowsReads, RowsRFQ, RowsDeleteRFQ DEF RFQNext, Reads
<1>4. ASSUME NEW c \in Clients, BidNext(c) PROVE RowsInv'
  BY <1>4, RowsReads, RowsCreateBid, RowsDeleteBid, RowsWriteBid, RowsRecalculate DEF BidNext, Reads
<1>5. ASSUME NEW c \in Clients, AwardNext(c) PROVE RowsInv'
  BY <1>5, RowsReads, RowsWriteBid, RowsAward, RowsCreateOrder DEF AwardNext, Reads
<1> QED
  BY <1>1, <1>2, <1>3, <1>4, <1>5 DEF Next

\* However handlers overlap, fail or die: at most one bid is awarded, it is the one
\* the award names, somebody has evaluated it, and no order outlives the award it
\* is for, for any number of vendors, bids and evaluators.
THEOREM AwardIsTrue == Spec => []AwardNamesTheWinner
<1>1. RowsInv => AwardNamesTheWinner
  BY DEF RowsInv
<1>2. TypeOK /\ RowsInv /\ [Next]_vars => TypeOK' /\ RowsInv'
  <2>1. TypeOK /\ RowsInv /\ UNCHANGED vars => TypeOK' /\ RowsInv'
    BY DEF vars, TypeOK, RowsInv, BidsInv, HandlersInv, AwardNamesTheWinner, RFQExists, BidExists,
           Evaluated, OnBid
  <2> QED
    BY <2>1, TypeNext, RowsNext
<1> QED
  BY <1>1, <1>2, TypeInit, RowsInit, PTL DEF Spec

(***************************************************************************)
(* What holds until a handler writes on an overtaken read.                 *)
(***************************************************************************)
Placed == \A b \in Bids :
             BidExists(b) => rfq.status # "DRAFT" /\ bid[b].vendor \in rfq.invited

Active(b) == bid[b].status \in {"DRAFT", "SUBMITTED"}
OneEach == \A a, b \in Bids : Active(a) /\ Active(b) /\ bid[a].vendor = bid[b].vendor => a = b

Summed == \A b \in Bids : bid[b].status \in {"SUBMITTED", "WITHDRAWN", "AWARDED"} => amountsMatch(b)

Won == award # NoBid => bid[award].status = "AWARDED"

Drawn == order.status # "NONE" => /\ order.items = bid[award].items
                                  /\ order.totalAmount = bid[award].totalAmount

\* What is written is right, and so is what a handler that was not overtaken remembers.
TrueInv ==
    ~staleCommit => /\ Placed /\ OneEach /\ Summed /\ Won /\ Drawn
                    /\ \A c \in Clients \ overtaken : Truth(op[c])

SourcingInv == TypeOK /\ RowsInv /\ TrueInv

(***************************************************************************)
(* What a step may do to a bid.                                            *)
(***************************************************************************)
SameContent(b) == /\ bid'[b].items = bid[b].items /\ bid'[b].totalAmount = bid[b].totalAmount
                  /\ bid'[b].vendor = bid[b].vendor
SameAward == award' = award /\ order' = order

Creates(b) == /\ bid[b].status = "NONE" /\ bid'[b].status = "DRAFT"
              /\ rfq.status = "PUBLISHED" /\ bid'[b].vendor \in rfq.invited
              /\ ActiveBids(bid'[b].vendor) = {}
              /\ SameAward

Deletes(b) == /\ bid[b].status = "DRAFT" /\ bid'[b] = NoBidRow
              /\ \/ award = b /\ award' = NoBid /\ order' = NoOrder
                 \/ award # b /\ SameAward

Submits(b) == /\ bid[b].status = "DRAFT" /\ bid'[b].status = "SUBMITTED"
              /\ rfq.status = "PUBLISHED" /\ amountsMatch(b) /\ SameContent(b) /\ SameAward

Withdraws(b) == /\ bid[b].status = "SUBMITTED" /\ bid'[b].status = "WITHDRAWN"
                /\ rfq.status \notin {"CLOSED", "CANCELLED"} /\ SameContent(b) /\ SameAward

Edits(b) == /\ bid[b].status = "DRAFT" /\ bid'[b].status = "DRAFT"
            /\ bid'[b].vendor = bid[b].vendor /\ SameAward

Recounts(b) == /\ BidExists(b)
               /\ bid'[b] = [bid[b] EXCEPT !.totalAmount = calculateTotalCost(bid[b].items)]
               /\ SameAward

Rates(b) == /\ bid[b].status \notin {"NONE", "AWARDED"} /\ bid'[b].status = bid[b].status
            /\ SameContent(b) /\ SameAward

Wins(b) == /\ bid[b].status = "SUBMITTED" /\ bid'[b].status = "AWARDED" /\ SameContent(b)
           /\ award = NoBid /\ award' = b /\ order' = order

BidStep(b) == /\ \/ Creates(b) \/ Deletes(b) \/ Submits(b) \/ Withdraws(b)
                 \/ Edits(b) \/ Recounts(b) \/ Rates(b) \/ Wins(b)
              /\ \A a \in Bids \ {b} : bid'[a] = bid[a]
              /\ rfq' = rfq

LEMMA RecountsSame ==
    ASSUME TypeOK, NEW b \in Bids, Recounts(b)
    PROVE  /\ bid'[b].status = bid[b].status /\ bid'[b].items = bid[b].items
           /\ bid'[b].vendor = bid[b].vendor
           /\ bid'[b].totalAmount = calculateTotalCost(bid[b].items)
           /\ amountsMatch(b) => bid'[b] = bid[b]
BY TypeOfBids DEF Recounts, BidRows, amountsMatch

LEMMA PlacedStep == ASSUME TypeOK, Placed, NEW b \in Bids, BidStep(b) PROVE Placed'
<1>1. bid'[b].status # "NONE" => rfq.status # "DRAFT" /\ bid'[b].vendor \in rfq.invited
  <2>1. CASE Creates(b) \/ Deletes(b)
    BY <2>1 DEF Creates, Deletes, NoBidRow
  <2>2. CASE Submits(b) \/ Withdraws(b) \/ Edits(b) \/ Rates(b) \/ Wins(b)
    BY <2>2 DEF Submits, Withdraws, Edits, Rates, Wins, SameContent, Placed, BidExists
  <2>3. CASE Recounts(b)
    BY <2>3, RecountsSame DEF Placed, Recounts
  <2> QED
    BY <2>1, <2>2, <2>3 DEF BidStep
<1> QED
  BY <1>1 DEF BidStep, Placed, BidExists

LEMMA OneEachStep == ASSUME TypeOK, OneEach, NEW b \in Bids, BidStep(b) PROVE OneEach'
<1>1. CASE Creates(b)
  <2>1. \A a \in Bids : Active(a) => bid[a].vendor # bid'[b].vendor
    BY <1>1 DEF Creates, ActiveBids, Active
  <2>2. \A a \in Bids \ {b} : bid'[a] = bid[a]
    BY DEF BidStep
  <2> QED
    BY <2>1, <2>2 DEF OneEach, Active
<1>2. CASE ~Creates(b)
  <2>1. Active(b)' => Active(b) /\ bid'[b].vendor = bid[b].vendor
    <3>1. CASE Deletes(b) \/ Withdraws(b) \/ Wins(b)
      BY <3>1 DEF Deletes, Withdraws, Wins, NoBidRow, Active
    <3>2. CASE Submits(b) \/ Edits(b) \/ Rates(b)
      BY <3>2 DEF Submits, Edits, Rates, SameContent, Active
    <3>3. CASE Recounts(b)
      BY <3>3, RecountsSame DEF Active
    <3> QED
      BY <1>2, <3>1, <3>2, <3>3 DEF BidStep
  <2>2. \A a \in Bids \ {b} : bid'[a] = bid[a]
    BY DEF BidStep
  <2> QED
    BY <2>1, <2>2 DEF OneEach, Active
<1> QED
  BY <1>1, <1>2

LEMMA SummedStep == ASSUME TypeOK, Summed, NEW b \in Bids, BidStep(b) PROVE Summed'
<1>1. bid'[b].status \in {"SUBMITTED", "WITHDRAWN", "AWARDED"} => amountsMatch(b)'
  <2>1. CASE Creates(b) \/ Deletes(b) \/ Edits(b)
    BY <2>1 DEF Creates, Deletes, Edits, NoBidRow
  <2>2. CASE Submits(b) \/ Withdraws(b) \/ Rates(b) \/ Wins(b)
    BY <2>2 DEF Submits, Withdraws, Rates, Wins, SameContent, Summed, amountsMatch, calculateTotalCost
  <2>3. CASE Recounts(b)
    BY <2>3, RecountsSame DEF Summed, amountsMatch, calculateTotalCost
  <2> QED
    BY <2>1, <2>2, <2>3 DEF BidStep
<1> QED
  BY <1>1 DEF BidStep, Summed, amountsMatch, calculateTotalCost

LEMMA WonStep ==
    ASSUME TypeOK, Won, Summed, AwardNamesTheWinner, NEW b \in Bids, BidStep(b)
    PROVE  Won'
<1>1. CASE Wins(b)
  BY <1>1 DEF Wins, Won
<1>2. CASE Deletes(b)
  <2>1. award # b
    BY <1>2, IdentityAssumption DEF Deletes, Won
  <2> QED
    BY <1>2, <2>1 DEF Deletes, SameAward, Won, BidStep, TypeOK
<1>3. CASE Creates(b) \/ Submits(b) \/ Withdraws(b) \/ Edits(b) \/ Rates(b)
  <2>1. award' = award /\ bid[b].status # "AWARDED"
    BY <1>3 DEF Creates, Submits, Withdraws, Edits, Rates, SameAward
  <2>2. award # b
    BY <2>1, IdentityAssumption DEF Won
  <2> QED
    BY <2>1, <2>2 DEF Won, BidStep, TypeOK
<1>4. CASE Recounts(b)
  BY <1>4, RecountsSame DEF Recounts, SameAward, Won, BidStep, TypeOK
<1> QED
  BY <1>1, <1>2, <1>3, <1>4 DEF BidStep

LEMMA DrawnStep ==
    ASSUME TypeOK, Drawn, Won, Summed, AwardNamesTheWinner, NEW b \in Bids, BidStep(b)
    PROVE  Drawn'
<1>1. CASE Wins(b)
  BY <1>1 DEF Wins, Drawn, AwardNamesTheWinner
<1>2. CASE award # b /\ SameAward
  <2>1. order.status # "NONE" => award \in Bids \ {b}
    BY <1>2, IdentityAssumption DEF AwardNamesTheWinner, TypeOK
  <2> QED
    BY <1>2, <2>1 DEF SameAward, BidStep, Drawn
<1>3. CASE award = b /\ SameAward
  <2>1. bid[b].status = "AWARDED"
    BY <1>3, IdentityAssumption DEF Won
  <2>2. Recounts(b)
    BY <1>3, <2>1, IdentityAssumption DEF BidStep, Creates, Deletes, Submits, Withdraws, Edits, Rates, Wins
  <2>3. bid'[b] = bid[b]
    BY <2>1, <2>2, RecountsSame DEF Summed
  <2> QED
    BY <1>3, <2>3 DEF SameAward, Drawn
<1>4. CASE order' = NoOrder
  BY <1>4 DEF NoOrder, Drawn
<1> QED
  BY <1>1, <1>2, <1>3, <1>4 DEF BidStep, Creates, Deletes, Submits, Withdraws, Edits, Recounts, Rates

(***************************************************************************)
(* What the handlers remember.                                             *)
(***************************************************************************)
\* A step of c that names the rows it wrote leaves the others as they were; a bid
\* that c has just created is known to nobody else.
WroteRows(c, written) ==
    /\ \/ RFQRow \in written
       \/ rfq'.status = rfq.status /\ rfq'.invited = rfq.invited
    /\ \A b \in Bids :
          \/ BidRow(b) \in written
          \/ op[c].pc = "createBid" /\ b = op[c].b
          \/ /\ bid'[b].status = bid[b].status /\ bid'[b].items = bid[b].items
             /\ bid'[b].totalAmount = bid[b].totalAmount
    /\ \A v \in Vendors : BidsOf(v) \in written \/ ActiveBids(v)' \subseteq ActiveBids(v)

\* What a handler remembers stays true while no row it has read is written.
LEMMA TruthStays ==
    ASSUME TypeOK, RowsInv, NEW c \in Clients, NEW written, WroteRows(c, written),
           NEW d \in Clients \ {c}, op'[d] = op[d], Truth(op[d]),
           op[d] # Idle => RowsRead(op[d]) \cap written = {}
    PROVE  Truth(op[d])'
<1>1. PICK o : o = op[d]
  OBVIOUS
<1>2. CASE o = Idle
  BY <1>1, <1>2 DEF Truth, Idle
<1>3. CASE ~OnBid(o) /\ o # Idle
  <2>1. RFQRow \in RowsRead(o)
    BY <1>1, <1>3, TypeOfOps DEF OnBid, RowsRead, RFQOps
  <2>2. rfq'.status = rfq.status
    BY <1>1, <1>3, <2>1 DEF WroteRows
  <2> QED
    BY <1>1, <1>3, <2>2 DEF Truth, OnBid, RFQOps
<1>4. CASE o.pc = "createBid"
  <2>1. /\ o.vendor \in Vendors /\ o # Idle /\ RFQRow \in RowsRead(o) /\ BidsOf(o.vendor) \in RowsRead(o)
    BY <1>1, <1>4, TypeOfOps DEF RowsRead, Idle, RFQOps
  <2>2. /\ rfq'.status = rfq.status /\ rfq'.invited = rfq.invited
        /\ ActiveBids(o.vendor)' \subseteq ActiveBids(o.vendor)
    BY <1>1, <2>1 DEF WroteRows
  <2>3. rfq.status = "PUBLISHED" /\ o.vendor \in rfq.invited /\ ActiveBids(o.vendor) = {}
    BY <1>1, <1>4 DEF Truth
  <2> QED
    BY <1>1, <1>4, <2>2, <2>3 DEF Truth, ActiveBids
<1>5. CASE OnBid(o) /\ o.pc # "createBid"
  <2>1. o.b \in Bids /\ o # Idle
    BY <1>1, <1>5, TypeOfOps DEF OnBid, Idle
  <2>2. BidRow(o.b) \in RowsRead(o)
    BY <1>5 DEF RowsRead, OnBid, RFQOps
  <2>3. o.pc \in {"submit", "withdraw"} => RFQRow \in RowsRead(o)
    BY DEF RowsRead, RFQOps
  <2>4. PICK b \in Bids : b = o.b
    BY <2>1
  <2>5. /\ bid'[b].status = bid[b].status /\ bid'[b].items = bid[b].items
        /\ bid'[b].totalAmount = bid[b].totalAmount
    <3>1. BidRow(b) \notin written
      BY <1>1, <2>1, <2>2, <2>4
    <3>2. ~(op[c].pc = "createBid" /\ b = op[c].b)
      BY <1>1, <1>5, <2>4 DEF RowsInv, HandlersInv
    <3> QED
      BY <3>1, <3>2 DEF WroteRows
  <2>6. o.pc \in {"submit", "withdraw"} => rfq'.status = rfq.status
    BY <1>1, <2>1, <2>3 DEF WroteRows
  <2>7. amountsMatch(b)' <=> amountsMatch(b)
    BY <2>5 DEF amountsMatch, calculateTotalCost
  <2> QED
    BY <1>1, <1>5, <2>4, <2>5, <2>6, <2>7 DEF Truth, OnBid, RFQOps, amountsMatch, calculateTotalCost
<1> QED
  BY <1>2, <1>3, <1>4, <1>5

\* A committing handler goes on with nothing it could be wrong about.
Relieved(o) == o.pc \in {"idle", "recalculate"}

LEMMA CommitKeepsTruth ==
    ASSUME TypeOK, RowsInv, TrueInv, ~staleCommit', NEW c \in Clients, NEW o, NEW written,
           Commit(c, o, written), Relieved(o), WroteRows(c, written)
    PROVE  \A d \in Clients \ overtaken' : Truth(op[d])'
<1>1. /\ op'[c] = o /\ \A d \in Clients \ {c} : op'[d] = op[d]
      /\ ~staleCommit
      /\ overtaken' = (overtaken \cup {d \in InFlight : RowsRead(op[d]) \cap written # {}}) \ {c}
  BY DEF Commit, TypeOK
<1>2. Truth(op[c])'
  BY <1>1 DEF Relieved, Truth
<1>3. ASSUME NEW d \in Clients \ {c}, d \notin overtaken' PROVE Truth(op[d])'
  <2>1. Truth(op[d])
    BY <1>1, <1>3 DEF TrueInv
  <2>2. op[d] # Idle => RowsRead(op[d]) \cap written = {}
    BY <1>1, <1>3 DEF InFlight
  <2> QED
    BY <1>1, <2>1, <2>2, TruthStays
<1> QED
  BY <1>2, <1>3

\* A handler that commits on a read nobody has overtaken finds it still true.
LEMMA CommitsOnTruth ==
    ASSUME TrueInv, ~staleCommit', NEW c \in Clients, NEW o, NEW written, Commit(c, o, written)
    PROVE  ~staleCommit /\ Truth(op[c])
BY DEF Commit, TrueInv

BidWrites(c) == \/ createBid(c) \/ deleteBid(c) \/ submitBid(c) \/ withdraw(c) \/ addItem(c)
                \/ removeItem(c) \/ recalculateTotal(c) \/ createEvaluation(c)
                \/ updateEvaluation(c) \/ awardBid(c)

LEMMA NoNewActive ==
    ASSUME NEW b \in Bids, \A a \in Bids \ {b} : bid'[a] = bid[a],
           Active(b)' => Active(b) /\ bid'[b].vendor = bid[b].vendor
    PROVE  \A v : ActiveBids(v)' \subseteq ActiveBids(v)
BY DEF ActiveBids, Active

LEMMA BidSteps ==
    ASSUME TypeOK, RowsInv, TrueInv, ~staleCommit', NEW c \in Clients, BidWrites(c)
    PROVE  \E o, written : /\ Commit(c, o, written) /\ Relieved(o) /\ WroteRows(c, written)
                           /\ \E b \in Bids : BidStep(b)
<1>1. op[c].b \in Bids
  BY TypeOfOps DEF BidWrites, createBid, deleteBid, submitBid, withdraw, addItem, removeItem,
                   recalculateTotal, createEvaluation, updateEvaluation, awardBid, OnBid, RFQOps
<1>2. PICK b \in Bids : b = op[c].b
  BY <1>1
<1>3. ASSUME NEW row, NEW o \in {Idle, [pc |-> "recalculate", b |-> b]}, NEW written,
             WriteBid(c, b, row, o, written)
      PROVE  /\ Commit(c, o, written) /\ Relieved(o) /\ Truth(op[c]) /\ BidExists(b)
             /\ bid'[b] = row /\ \A a \in Bids \ {b} : bid'[a] = bid[a]
             /\ rfq' = rfq /\ SameAward
  BY <1>3, CommitsOnTruth DEF WriteBid, TypeOK, Relieved, Idle, SameAward
<1>4. ASSUME NEW written, BidStep(b),
             BidRow(b) \in written \/ (SameContent(b) /\ bid'[b].status = bid[b].status),
             Active(b)' => Active(b) /\ bid'[b].vendor = bid[b].vendor
      PROVE  WroteRows(c, written)
  <2>1. rfq' = rfq /\ \A a \in Bids \ {b} : bid'[a] = bid[a]
    BY <1>4 DEF BidStep
  <2>2. \A v : ActiveBids(v)' \subseteq ActiveBids(v)
    BY <1>4, <2>1, NoNewActive
  <2> QED
    BY <1>4, <2>1, <2>2 DEF WroteRows, SameContent
<1>5. CASE createBid(c)
  <2>1. /\ Commit(c, Idle, {BidsOf(op[c].vendor)}) /\ op[c].pc = "createBid" /\ SameAward
        /\ bid'[b].status = "DRAFT" /\ bid'[b].vendor = op[c].vendor
        /\ rfq' = rfq /\ \A a \in Bids \ {b} : bid'[a] = bid[a]
    BY <1>2, <1>5 DEF createBid, TypeOK, SameAward, NoBidRow
  <2>2. ~BidExists(b) /\ Truth(op[c])
    BY <1>2, <2>1, CommitsOnTruth DEF RowsInv, HandlersInv
  <2>3. BidStep(b)
    BY <2>1, <2>2 DEF BidStep, Creates, Truth, BidExists
  <2>4. WroteRows(c, {BidsOf(op[c].vendor)})
    <3>1. \A v \in Vendors : v # op[c].vendor => ActiveBids(v)' \subseteq ActiveBids(v)
      BY <2>1 DEF ActiveBids
    <3> QED
      BY <1>2, <2>1, <3>1 DEF WroteRows
  <2> QED
    BY <2>1, <2>3, <2>4 DEF Relieved, Idle
<1>6. CASE deleteBid(c)
  <2>1. PICK written : /\ Commit(c, Idle, written) /\ BidRow(b) \in written
                       /\ op[c].pc = "deleteBid" /\ bid'[b] = NoBidRow
                       /\ rfq' = rfq /\ \A a \in Bids \ {b} : bid'[a] = bid[a]
                       /\ \/ award = b /\ award' = NoBid /\ order' = NoOrder
                          \/ award # b /\ SameAward
    BY <1>2, <1>6 DEF deleteBid, TypeOK, SameAward
  <2>2. Truth(op[c])
    BY <2>1, CommitsOnTruth
  <2>3. BidStep(b)
    BY <1>2, <2>1, <2>2 DEF BidStep, Deletes, Truth
  <2>4. Relieved(Idle) /\ ~Active(b)'
    BY <2>1 DEF Relieved, Idle, NoBidRow, Active
  <2>5. WroteRows(c, written)
    BY <1>4, <2>1, <2>3, <2>4
  <2> QED
    BY <2>1, <2>3, <2>4, <2>5
<1>7. CASE submitBid(c)
  <2> DEFINE row == [bid[b] EXCEPT !.status = "SUBMITTED", !.totalAmount = op[c].total]
  <2>1. PICK written : WriteBid(c, b, row, Idle, written) /\ BidRow(b) \in written /\ op[c].pc = "submit"
    BY <1>2, <1>7 DEF submitBid
  <2>2. row.status = "SUBMITTED" /\ row.totalAmount = op[c].total /\ row.items = bid[b].items
        /\ row.vendor = bid[b].vendor
    BY TypeOfBids DEF BidRows
  <2> HIDE DEF row
  <2>3. BidStep(b)
    BY <1>2, <1>3, <2>1, <2>2 DEF BidStep, Submits, SameContent, Truth
  <2>4. Active(b) /\ bid'[b].vendor = bid[b].vendor
    BY <1>2, <1>3, <2>1, <2>2 DEF Truth, Active
  <2>5. Commit(c, Idle, written) /\ Relieved(Idle)
    BY <1>3, <2>1
  <2>6. WroteRows(c, written)
    BY <1>4, <2>1, <2>3, <2>4
  <2> QED
    BY <2>3, <2>5, <2>6
<1>8. CASE withdraw(c)
  <2> DEFINE row == [bid[b] EXCEPT !.status = "WITHDRAWN"]
  <2>1. PICK written : WriteBid(c, b, row, Idle, written) /\ BidRow(b) \in written /\ op[c].pc = "withdraw"
    BY <1>2, <1>8 DEF withdraw
  <2>2. row.status = "WITHDRAWN" /\ row.totalAmount = bid[b].totalAmount /\ row.items = bid[b].items
        /\ row.vendor = bid[b].vendor
    BY TypeOfBids DEF BidRows
  <2> HIDE DEF row
  <2>3. BidStep(b)
    BY <1>2, <1>3, <2>1, <2>2 DEF BidStep, Withdraws, SameContent, Truth
  <2>4. Commit(c, Idle, written) /\ Relieved(Idle) /\ ~Active(b)'
    BY <1>3, <2>1, <2>2 DEF Active
  <2>5. WroteRows(c, written)
    BY <1>4, <2>1, <2>3, <2>4
  <2> QED
    BY <2>3, <2>4, <2>5
<1>9. CASE addItem(c) \/ removeItem(c)
  <2>1. PICK S : /\ WriteBid(c, b, [bid[b] EXCEPT !.items = S], [pc |-> "recalculate", b |-> b],
                             {BidRow(b)})
                 /\ op[c].pc \in {"addItem", "removeItem"}
    BY <1>2, <1>9 DEF addItem, removeItem
  <2> DEFINE row == [bid[b] EXCEPT !.items = S]
             o == [pc |-> "recalculate", b |-> b]
  <2>2. row.status = bid[b].status /\ row.vendor = bid[b].vendor
    BY TypeOfBids DEF BidRows
  <2>3. WriteBid(c, b, row, o, {BidRow(b)}) /\ o \in {Idle, [pc |-> "recalculate", b |-> b]}
    BY <2>1
  <2> HIDE DEF row, o
  <2>4. BidStep(b)
    BY <1>2, <1>3, <2>1, <2>2, <2>3 DEF BidStep, Edits, Truth
  <2>5. WroteRows(c, {BidRow(b)})
    BY <1>3, <1>4, <2>2, <2>3, <2>4 DEF Active
  <2> QED
    BY <1>3, <2>3, <2>4, <2>5
<1>10. CASE recalculateTotal(c)
  <2>1. WriteBid(c, b, [bid[b] EXCEPT !.totalAmount = op[c].total], Idle, {BidRow(b)})
        /\ op[c].pc = "recalculated"
    BY <1>2, <1>10 DEF recalculateTotal
  <2>2. Recounts(b)
    BY <1>2, <1>3, <2>1 DEF Truth, Recounts
  <2>3. BidStep(b)
    BY <1>3, <2>1, <2>2 DEF BidStep
  <2>4. bid'[b].status = bid[b].status /\ bid'[b].vendor = bid[b].vendor
    BY <2>2, RecountsSame
  <2>5. WroteRows(c, {BidRow(b)})
    BY <1>4, <2>3, <2>4 DEF Active
  <2> QED
    BY <1>3, <2>1, <2>3, <2>5
<1>11. CASE createEvaluation(c) \/ updateEvaluation(c)
  <2> DEFINE row == [bid[b] EXCEPT !.scores[op[c].by] = op[c].score]
  <2>1. WriteBid(c, b, row, Idle, {ScoresOf(b)}) /\ op[c].pc \in {"evaluate", "updateEvaluation"}
    BY <1>2, <1>11 DEF createEvaluation, updateEvaluation
  <2>2. row.status = bid[b].status /\ row.totalAmount = bid[b].totalAmount /\ row.items = bid[b].items
        /\ row.vendor = bid[b].vendor
    BY TypeOfBids DEF BidRows
  <2> HIDE DEF row
  <2>3. SameContent(b) /\ bid'[b].status = bid[b].status
    BY <1>3, <2>1, <2>2 DEF SameContent
  <2>4. BidStep(b)
    BY <1>2, <1>3, <2>1, <2>3 DEF BidStep, Rates, Truth, BidExists
  <2>5. WroteRows(c, {ScoresOf(b)})
    BY <1>4, <2>3, <2>4 DEF Active, SameContent
  <2> QED
    BY <1>3, <2>1, <2>4, <2>5
<1>12. CASE awardBid(c)
  <2>1. PICK written : /\ Commit(c, Idle, written) /\ BidRow(b) \in written
                       /\ op[c].pc = "award" /\ bid' = [bid EXCEPT ![b].status = "AWARDED"]
                       /\ rfq' = rfq /\ award = NoBid /\ award' = b /\ order' = order
    BY <1>2, <1>12 DEF awardBid
  <2>2. /\ bid'[b].status = "AWARDED" /\ SameContent(b)
        /\ \A a \in Bids \ {b} : bid'[a] = bid[a]
    BY <2>1, TypeOfBids DEF TypeOK, BidRows, SameContent
  <2>3. bid[b].status = "SUBMITTED"
    BY <1>2, <2>1, CommitsOnTruth DEF Truth
  <2>4. BidStep(b)
    BY <2>1, <2>2, <2>3 DEF BidStep, Wins
  <2>5. Relieved(Idle) /\ ~Active(b)'
    BY <2>2 DEF Relieved, Idle, Active
  <2>6. WroteRows(c, written)
    BY <1>4, <2>1, <2>4, <2>5
  <2> QED
    BY <2>1, <2>4, <2>5, <2>6
<1> QED
  BY <1>5, <1>6, <1>7, <1>8, <1>9, <1>10, <1>11, <1>12 DEF BidWrites

(***************************************************************************)
(* The steps that write no bid, and all of them together.                  *)
(***************************************************************************)
\* A commit that leaves bids, award and order alone, or the bids of an RFQ that is
\* gone.
LEMMA RFQSteps ==
    ASSUME TypeOK, RowsInv, TrueInv, ~staleCommit', NEW c \in Clients,
           \/ createRFQ(c) \/ update(c) \/ publish(c) \/ close(c) \/ cancel(c) \/ inviteVendor(c)
    PROVE  TrueInv'
<1>1. PICK o, written : /\ Commit(c, o, written) /\ Relieved(o) /\ RFQRow \in written
                        /\ bid' = bid /\ award' = award /\ order' = order
  <2>1. Relieved(Idle)
    BY DEF Relieved, Idle
  <2> QED
    BY <2>1 DEF createRFQ, update, publish, close, cancel, inviteVendor, WriteRFQ
<1>2. \A b \in Bids : BidExists(b) => /\ rfq'.status = "DRAFT" => rfq.status = "DRAFT"
                                      /\ rfq.invited \subseteq rfq'.invited
  <2>1. CASE createRFQ(c)
    BY <2>1 DEF createRFQ, RowsInv, BidsInv
  <2>2. CASE update(c) \/ publish(c) \/ close(c) \/ cancel(c) \/ inviteVendor(c)
    BY <2>2 DEF update, publish, close, cancel, inviteVendor, WriteRFQ, TypeOK, RFQs
  <2> QED
    BY <2>1, <2>2
<1>3. ~staleCommit
  BY <1>1, CommitsOnTruth
<1>4. Placed' /\ OneEach' /\ Summed' /\ Won' /\ Drawn'
  BY <1>1, <1>2, <1>3 DEF TrueInv, Placed, OneEach, Active, Summed, amountsMatch, calculateTotalCost,
                          Won, Drawn, BidExists
<1>5. WroteRows(c, written)
  <2>1. \A v : ActiveBids(v)' = ActiveBids(v)
    BY <1>1 DEF ActiveBids
  <2> QED
    BY <1>1, <2>1 DEF WroteRows
<1>6. \A d \in Clients \ overtaken' : Truth(op[d])'
  BY <1>1, <1>5, CommitKeepsTruth
<1> QED
  BY <1>4, <1>6 DEF TrueInv

LEMMA DeleteRFQStep ==
    ASSUME TypeOK, RowsInv, TrueInv, ~staleCommit', NEW c \in Clients, deleteRFQ(c)
    PROVE  TrueInv' /\ \A b \in Bids : ~BidExists(b)
<1>1. /\ Commit(c, Idle, AllRows) /\ bid' = [b \in Bids |-> NoBidRow] /\ award' = NoBid
      /\ order' = NoOrder /\ op[c].pc = "deleteRFQ"
  BY DEF deleteRFQ
<1>2. \A b \in Bids : bid'[b].status = "NONE"
  BY <1>1 DEF NoBidRow
<1>3. Placed' /\ OneEach' /\ Summed' /\ Won' /\ Drawn'
  BY <1>1, <1>2 DEF Placed, OneEach, Active, Summed, Won, Drawn, BidExists, NoOrder
<1>4. WroteRows(c, AllRows) /\ Relieved(Idle)
  <2>1. RFQRow \in AllRows /\ (\A b \in Bids : BidRow(b) \in AllRows)
        /\ \A v \in Vendors : BidsOf(v) \in AllRows
    BY DEF AllRows
  <2> QED
    BY <2>1 DEF WroteRows, Relieved, Idle
<1>5. \A d \in Clients \ overtaken' : Truth(op[d])'
  BY <1>1, <1>4, CommitKeepsTruth
<1>6. ~staleCommit /\ rfq.status = "DRAFT"
  BY <1>1, CommitsOnTruth DEF Truth
<1> QED
  BY <1>3, <1>5, <1>6 DEF TrueInv, Placed

LEMMA OrderStep ==
    ASSUME TypeOK, RowsInv, TrueInv, ~staleCommit', NEW c \in Clients, createOrder(c)
    PROVE  TrueInv'
<1>1. /\ Commit(c, Idle, {OrderRow}) /\ op[c].pc = "createOrder" /\ award = op[c].b
      /\ order'.items = op[c].items /\ order'.totalAmount = calculateTotalCost(op[c].items)
      /\ rfq' = rfq /\ bid' = bid /\ award' = award
  BY DEF createOrder
<1>2. ~staleCommit /\ op[c].items = bid[award].items
  BY <1>1, CommitsOnTruth DEF Truth
<1>3. award \in Bids /\ award # NoBid
  BY <1>1, TypeOfOps, IdentityAssumption DEF OnBid, RFQOps
<1>4. amountsMatch(award)
  BY <1>2, <1>3 DEF TrueInv, Won, Summed
<1>5. Drawn'
  BY <1>1, <1>2, <1>4 DEF Drawn, amountsMatch
<1>6. Placed' /\ OneEach' /\ Summed' /\ Won'
  BY <1>1, <1>2 DEF TrueInv, Placed, OneEach, Active, Summed, amountsMatch, calculateTotalCost, Won,
                    BidExists
<1>7. WroteRows(c, {OrderRow}) /\ Relieved(Idle)
  <2>1. \A v : ActiveBids(v)' = ActiveBids(v)
    BY <1>1 DEF ActiveBids
  <2> QED
    BY <1>1, <2>1 DEF WroteRows, Relieved, Idle
<1>8. \A d \in Clients \ overtaken' : Truth(op[d])'
  BY <1>1, <1>7, CommitKeepsTruth
<1> QED
  BY <1>5, <1>6, <1>8 DEF TrueInv

LEMMA BidWritesStep ==
    ASSUME TypeOK, RowsInv, TrueInv, ~staleCommit', NEW c \in Clients, BidWrites(c)
    PROVE  TrueInv'
<1>1. PICK o, written : /\ Commit(c, o, written) /\ Relieved(o) /\ WroteRows(c, written)
                        /\ \E b \in Bids : BidStep(b)
  BY BidSteps
<1>2. PICK b \in Bids : BidStep(b)
  BY <1>1
<1>3. ~staleCommit
  BY <1>1, CommitsOnTruth
<1>4. Placed /\ OneEach /\ Summed /\ Won /\ Drawn /\ AwardNamesTheWinner
  BY <1>3 DEF TrueInv, RowsInv
<1>5. Placed' /\ OneEach' /\ Summed' /\ Won' /\ Drawn'
  BY <1>2, <1>4, PlacedStep, OneEachStep, SummedStep, WonStep, DrawnStep
<1>6. \A d \in Clients \ overtaken' : Truth(op[d])'
  BY <1>1, CommitKeepsTruth
<1> QED
  BY <1>5, <1>6 DEF TrueInv

\* Steps that write no row at all: a read, a recount and the end of a handler.
LEMMA NoRowStep ==
    ASSUME TypeOK, RowsInv, TrueInv, ~staleCommit', NEW c \in Clients, NEW o,
           op' = [op EXCEPT ![c] = o], Truth(o), overtaken \ {c} \subseteq overtaken',
           UNCHANGED rows, staleCommit' = staleCommit
    PROVE  TrueInv'
<1>1. op'[c] = o /\ \A d \in Clients \ {c} : op'[d] = op[d]
  BY DEF TypeOK
<1>2. rfq' = rfq /\ bid' = bid /\ award' = award /\ order' = order
  BY DEF rows
<1>3. ASSUME NEW d \in Clients \ overtaken' PROVE Truth(op[d])'
  <2>1. Truth(op'[d])
    BY <1>1, <1>3 DEF TrueInv
  <2> QED
    BY <1>2, <2>1 DEF Truth, ActiveBids, amountsMatch, calculateTotalCost
<1>4. Placed' /\ OneEach' /\ Summed' /\ Won' /\ Drawn'
  BY <1>2 DEF TrueInv, Placed, OneEach, Active, Summed, amountsMatch, calculateTotalCost, Won, Drawn,
              BidExists
<1> QED
  BY <1>3, <1>4 DEF TrueInv

LEMMA TrueInit == ASSUME Init PROVE TrueInv
<1>1. \A b \in Bids : bid[b].status = "NONE"
  BY DEF Init, NoBidRow
<1>2. Placed /\ OneEach /\ Summed /\ Won /\ Drawn
  BY <1>1 DEF Init, Placed, OneEach, Active, Summed, Won, Drawn, BidExists, NoOrder
<1>3. \A c \in Clients : Truth(op[c])
  BY DEF Init, Truth, Idle
<1> QED
  BY <1>2, <1>3 DEF TrueInv

LEMMA TrueNext == ASSUME TypeOK, RowsInv, TrueInv, Next PROVE TrueInv'
<1> SUFFICES ASSUME ~staleCommit' PROVE TrueInv'
  BY DEF TrueInv
<1>1. CASE ClosingDatePasses
  <2>1. /\ bid' = bid /\ award' = award /\ order' = order /\ op' = op /\ overtaken' = overtaken
        /\ rfq'.status = rfq.status /\ rfq'.invited = rfq.invited /\ staleCommit' = staleCommit
    BY <1>1 DEF ClosingDatePasses, history, TypeOK, RFQs
  <2>2. Placed' /\ OneEach' /\ Summed' /\ Won' /\ Drawn'
    BY <2>1 DEF TrueInv, Placed, OneEach, Active, Summed, amountsMatch, calculateTotalCost, Won, Drawn,
                BidExists
  <2>3. \A d \in Clients \ overtaken' : Truth(op[d])'
    BY <2>1 DEF TrueInv, Truth, ActiveBids, amountsMatch, calculateTotalCost
  <2> QED
    BY <2>2, <2>3 DEF TrueInv
<1>2. ASSUME NEW c \in Clients, Reads(c) PROVE TrueInv'
  <2>1. PICK o : Begin(c, o) /\ Truth(o)
    BY <1>2, ReadsTheTruth DEF RowsInv
  <2> QED
    BY <2>1, NoRowStep DEF Begin, history
<1>3. ASSUME NEW c \in Clients, WriteFails(c) \/ Crash(c) PROVE TrueInv'
  <2>1. Stop(c)
    BY <1>3 DEF WriteFails, Crash
  <2>2. Truth(Idle)
    BY DEF Truth, Idle
  <2> QED
    BY <2>1, <2>2, NoRowStep DEF Stop
<1>4. ASSUME NEW c \in Clients, recalculateTotalRead(c) PROVE TrueInv'
  <2> DEFINE o == [pc |-> "recalculated", b |-> op[c].b,
                   total |-> calculateTotalCost(bid[op[c].b].items)]
  <2>1. Truth(o)
    BY DEF Truth
  <2>2. /\ op' = [op EXCEPT ![c] = o] /\ overtaken' = overtaken \ {c}
        /\ UNCHANGED rows /\ staleCommit' = staleCommit
    BY <1>4 DEF recalculateTotalRead
  <2> HIDE DEF o
  <2> QED
    BY <2>1, <2>2, NoRowStep
<1>5. ASSUME NEW c \in Clients, RFQNext(c) PROVE TrueInv'
  BY <1>2, <1>5, RFQSteps, DeleteRFQStep DEF RFQNext, Reads
<1>6. ASSUME NEW c \in Clients, BidNext(c) PROVE TrueInv'
  BY <1>2, <1>4, <1>6, BidWritesStep DEF BidNext, Reads, BidWrites
<1>7. ASSUME NEW c \in Clients, AwardNext(c) PROVE TrueInv'
  BY <1>2, <1>7, BidWritesStep, OrderStep DEF AwardNext, Reads, BidWrites
<1> QED
  BY <1>1, <1>3, <1>5, <1>6, <1>7 DEF Next

LEMMA Invariants == Spec => []SourcingInv
<1>1. Init => SourcingInv
  BY TypeInit, RowsInit, TrueInit DEF SourcingInv
<1>2. SourcingInv /\ UNCHANGED vars => SourcingInv'
  <2> SUFFICES ASSUME SourcingInv, UNCHANGED vars PROVE SourcingInv'
    OBVIOUS
  <2>1. TypeOK'
    BY DEF SourcingInv, TypeOK, vars
  <2>2. RowsInv'
    BY DEF SourcingInv, RowsInv, BidsInv, HandlersInv, AwardNamesTheWinner, RFQExists, BidExists,
           Evaluated, OnBid, vars
  <2>3. TrueInv'
    BY DEF SourcingInv, TrueInv, Placed, OneEach, Active, Summed, amountsMatch, calculateTotalCost,
           Won, Drawn, BidExists, Truth, ActiveBids, vars
  <2> QED
    BY <2>1, <2>2, <2>3 DEF SourcingInv
<1>3. SourcingInv /\ Next => SourcingInv'
  BY TypeNext, RowsNext, TrueNext DEF SourcingInv
<1> QED
  BY <1>1, <1>2, <1>3, PTL DEF Spec

\* As long as no handler writes on an overtaken read, a vendor has one active bid at
\* most and is invited, for any number of vendors, bids and handlers.
THEOREM BidsStayUnique == Spec => []OneActiveBid
<1>1. SourcingInv => OneActiveBid
  <2> SUFFICES ASSUME SourcingInv, ~staleCommit
               PROVE  /\ \A v \in Vendors : Cardinality(ActiveBids(v)) <= 1
                      /\ \A b \in Bids : BidExists(b) => bid[b].vendor \in rfq.invited
    BY DEF OneActiveBid
  <2>1. \A b \in Bids : BidExists(b) => bid[b].vendor \in rfq.invited
    BY DEF SourcingInv, TrueInv, Placed
  <2>2. ASSUME NEW v \in Vendors PROVE Cardinality(ActiveBids(v)) <= 1
    <3>1. CASE ActiveBids(v) = {}
      BY <3>1, FS_EmptySet
    <3>2. CASE ActiveBids(v) # {}
      <4>1. PICK b : b \in ActiveBids(v)
        BY <3>2
      <4>2. ActiveBids(v) = {b}
        BY <4>1 DEF SourcingInv, TrueInv, OneEach, Active, ActiveBids
      <4> QED
        BY <4>2, FS_Singleton
    <3> QED
      BY <3>1, <3>2
  <2> QED
    BY <2>1, <2>2
<1> QED
  BY <1>1, Invariants, PTL

\* As long as no handler writes on an overtaken read, a bid under evaluation costs
\* what its items cost and the order is for the bid awarded, for every price list
\* and wherever handlers have died between an item and its total.
THEOREM OrdersCostWhatWasBid == Spec => []OrderCostsWhatWasBid
<1>1. SourcingInv => OrderCostsWhatWasBid
  BY DEF SourcingInv, TrueInv, Summed, Won, Drawn, OrderCostsWhatWasBid
<1> QED
  BY <1>1, Invariants, PTL

\* What a step may do to one bid under the seal.
LEMMA SealStep ==
    ASSUME TypeOK, BidsInv, Placed, Summed, NEW b \in Bids, BidStep(b)
    PROVE  /\ bid[b].status # bid'[b].status /\ bid'[b].status \in {"SUBMITTED", "WITHDRAWN"}
                 => rfq.status = "PUBLISHED"
           /\ bid[b].status \in {"SUBMITTED", "WITHDRAWN"}
                 => /\ bid'[b].items = bid[b].items
                    /\ bid'[b].totalAmount = bid[b].totalAmount
                    /\ bid'[b].status \notin {"NONE", "DRAFT"}
           /\ bid[b].status = "AWARDED" => bid'[b] = bid[b]
<1>1. CASE Creates(b) \/ Deletes(b) \/ Edits(b) \/ Wins(b)
  BY <1>1 DEF Creates, Deletes, Edits, Wins, SameContent, NoBidRow
<1>2. CASE Submits(b) \/ Rates(b)
  BY <1>2 DEF Submits, Rates, SameContent
<1>3. CASE Withdraws(b)
  <2>1. BidExists(b)
    BY <1>3 DEF Withdraws, BidExists
  <2>2. rfq.status \in RFQStatus \ {"DRAFT"}
    BY <2>1 DEF BidsInv, Placed, RFQExists, TypeOK, RFQs
  <2> QED
    BY <1>3, <2>2 DEF Withdraws, SameContent, RFQStatus
<1>4. CASE Recounts(b)
  BY <1>4, RecountsSame DEF Summed
<1> QED
  BY <1>1, <1>2, <1>3, <1>4 DEF BidStep

\* A step that changes a bid is a BidStep of it: an RFQ that is deleted has none.
LEMMA OneBidStep ==
    ASSUME SourcingInv, [Next]_vars, ~staleCommit', NEW b \in Bids, bid'[b] # bid[b]
    PROVE  ~staleCommit /\ BidStep(b)
<1>1. bid' # bid
  OBVIOUS
<1>2. Next
  BY <1>1 DEF vars
<1>3. PICK c \in Clients : BidWrites(c) \/ deleteRFQ(c)
  <2>1. ~ClosingDatePasses
    BY <1>1 DEF ClosingDatePasses
  <2>2. ASSUME NEW c \in Clients PROVE ~Reads(c) /\ ~WriteFails(c) /\ ~Crash(c)
    <3>1. ~Reads(c)
      <4>1. ASSUME Reads(c) PROVE \E o : Begin(c, o)
        BY <4>1, ReadsTheTruth DEF SourcingInv, RowsInv
      <4> QED
        BY <1>1, <4>1 DEF Begin, rows
    <3> QED
      BY <1>1, <3>1 DEF WriteFails, Crash, Stop, rows
  <2>3. ASSUME NEW c \in Clients
        PROVE  /\ ~createRFQ(c) /\ ~update(c) /\ ~publish(c) /\ ~close(c) /\ ~cancel(c)
               /\ ~inviteVendor(c) /\ ~recalculateTotalRead(c) /\ ~createOrder(c)
    BY <1>1 DEF createRFQ, update, publish, close, cancel, inviteVendor, WriteRFQ,
                recalculateTotalRead, createOrder, rows
  <2> QED
    BY <1>2, <2>1, <2>2, <2>3 DEF Next, RFQNext, BidNext, AwardNext, BidWrites, Reads
<1>4. CASE BidWrites(c)
  <2>1. PICK o, written : Commit(c, o, written) /\ \E a \in Bids : BidStep(a)
    BY <1>4, BidSteps DEF SourcingInv
  <2> QED
    BY <2>1, CommitsOnTruth DEF SourcingInv, BidStep
<1>5. CASE deleteRFQ(c)
  <2>1. ~BidExists(b)
    BY <1>5, DeleteRFQStep DEF SourcingInv
  <2>2. bid'[b] = NoBidRow /\ bid[b] = NoBidRow
    BY <1>5, <2>1 DEF deleteRFQ, SourcingInv, RowsInv, BidsInv
  <2> QED
    BY <2>2
<1> QED
  BY <1>3, <1>4, <1>5

\* As long as no handler writes on an overtaken read: bids are submitted and
\* withdrawn while the RFQ is published only, keep their content from then on, and
\* are final once awarded.
THEOREM BidsAreSealed == Spec => SealedBids
<1>1. SourcingInv /\ [Next]_vars =>
        [~staleCommit' => \A b \in Bids :
          /\ bid[b].status # bid'[b].status /\ bid'[b].status \in {"SUBMITTED", "WITHDRAWN"}
                => rfq.status = "PUBLISHED"
          /\ bid[b].status \in {"SUBMITTED", "WITHDRAWN"}
                => /\ bid'[b].items = bid[b].items
                   /\ bid'[b].totalAmount = bid[b].totalAmount
                   /\ bid'[b].status \notin {"NONE", "DRAFT"}
          /\ bid[b].status = "AWARDED" => bid'[b] = bid[b]]_vars
  <2> SUFFICES ASSUME SourcingInv, [Next]_vars, ~staleCommit', NEW b \in Bids
               PROVE  /\ bid[b].status # bid'[b].status /\ bid'[b].status \in {"SUBMITTED", "WITHDRAWN"}
                            => rfq.status = "PUBLISHED"
                      /\ bid[b].status \in {"SUBMITTED", "WITHDRAWN"}
                            => /\ bid'[b].items = bid[b].items
                               /\ bid'[b].totalAmount = bid[b].totalAmount
                               /\ bid'[b].status \notin {"NONE", "DRAFT"}
                      /\ bid[b].status = "AWARDED" => bid'[b] = bid[b]
    OBVIOUS
  <2>1. CASE bid'[b] = bid[b]
    BY <2>1
  <2>2. CASE bid'[b] # bid[b]
    <3>1. ~staleCommit /\ BidStep(b)
      BY <2>2, OneBidStep
    <3>2. TypeOK /\ BidsInv /\ Placed /\ Summed
      BY <3>1 DEF SourcingInv, RowsInv, TrueInv
    <3> QED
      BY <3>1, <3>2, SealStep
  <2> QED
    BY <2>1, <2>2
<1> QED
  BY <1>1, Invariants, PTL DEF Spec, SealedBids
=============================================================================
