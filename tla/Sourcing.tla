------------------------------ MODULE Sourcing ------------------------------
(***************************************************************************)
(* The sourcing of one approved procurement request: an RFQ, the bids of   *)
(* the vendors invited to it, their evaluation, the award and the purchase *)
(* order drawn up from the awarded bid.  RFQsService, BidsService,         *)
(* BidEvaluationService, PurchaseOrdersService.create and the repositories *)
(* behind them.                                                            *)
(*                                                                         *)
(* Handlers and history variables are those of Receiving.tla: a handler    *)
(* reads, checks and writes by id; a write overtakes the handlers in       *)
(* flight that have read a row it changes.                                 *)
(***************************************************************************)
EXTENDS Integers, FiniteSets, FiniteSetsExt

CONSTANTS
    Clients,        \* handlers that may be in flight together
    Vendors,        \* vendors of the organisation
    Bids,           \* identities of bids
    NoBid,          \* no bid is awarded
    Items,          \* identities of the items of one bid
    Price,          \* the total price of each of them
    Evaluators,     \* users who evaluate bids
    Scores,         \* the total scores they may give
    Unscored        \* no evaluation by that user

ASSUME PriceAssumption == Price \in [Items -> Nat]
ASSUME IdentityAssumption == NoBid \notin Bids /\ Unscored \notin Scores

VARIABLES rfq, bid, award, order, op, overtaken, staleCommit

rows == <<rfq, bid, award, order>>
history == <<overtaken, staleCommit>>
vars == <<rfq, bid, award, order, op, overtaken, staleCommit>>

(***************************************************************************)
(* The tables.  A row that is not there has the status "NONE"; an identity *)
(* no handler remembers may be used again, which renames it and no more.   *)
(***************************************************************************)
RFQStatus == {"DRAFT", "PUBLISHED", "CLOSED", "CANCELLED"}
BidStatus == {"DRAFT", "SUBMITTED", "WITHDRAWN", "AWARDED"}

\* open: the closing date has not passed yet.
RFQs == [status : RFQStatus \cup {"NONE"}, open : BOOLEAN, invited : SUBSET Vendors]
NoRFQ == [status |-> "NONE", open |-> TRUE, invited |-> {}]

calculateTotalCost(items) == SumFunctionOnSet(Price, items)
Totals == {calculateTotalCost(S) : S \in SUBSET Items}

BidRows == [status : BidStatus \cup {"NONE"}, vendor : Vendors \cup {NoBid},
            items : SUBSET Items, totalAmount : Totals,
            scores : [Evaluators -> Scores \cup {Unscored}]]
NoBidRow == [status |-> "NONE", vendor |-> NoBid, items |-> {}, totalAmount |-> 0,
             scores |-> [e \in Evaluators |-> Unscored]]

\* items are those copied from the awarded bid.
Orders == [status : {"NONE", "DRAFT"}, totalAmount : Totals, items : SUBSET Items]
NoOrder == [status |-> "NONE", totalAmount |-> 0, items |-> {}]

RFQExists == rfq.status # "NONE"
BidExists(b) == bid[b].status # "NONE"

(***************************************************************************)
(* Handlers in flight, and the rows each has read.                         *)
(***************************************************************************)
Idle == [pc |-> "idle"]

RFQOps == {"update", "deleteRFQ", "publish", "close", "cancel"}
Ops == {Idle}
       \cup [pc : RFQOps]
       \cup [pc : {"invite"}, vendor : Vendors]
       \cup [pc : {"createBid"}, b : Bids, vendor : Vendors]
       \cup [pc : {"deleteBid", "withdraw", "recalculate", "award"}, b : Bids]
       \cup [pc : {"addItem", "removeItem"}, b : Bids, item : Items]
       \cup [pc : {"submit", "recalculated"}, b : Bids, total : Totals]
       \cup [pc : {"evaluate", "updateEvaluation"}, b : Bids, by : Evaluators, score : Scores]
       \cup [pc : {"createOrder"}, b : Bids, items : SUBSET Items]

InFlight == {c \in Clients : op[c] # Idle}
OnBid(o) == o.pc \notin RFQOps \cup {"idle", "invite"}
Remembered == {op[c].b : c \in {d \in Clients : OnBid(op[d])}}

\* Rows and the ranges of rows a query depends on: a vendor's active bids, a
\* bid's evaluations.
BidRow(b) == <<"bid", b>>
BidsOf(v) == <<"bids of", v>>
ScoresOf(b) == <<"scores of", b>>
RFQRow == <<"rfq">>
AwardRow == <<"award">>
OrderRow == <<"order">>
AllRows == {RFQRow, AwardRow, OrderRow} \cup {BidRow(b) : b \in Bids}
           \cup {BidsOf(v) : v \in Vendors} \cup {ScoresOf(b) : b \in Bids}

RowsRead(o) ==
    CASE o.pc \in RFQOps \cup {"invite"} -> {RFQRow}
      [] o.pc = "createBid" -> {RFQRow, BidsOf(o.vendor)}
      [] o.pc \in {"submit", "withdraw"} -> {RFQRow, BidRow(o.b)}
      [] o.pc = "evaluate" -> {BidRow(o.b)}
      [] o.pc = "updateEvaluation" -> {BidRow(o.b), ScoresOf(o.b), AwardRow}
      [] o.pc = "award" -> {BidRow(o.b), ScoresOf(o.b), AwardRow}
      [] o.pc = "createOrder" -> {BidRow(o.b), AwardRow, OrderRow}
      [] o.pc = "idle" -> {}
      [] OTHER -> {BidRow(o.b)}

Begin(c, o) == /\ op[c] = Idle
               /\ op' = [op EXCEPT ![c] = o]
               /\ UNCHANGED <<rows, history>>

\* c writes the rows and goes on as o; the handlers that have read one of them
\* are overtaken.
Commit(c, o, written) ==
    /\ op' = [op EXCEPT ![c] = o]
    /\ staleCommit' = (staleCommit \/ c \in overtaken)
    /\ overtaken' = IF staleCommit' THEN {}
                    ELSE (overtaken \cup {d \in InFlight : RowsRead(op[d]) \cap written # {}}) \ {c}

Stop(c) == /\ op' = [op EXCEPT ![c] = Idle]
           /\ overtaken' = overtaken \ {c}
           /\ UNCHANGED <<rows, staleCommit>>

Init == /\ rfq = NoRFQ
        /\ bid = [b \in Bids |-> NoBidRow]
        /\ award = NoBid
        /\ order = NoOrder
        /\ op = [c \in Clients |-> Idle]
        /\ overtaken = {} /\ staleCommit = FALSE

(***************************************************************************)
(* RFQsService.                                                            *)
(***************************************************************************)
\* The request is approved, which nothing undoes.  The row is a new one: no
\* handler in flight knows it.
createRFQ(c) == /\ InFlight = {}
                /\ ~RFQExists
                /\ rfq' = [NoRFQ EXCEPT !.status = "DRAFT"]
                /\ Commit(c, Idle, {RFQRow})
                /\ UNCHANGED <<bid, award, order>>

WriteRFQ(c, row) == /\ RFQExists
                    /\ rfq' = row
                    /\ Commit(c, Idle, {RFQRow})
                    /\ UNCHANGED <<bid, award, order>>

\* Of what an update changes the closing date alone matters here; the new one lies
\* in the future.
updateRead(c) == rfq.status \in {"DRAFT", "PUBLISHED"} /\ Begin(c, [pc |-> "update"])
update(c) == op[c].pc = "update" /\ WriteRFQ(c, [rfq EXCEPT !.open = TRUE])

deleteRFQRead(c) == rfq.status = "DRAFT" /\ Begin(c, [pc |-> "deleteRFQ"])

\* Invitations, bids, evaluations, the award and the order go with the RFQ
\* (onDelete: Cascade).
deleteRFQ(c) == /\ op[c].pc = "deleteRFQ"
                /\ RFQExists
                /\ rfq' = NoRFQ
                /\ bid' = [b \in Bids |-> NoBidRow]
                /\ award' = NoBid
                /\ order' = NoOrder
                /\ Commit(c, Idle, AllRows)

publishRead(c) == /\ rfq.status = "DRAFT"
                  /\ rfq.invited # {}
                  /\ Begin(c, [pc |-> "publish"])
publish(c) == op[c].pc = "publish" /\ WriteRFQ(c, [rfq EXCEPT !.status = "PUBLISHED"])

closeRead(c) == rfq.status = "PUBLISHED" /\ Begin(c, [pc |-> "close"])
close(c) == op[c].pc = "close" /\ WriteRFQ(c, [rfq EXCEPT !.status = "CLOSED"])

cancelRead(c) == rfq.status \in {"DRAFT", "PUBLISHED"} /\ Begin(c, [pc |-> "cancel"])
cancel(c) == op[c].pc = "cancel" /\ WriteRFQ(c, [rfq EXCEPT !.status = "CANCELLED"])

inviteVendorRead(c) ==
    /\ rfq.status = "DRAFT"
    /\ \E v \in Vendors \ rfq.invited : Begin(c, [pc |-> "invite", vendor |-> v])

\* An invitation is unique per RFQ and vendor.
inviteVendor(c) ==
    /\ op[c].pc = "invite"
    /\ op[c].vendor \notin rfq.invited
    /\ WriteRFQ(c, [rfq EXCEPT !.invited = @ \cup {op[c].vendor}])

\* Time passes: no handler is needed for it and no row is written.
ClosingDatePasses == /\ RFQExists
                     /\ rfq.open
                     /\ rfq' = [rfq EXCEPT !.open = FALSE]
                     /\ UNCHANGED <<bid, award, order, op, history>>

(***************************************************************************)
(* BidsService.                                                            *)
(***************************************************************************)
WriteBid(c, b, row, next, written) == /\ BidExists(b)
                                      /\ bid' = [bid EXCEPT ![b] = row]
                                      /\ Commit(c, next, written)
                                      /\ UNCHANGED <<rfq, award, order>>

assertRfqOpen == rfq.status = "PUBLISHED" /\ rfq.open
isRfqClosed == rfq.status \in {"CLOSED", "CANCELLED"} \/ ~rfq.open

ActiveBids(v) == {b \in Bids : bid[b].vendor = v /\ bid[b].status \in {"DRAFT", "SUBMITTED"}}

\* Faulty variant: the vendor's other bids are not looked up.
createAnyBidRead(c) ==
    /\ assertRfqOpen
    /\ \E v \in rfq.invited, b \in Bids \ Remembered :
          /\ ~BidExists(b)
          /\ Begin(c, [pc |-> "createBid", b |-> b, vendor |-> v])

createBidRead(c) ==
    /\ assertRfqOpen
    /\ \E v \in rfq.invited, b \in Bids \ Remembered :
          /\ ~BidExists(b)
          /\ ActiveBids(v) = {}
          /\ Begin(c, [pc |-> "createBid", b |-> b, vendor |-> v])

createBid(c) ==
    /\ op[c].pc = "createBid"
    /\ RFQExists
    /\ bid' = [bid EXCEPT ![op[c].b] =
                  [NoBidRow EXCEPT !.status = "DRAFT", !.vendor = op[c].vendor]]
    /\ Commit(c, Idle, {BidsOf(op[c].vendor)})
    /\ UNCHANGED <<rfq, award, order>>

\* Faulty variant: a submitted bid may still be modified.
notYetDecided(b) == bid[b].status \in {"DRAFT", "SUBMITTED"}

assertDraftOwner(b) == bid[b].status = "DRAFT"

deleteBidRead(c) == \E b \in Bids : /\ assertDraftOwner(b)
                                    /\ Begin(c, [pc |-> "deleteBid", b |-> b])

\* The bid's award and the order drawn up from it go with it (onDelete: Cascade).
deleteBid(c) ==
    LET b == op[c].b IN
    /\ op[c].pc = "deleteBid"
    /\ BidExists(b)
    /\ bid' = [bid EXCEPT ![b] = NoBidRow]
    /\ \/ award = b /\ award' = NoBid /\ order' = NoOrder
       \/ award # b /\ UNCHANGED <<award, order>>
    /\ Commit(c, Idle, {BidRow(b), BidsOf(bid[b].vendor), ScoresOf(b)}
                       \cup IF award = b THEN {AwardRow, OrderRow} ELSE {})
    /\ UNCHANGED rfq

amountsMatch(b) == /\ bid[b].items # {}
                   /\ bid[b].totalAmount = calculateTotalCost(bid[b].items)

\* Faulty variant: the total amount is not compared with the items.
submitUncheckedRead(c) ==
    \E b \in Bids : /\ assertDraftOwner(b)
                    /\ assertRfqOpen
                    /\ bid[b].items # {}
                    /\ Begin(c, [pc |-> "submit", b |-> b, total |-> bid[b].totalAmount])

submitBidRead(c) ==
    \E b \in Bids : /\ assertDraftOwner(b)
                    /\ assertRfqOpen
                    /\ amountsMatch(b)
                    /\ Begin(c, [pc |-> "submit", b |-> b, total |-> bid[b].totalAmount])

\* The invitation's RESPONDED mark is read by nobody.
submitBid(c) ==
    LET b == op[c].b IN
    /\ op[c].pc = "submit"
    /\ WriteBid(c, b, [bid[b] EXCEPT !.status = "SUBMITTED", !.totalAmount = op[c].total],
                Idle, {BidRow(b), BidsOf(bid[b].vendor)})

withdrawRead(c) == \E b \in Bids : /\ bid[b].status = "SUBMITTED"
                                   /\ ~isRfqClosed
                                   /\ Begin(c, [pc |-> "withdraw", b |-> b])

withdraw(c) ==
    LET b == op[c].b IN
    /\ op[c].pc = "withdraw"
    /\ WriteBid(c, b, [bid[b] EXCEPT !.status = "WITHDRAWN"], Idle,
                {BidRow(b), BidsOf(bid[b].vendor)})

FreshItems(b) ==
    Items \ (bid[b].items
             \cup {op[d].item : d \in {e \in Clients : op[e].pc \in {"addItem", "removeItem"}}})

addItemRead(c) ==
    \E b \in Bids : \E i \in FreshItems(b) :
        /\ assertDraftOwner(b)
        /\ Begin(c, [pc |-> "addItem", b |-> b, item |-> i])

\* Two transactions: the item, then the total over the items found by a new query.
addItem(c) ==
    LET b == op[c].b IN
    /\ op[c].pc = "addItem"
    /\ WriteBid(c, b, [bid[b] EXCEPT !.items = @ \cup {op[c].item}],
                [pc |-> "recalculate", b |-> b], {BidRow(b)})

removeItemRead(c) ==
    \E b \in Bids : \E i \in bid[b].items :
        /\ assertDraftOwner(b)
        /\ Begin(c, [pc |-> "removeItem", b |-> b, item |-> i])

removeItem(c) ==
    LET b == op[c].b IN
    /\ op[c].pc = "removeItem"
    /\ op[c].item \in bid[b].items
    /\ WriteBid(c, b, [bid[b] EXCEPT !.items = @ \ {op[c].item}],
                [pc |-> "recalculate", b |-> b], {BidRow(b)})

\* Faulty variant: the sum is added to the total there was.
accumulateTotalRead(c) ==
    LET b == op[c].b IN
    /\ op[c].pc = "recalculate"
    /\ op' = [op EXCEPT ![c] = [pc |-> "recalculated", b |-> b,
                                total |-> bid[b].totalAmount + calculateTotalCost(bid[b].items)]]
    /\ overtaken' = overtaken \ {c}
    /\ UNCHANGED <<rows, staleCommit>>

recalculateTotalRead(c) ==
    /\ op[c].pc = "recalculate"
    /\ op' = [op EXCEPT ![c] = [pc |-> "recalculated", b |-> op[c].b,
                                total |-> calculateTotalCost(bid[op[c].b].items)]]
    /\ overtaken' = overtaken \ {c}
    /\ UNCHANGED <<rows, staleCommit>>

recalculateTotal(c) ==
    LET b == op[c].b IN
    /\ op[c].pc = "recalculated"
    /\ WriteBid(c, b, [bid[b] EXCEPT !.totalAmount = op[c].total], Idle, {BidRow(b)})

(***************************************************************************)
(* BidEvaluationService.                                                   *)
(***************************************************************************)
createEvaluationRead(c) ==
    \E b \in Bids, e \in Evaluators, s \in Scores :
        /\ bid[b].status = "SUBMITTED"
        /\ Begin(c, [pc |-> "evaluate", b |-> b, by |-> e, score |-> s])

\* An evaluation is unique per bid and evaluator.
createEvaluation(c) ==
    LET b == op[c].b IN
    /\ op[c].pc = "evaluate"
    /\ bid[b].scores[op[c].by] = Unscored
    /\ WriteBid(c, b, [bid[b] EXCEPT !.scores[op[c].by] = op[c].score], Idle, {ScoresOf(b)})

updateEvaluationRead(c) ==
    \E b \in Bids, e \in Evaluators, s \in Scores :
        /\ bid[b].scores[e] # Unscored
        /\ award # b
        /\ bid[b].status # "AWARDED"
        /\ Begin(c, [pc |-> "updateEvaluation", b |-> b, by |-> e, score |-> s])

updateEvaluation(c) ==
    LET b == op[c].b IN
    /\ op[c].pc = "updateEvaluation"
    /\ bid[b].scores[op[c].by] # Unscored
    /\ WriteBid(c, b, [bid[b] EXCEPT !.scores[op[c].by] = op[c].score], Idle, {ScoresOf(b)})

Evaluated(b) == \E e \in Evaluators : bid[b].scores[e] # Unscored

\* Faulty variant: a bid nobody has evaluated may be awarded.
awardUnevaluatedRead(c) ==
    \E b \in Bids : /\ bid[b].status = "SUBMITTED"
                    /\ award = NoBid
                    /\ Begin(c, [pc |-> "award", b |-> b])

awardBidRead(c) ==
    \E b \in Bids : /\ bid[b].status = "SUBMITTED"
                    /\ award = NoBid
                    /\ Evaluated(b)
                    /\ Begin(c, [pc |-> "award", b |-> b])

\* An award is unique per procurement request.
awardBid(c) ==
    LET b == op[c].b IN
    /\ op[c].pc = "award"
    /\ award = NoBid
    /\ BidExists(b)
    /\ award' = b
    /\ bid' = [bid EXCEPT ![b].status = "AWARDED"]
    /\ Commit(c, Idle, {AwardRow, BidRow(b), BidsOf(bid[b].vendor)})
    /\ UNCHANGED <<rfq, order>>

(***************************************************************************)
(* PurchaseOrdersService.create; Receiving.tla has the rest of the order's *)
(* life.                                                                   *)
(***************************************************************************)
createOrderRead(c) ==
    /\ award # NoBid
    /\ bid[award].status = "AWARDED"
    /\ bid[award].items # {}
    /\ order.status = "NONE"
    /\ Begin(c, [pc |-> "createOrder", b |-> award, items |-> bid[award].items])

\* An order is unique per award.
createOrder(c) ==
    /\ op[c].pc = "createOrder"
    /\ award = op[c].b
    /\ order.status = "NONE"
    /\ order' = [status |-> "DRAFT", items |-> op[c].items,
                 totalAmount |-> calculateTotalCost(op[c].items)]
    /\ Commit(c, Idle, {OrderRow})
    /\ UNCHANGED <<rfq, bid, award>>

(***************************************************************************)
(* The ways a handler ends without a write.                                *)
(***************************************************************************)
WriteFails(c) ==
    LET o == op[c] IN
    /\ \/ o.pc \in RFQOps \cup {"invite", "createBid"} /\ ~RFQExists
       \/ o.pc = "invite" /\ o.vendor \in rfq.invited
       \/ OnBid(o) /\ o.pc \notin {"createBid", "createOrder", "recalculate"} /\ ~BidExists(o.b)
       \/ o.pc = "removeItem" /\ o.item \notin bid[o.b].items
       \/ o.pc = "evaluate" /\ bid[o.b].scores[o.by] # Unscored
       \/ o.pc = "award" /\ award # NoBid
       \/ o.pc = "createOrder" /\ (award # o.b \/ order.status # "NONE")
    /\ Stop(c)

\* The process dies: an open transaction is rolled back, nothing is resumed.
Crash(c) == op[c] # Idle /\ Stop(c)

RFQNext(c) == \/ createRFQ(c)
              \/ updateRead(c)       \/ update(c)
              \/ deleteRFQRead(c)    \/ deleteRFQ(c)
              \/ publishRead(c)      \/ publish(c)
              \/ closeRead(c)        \/ close(c)
              \/ cancelRead(c)       \/ cancel(c)
              \/ inviteVendorRead(c) \/ inviteVendor(c)

BidNext(c) == \/ createBidRead(c)  \/ createBid(c)
              \/ deleteBidRead(c)  \/ deleteBid(c)
              \/ submitBidRead(c)  \/ submitBid(c)
              \/ withdrawRead(c)   \/ withdraw(c)
              \/ addItemRead(c)    \/ addItem(c)
              \/ removeItemRead(c) \/ removeItem(c)
              \/ recalculateTotalRead(c) \/ recalculateTotal(c)

AwardNext(c) == \/ createEvaluationRead(c) \/ createEvaluation(c)
                \/ updateEvaluationRead(c) \/ updateEvaluation(c)
                \/ awardBidRead(c)         \/ awardBid(c)
                \/ createOrderRead(c)      \/ createOrder(c)

Next == \/ ClosingDatePasses
        \/ \E c \in Clients : \/ RFQNext(c) \/ BidNext(c) \/ AwardNext(c)
                              \/ WriteFails(c) \/ Crash(c)

Spec == Init /\ [][Next]_vars

(***************************************************************************)
(* Properties.                                                             *)
(***************************************************************************)
\* Every table, handler and history variable holds a value of its type.
TypeOK == /\ rfq \in RFQs
          /\ bid \in [Bids -> BidRows]
          /\ award \in Bids \cup {NoBid}
          /\ order \in Orders
          /\ op \in [Clients -> Ops]
          /\ overtaken \in SUBSET Clients
          /\ staleCommit \in BOOLEAN

\* However handlers overlap, at most one bid is awarded, it is the one the award
\* names, somebody has evaluated it, and no order outlives the award it is for.
AwardNamesTheWinner ==
    /\ \A b \in Bids : bid[b].status = "AWARDED" => award = b
    /\ award # NoBid => BidExists(award) /\ Evaluated(award)
    /\ order.status # "NONE" => award # NoBid

\* As long as no handler writes on an overtaken read, a vendor has one active bid
\* on the RFQ at most and a bid is there only while its vendor is invited.
OneActiveBid ==
    ~staleCommit =>
        /\ \A v \in Vendors : Cardinality(ActiveBids(v)) <= 1
        /\ \A b \in Bids : BidExists(b) => bid[b].vendor \in rfq.invited

\* As long as no handler writes on an overtaken read, the amount of a bid under
\* evaluation is the sum of its items, and an order is for the amount and the
\* items of the bid awarded, whichever handlers have died on the way.
OrderCostsWhatWasBid ==
    ~staleCommit =>
        /\ \A b \in Bids : bid[b].status \in {"SUBMITTED", "AWARDED"} => amountsMatch(b)
        /\ award # NoBid => bid[award].status = "AWARDED"
        /\ order.status # "NONE" => /\ order.items = bid[award].items
                                    /\ order.totalAmount = bid[award].totalAmount

\* As long as no handler writes on an overtaken read, a bid is submitted or
\* withdrawn while its RFQ is published only, never changes in content once it is
\* submitted, and is final with its scores once it is awarded.
SealedBids ==
    [][~staleCommit' => \A b \in Bids :
          /\ bid[b].status # bid'[b].status /\ bid'[b].status \in {"SUBMITTED", "WITHDRAWN"}
                => rfq.status = "PUBLISHED"
          /\ bid[b].status \in {"SUBMITTED", "WITHDRAWN"}
                => /\ bid'[b].items = bid[b].items
                   /\ bid'[b].totalAmount = bid[b].totalAmount
                   /\ bid'[b].status \notin {"NONE", "DRAFT"}
          /\ bid[b].status = "AWARDED" => bid'[b] = bid[b]]_vars

\* "rejects duplicate active bid": no vendor has two active bids on an RFQ.
NeverTwoActiveBids == \A v \in Vendors : Cardinality(ActiveBids(v)) <= 1
=============================================================================
