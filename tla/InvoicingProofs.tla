-------------------------- MODULE InvoicingProofs --------------------------
(***************************************************************************)
(* Theorems about Invoicing, for every set of handlers, every order with   *)
(* its prices and every set of bills.                                      *)
(***************************************************************************)
EXTENDS Invoicing, SumTheorems

(***************************************************************************)
(* Bills and their sums.                                                   *)
(***************************************************************************)
LEMMA Products == \A a, b \in Nat : a * b \in Nat
OBVIOUS

\* What may stand on an invoice: finitely many items, all of this order.
Billed(b) == IsBill(b) /\ IsFiniteSet(DOMAIN b)

LEMMA Empty == /\ DOMAIN EmptyBag = {}
               /\ Billed(EmptyBag)
               /\ \A b : IsABag(b) => (b = EmptyBag <=> DOMAIN b = {})
<1>1. DOMAIN EmptyBag = {} /\ EmptyBag = [e \in {} |-> 1]
  BY DEF EmptyBag, SetToBag
<1>2. ASSUME NEW b, IsABag(b), DOMAIN b = {} PROVE b = EmptyBag
  <2>1. b \in [{} -> {n \in Nat : n > 0}]
    BY <1>2 DEF IsABag
  <2> QED
    BY <1>1, <2>1
<1>3. Billed(EmptyBag)
  BY <1>1, FS_EmptySet DEF Billed, IsBill, IsABag
<1> QED
  BY <1>1, <1>2, <1>3

LEMMA BillsAreBilled == \A b \in Bills : Billed(b) /\ b # EmptyBag
<1>1. ASSUME NEW b \in Bills PROVE DOMAIN b \subseteq BillItems
  BY BillAssumption DEF BillItems
<1> QED
  BY <1>1, BillAssumption DEF Billed, IsBill

\* Two lists of items on one invoice.
LEMMA BothBilled ==
    ASSUME NEW a, NEW b, Billed(a), Billed(b)
    PROVE  /\ Billed(a (+) b)
           /\ b # EmptyBag => a (+) b # EmptyBag
           /\ a = EmptyBag => a (+) b = b
<1> DEFINE D == DOMAIN a \cup DOMAIN b
           N(e) == (IF e \in DOMAIN a THEN a[e] ELSE 0) + (IF e \in DOMAIN b THEN b[e] ELSE 0)
<1>1. a (+) b = [e \in D |-> N(e)]
  BY DEF (+)
<1>2. \A e \in D : N(e) \in Nat /\ N(e) > 0
  BY DEF Billed, IsBill, IsABag
<1>3. D \subseteq BillItems /\ IsFiniteSet(D)
  BY FS_Union DEF Billed, IsBill
<1>4. DOMAIN (a (+) b) = D
  BY <1>1
<1>5. IsABag(a (+) b)
  <2> HIDE DEF N, D
  <2> QED
    BY <1>1, <1>2, <1>4 DEF IsABag
<1>6. ASSUME b # EmptyBag PROVE a (+) b # EmptyBag
  <2>1. D # {}
    BY <1>6, Empty DEF Billed, IsBill
  <2> QED
    BY <1>4, <1>5, <2>1, Empty
<1>7. ASSUME a = EmptyBag PROVE a (+) b = b
  <2>1. D = DOMAIN b
    BY <1>7, Empty
  <2>2. \A e \in D : N(e) = b[e]
    BY <1>7, <2>1, Empty DEF Billed, IsBill, IsABag
  <2>3. b = [e \in D |-> b[e]]
    BY <2>1 DEF Billed, IsBill, IsABag
  <2> QED
    BY <1>1, <2>2, <2>3
<1> QED
  BY <1>3, <1>4, <1>5, <1>6, <1>7 DEF Billed, IsBill

LEMMA SubtotalIsNat == \A b : Billed(b) => calculateItemsSubtotal(b) \in Nat
<1> SUFFICES ASSUME NEW b, Billed(b) PROVE calculateItemsSubtotal(b) \in Nat
  OBVIOUS
<1> DEFINE f == [i \in DOMAIN b |-> b[i] * i.quantity * i.unitPrice]
<1>1. ASSUME NEW i \in DOMAIN b PROVE f[i] \in Nat
  <2>1. b[i] \in Nat /\ i.quantity \in Nat /\ i.unitPrice \in Nat
    BY DEF Billed, IsBill, IsABag, BillItems
  <2>2. b[i] * i.quantity \in Nat
    BY <2>1, Products
  <2>3. b[i] * i.quantity * i.unitPrice \in Nat
    BY <2>1, <2>2, Products
  <2> QED
    BY <2>3
<1>2. IsFiniteSet(DOMAIN b) /\ DOMAIN f = DOMAIN b
  BY DEF Billed
<1>3. calculateItemsSubtotal(b) = SumFunctionOnSet(f, DOMAIN b)
  BY <1>2 DEF calculateItemsSubtotal, SumFunction
<1> HIDE DEF f
<1> QED
  BY <1>1, <1>2, <1>3, SumNat

\* Lines of which nothing was received are worth nothing.
LEMMA ReceivedAlone ==
    ASSUME NEW received \in [Lines -> Nat], NEW L \in SUBSET Lines,
           \A l \in Lines \ L : received[l] = 0
    PROVE  SumFunctionOnSet(Worth(received), L) = SumFunction(Worth(received))
<1>1. \A l \in Lines : Worth(received)[l] = received[l] * UnitPrice[l]
  BY DEF Worth
<1>2. \A l \in Lines : Worth(received)[l] \in Int
  BY <1>1, OrderAssumption, Products
<1>3. \A l \in Lines \ L : Worth(received)[l] = 0
  BY <1>1, OrderAssumption
<1>4. SumFunctionOnSet(Worth(received), L) = SumFunctionOnSet(Worth(received), Lines)
  BY <1>2, <1>3, OrderAssumption, SumSupport
<1>5. DOMAIN Worth(received) = Lines
  BY DEF Worth
<1> QED
  BY <1>4, <1>5 DEF SumFunction

(***************************************************************************)
(* Type correctness.                                                       *)
(***************************************************************************)
InvoiceRow(row) ==
    /\ row = [status |-> row.status, items |-> row.items, subtotal |-> row.subtotal,
              match |-> row.match]
    /\ row.status \in InvoiceStatus \cup {"NONE"}
    /\ row.match \in MatchStatus \cup {"NONE"}
    /\ row.subtotal \in Nat
    /\ Billed(row.items)
    /\ row.items = EmptyBag <=> row.status = "NONE"

\* The types, with the finiteness that a sum needs.
TypeInv == TypeOK /\ InvoiceRow(invoice)

Writes(c) == \/ create(c) \/ update(c) \/ replaceItems(c) \/ delete(c) \/ submit(c)
             \/ upsertMatchingResult(c) \/ setMatchedStatus(c)
             \/ approve(c) \/ reject(c) \/ markPaid(c)

\* c has written the invoice and goes on as o; the others are where they were.
Committed(c, o) == /\ op' \in [Clients -> Ops]
                   /\ op'[c] = o
                   /\ \A d \in Clients \ {c} : op'[d].pc = op[d].pc
                   /\ Overtake(c)

LEMMA OpsMade ==
    /\ Idle \in Ops
    /\ \A b \in Bills, pc \in {"create", "replaceDelete"} : [pc |-> pc, items |-> b] \in Ops
    /\ \A b \in Bills, k \in Bills \cup {EmptyBag} :
          [pc |-> "replace", items |-> b, kept |-> k] \in Ops
    /\ \A n \in Nat : [pc |-> "update", subtotal |-> n] \in Ops
    /\ \A m \in MatchStatus : [pc |-> "matched", result |-> m] \in Ops
    /\ \A pc \in {"delete", "submit", "setMatched", "approve", "reject", "markPaid"} :
          [pc |-> pc] \in Ops
BY DEF Ops

\* A handler's place in its code tells what it remembers.
LEMMA TypeOfOps ==
    ASSUME NEW o \in Ops
    PROVE  /\ o.pc = "idle" <=> o = Idle
           /\ o.pc \in {"create", "replaceDelete", "replace"} => o.items \in Bills
           /\ o.pc = "replace" => /\ o.kept \in Bills \cup {EmptyBag}
                                  /\ o = [pc |-> "replace", items |-> o.items, kept |-> o.kept]
           /\ o.pc = "update" => o.subtotal \in Nat
           /\ o.pc = "matched" => o.result \in MatchStatus
BY DEF Ops, Idle

LEMMA MatchIsTyped == runThreeWayMatch \in MatchStatus
BY DEF runThreeWayMatch, MatchStatus

LEMMA NoInvoiceIsTyped == InvoiceRow(NoInvoice)
BY Empty DEF InvoiceRow, NoInvoice, Billed, IsBill

LEMMA RowOfInvoice ==
    ASSUME TypeInv
    PROVE  /\ invoice = [status |-> invoice.status, items |-> invoice.items,
                         subtotal |-> invoice.subtotal, match |-> invoice.match]
           /\ Billed(invoice.items) /\ invoice.subtotal \in Nat
BY DEF TypeInv, InvoiceRow

\* A new status for an invoice that is there, and nothing else.
LEMMA NewStatus ==
    ASSUME TypeInv, NEW c \in Clients, NEW st \in InvoiceStatus, SetStatus(c, st)
    PROVE  /\ InvoiceExists
           /\ invoice' = [status |-> st, items |-> invoice.items, subtotal |-> invoice.subtotal,
                          match |-> invoice.match]
           /\ Committed(c, Idle)
<1>1. InvoiceExists /\ invoice' = [invoice EXCEPT !.status = st] /\ Commit(c, Idle)
  BY DEF SetStatus, Write
<1>2. invoice' = [status |-> st, items |-> invoice.items, subtotal |-> invoice.subtotal,
                  match |-> invoice.match]
  BY <1>1, RowOfInvoice
<1>3. Committed(c, Idle)
  BY <1>1, OpsMade DEF Commit, Committed, TypeInv, TypeOK
<1> QED
  BY <1>1, <1>2, <1>3

LEMMA Going ==
    ASSUME TypeInv, NEW c \in Clients, NEW o \in Ops, Commit(c, o)
    PROVE  Committed(c, o)
BY DEF Commit, Committed, TypeInv, TypeOK

\* What every write leaves in the invoice's row.
LEMMA Written ==
    ASSUME TypeInv, NEW c \in Clients
    PROVE  /\ create(c) =>
                 /\ invoice' = [status |-> "DRAFT", items |-> op[c].items,
                                subtotal |-> calculateItemsSubtotal(op[c].items), match |-> "NONE"]
                 /\ Committed(c, Idle)
           /\ update(c) =>
                 /\ InvoiceExists
                 /\ invoice' = [status |-> invoice.status, items |-> invoice.items,
                                subtotal |-> op[c].subtotal, match |-> invoice.match]
                 /\ Committed(c, Idle)
           /\ replaceItems(c) =>
                 /\ InvoiceExists
                 /\ invoice' = [status |-> invoice.status, items |-> op[c].kept (+) op[c].items,
                                subtotal |-> calculateItemsSubtotal(op[c].items),
                                match |-> invoice.match]
                 /\ Committed(c, Idle)
           /\ delete(c) => InvoiceExists /\ invoice' = NoInvoice /\ Committed(c, Idle)
           /\ upsertMatchingResult(c) =>
                 /\ InvoiceExists
                 /\ invoice' = [status |-> invoice.status, items |-> invoice.items,
                                subtotal |-> invoice.subtotal, match |-> op[c].result]
                 /\ Committed(c, IF op[c].result = "MATCHED" THEN [pc |-> "setMatched"] ELSE Idle)
<1>1. ASSUME create(c)
      PROVE  /\ invoice' = [status |-> "DRAFT", items |-> op[c].items,
                            subtotal |-> calculateItemsSubtotal(op[c].items), match |-> "NONE"]
             /\ Committed(c, Idle)
  BY <1>1, Going, OpsMade DEF create, NoInvoice
<1>2. ASSUME update(c)
      PROVE  /\ InvoiceExists
             /\ invoice' = [status |-> invoice.status, items |-> invoice.items,
                            subtotal |-> op[c].subtotal, match |-> invoice.match]
             /\ Committed(c, Idle)
  <2>1. InvoiceExists /\ invoice' = [invoice EXCEPT !.subtotal = op[c].subtotal] /\ Commit(c, Idle)
    BY <1>2 DEF update, Write
  <2> QED
    BY <2>1, RowOfInvoice, Going, OpsMade
<1>3. ASSUME replaceItems(c)
      PROVE  /\ InvoiceExists
             /\ invoice' = [status |-> invoice.status, items |-> op[c].kept (+) op[c].items,
                            subtotal |-> calculateItemsSubtotal(op[c].items),
                            match |-> invoice.match]
             /\ Committed(c, Idle)
  <2> DEFINE After(d) == IF d = c THEN Idle
                         ELSE IF op[d].pc = "replace" THEN [op[d] EXCEPT !.kept = op[c].items]
                         ELSE op[d]
  <2>1. /\ op[c].pc = "replace" /\ InvoiceExists /\ Overtake(c)
        /\ invoice' = [invoice EXCEPT !.items = op[c].kept (+) op[c].items,
                                      !.subtotal = calculateItemsSubtotal(op[c].items)]
        /\ op' = [d \in Clients |-> After(d)]
    BY <1>3 DEF replaceItems
  <2>2. op[c].items \in Bills
    BY <2>1, TypeOfOps DEF TypeInv, TypeOK
  <2>3. ASSUME NEW d \in Clients PROVE After(d) \in Ops /\ (d # c => After(d).pc = op[d].pc)
    <3>1. op[d] \in Ops
      BY DEF TypeInv, TypeOK
    <3>2. CASE d # c /\ op[d].pc = "replace"
      <4>1. op[d] = [pc |-> "replace", items |-> op[d].items, kept |-> op[d].kept]
            /\ op[d].items \in Bills
        BY <3>1, <3>2, TypeOfOps
      <4>2. After(d) = [pc |-> "replace", items |-> op[d].items, kept |-> op[c].items]
        BY <3>2, <4>1
      <4> QED
        BY <2>2, <3>2, <4>1, <4>2, OpsMade
    <3> QED
      BY <3>1, <3>2, OpsMade
  <2>4. Committed(c, Idle)
    <3>1. After(c) = Idle
      OBVIOUS
    <3> HIDE DEF After
    <3> QED
      BY <2>1, <2>3, <3>1 DEF Committed
  <2> QED
    BY <2>1, <2>4, RowOfInvoice
<1>4. ASSUME delete(c) PROVE InvoiceExists /\ invoice' = NoInvoice /\ Committed(c, Idle)
  BY <1>4, Going, OpsMade DEF delete, Write
<1>5. ASSUME upsertMatchingResult(c)
      PROVE  /\ InvoiceExists
             /\ invoice' = [status |-> invoice.status, items |-> invoice.items,
                            subtotal |-> invoice.subtotal, match |-> op[c].result]
             /\ Committed(c, IF op[c].result = "MATCHED" THEN [pc |-> "setMatched"] ELSE Idle)
  <2>1. /\ InvoiceExists /\ invoice' = [invoice EXCEPT !.match = op[c].result]
        /\ Commit(c, IF op[c].result = "MATCHED" THEN [pc |-> "setMatched"] ELSE Idle)
    BY <1>5 DEF upsertMatchingResult, Write
  <2> QED
    BY <2>1, RowOfInvoice, Going, OpsMade
<1> QED
  BY <1>1, <1>2, <1>3, <1>4, <1>5

LEMMA TypeInit == Init => TypeInv
<1> SUFFICES ASSUME Init PROVE TypeInv
  OBVIOUS
<1>1. invoice = NoInvoice
  BY DEF Init
<1>2. InvoiceRow(invoice)
  BY <1>1, NoInvoiceIsTyped
<1>3. /\ receipt \in [status : {"DRAFT", "RECEIVED", "REJECTED", "COMPLETED"},
                      lines : SUBSET Lines, received : [Lines -> Nat]]
      /\ orderActive \in BOOLEAN /\ overtaken \subseteq InFlight /\ staleCommit \in BOOLEAN
  <2>1. PICK L \in SUBSET Lines :
             receipt = [status |-> "DRAFT", lines |-> L, received |-> [l \in Lines |-> 0]]
    BY DEF Init
  <2>2. orderActive \in BOOLEAN /\ overtaken \subseteq InFlight /\ staleCommit \in BOOLEAN
    BY DEF Init
  <2>3. [l \in Lines |-> 0] \in [Lines -> Nat]
    OBVIOUS
  <2> QED
    BY <2>1, <2>2, <2>3
<1>4. op \in [Clients -> Ops]
  BY OpsMade DEF Init
<1> QED
  BY <1>2, <1>3, <1>4 DEF TypeInv, TypeOK, InvoiceRow, InvoiceExists, Billed

\* The row is typed, and so are the handlers; the receipt is as it was.
LEMMA TypeCommitted ==
    ASSUME TypeInv, NEW c \in Clients, NEW o, Committed(c, o), InvoiceRow(invoice')
    PROVE  TypeInv'
<1>1. /\ receipt' = receipt /\ orderActive' = orderActive /\ overtaken' = InFlight \ {c}
      /\ staleCommit' \in BOOLEAN /\ op' \in [Clients -> Ops]
  BY DEF Committed, Overtake, TypeInv, TypeOK
<1>2. overtaken' \subseteq InFlight'
  <2> SUFFICES ASSUME NEW d \in Clients \ {c}, op[d] # Idle PROVE op'[d] # Idle
    BY <1>1 DEF InFlight
  <2>1. op[d] \in Ops /\ op'[d] \in Ops /\ op'[d].pc = op[d].pc
    BY <1>1 DEF Committed, TypeInv, TypeOK
  <2> QED
    BY <2>1, TypeOfOps
<1> QED
  BY <1>1, <1>2 DEF TypeInv, TypeOK, InvoiceRow, InvoiceExists, Billed

LEMMA TypeBegin == ASSUME TypeInv, NEW c \in Clients, NEW o \in Ops \ {Idle}, Begin(c, o) PROVE TypeInv'
<1>1. /\ op' = [op EXCEPT ![c] = o] /\ invoice' = invoice /\ receipt' = receipt
      /\ orderActive' = orderActive /\ overtaken' = overtaken /\ staleCommit' = staleCommit
  BY DEF Begin, history
<1>2. overtaken' \subseteq InFlight'
  BY <1>1 DEF TypeInv, TypeOK, InFlight
<1> QED
  BY <1>1, <1>2 DEF TypeInv, TypeOK, InvoiceRow, InvoiceExists, Billed

LEMMA TypeStop == ASSUME TypeInv, NEW c \in Clients, Stop(c) PROVE TypeInv'
<1>1. /\ op' = [op EXCEPT ![c] = Idle] /\ invoice' = invoice /\ receipt' = receipt
      /\ orderActive' = orderActive /\ overtaken' = overtaken \ {c} /\ staleCommit' = staleCommit
  BY DEF Stop
<1>2. overtaken' \subseteq InFlight'
  BY <1>1 DEF TypeInv, TypeOK, InFlight
<1> QED
  BY <1>1, <1>2, OpsMade DEF TypeInv, TypeOK, InvoiceRow, InvoiceExists, Billed

LEMMA TypeMoveReceipt ==
    ASSUME TypeInv, NEW row, MoveReceipt(row),
           row \in [status : {"DRAFT", "RECEIVED", "REJECTED", "COMPLETED"}, lines : SUBSET Lines,
                    received : [Lines -> Nat]]
    PROVE  TypeInv'
<1>1. /\ op' = op /\ invoice' = invoice /\ receipt' = row /\ orderActive' = orderActive
      /\ overtaken' = overtaken \cup {c \in Clients : ReadsReceipt(op[c])}
      /\ staleCommit' = staleCommit
  BY DEF MoveReceipt
<1>2. overtaken' \subseteq InFlight'
  <2> SUFFICES ASSUME NEW c \in Clients, ReadsReceipt(op[c]) PROVE op[c] # Idle
    BY <1>1 DEF TypeInv, TypeOK, InFlight
  <2> QED
    BY DEF ReadsReceipt, Idle
<1> QED
  BY <1>1, <1>2 DEF TypeInv, TypeOK, InvoiceRow, InvoiceExists, Billed

\* A write leaves a row of the type, with items exactly if there is an invoice.
LEMMA TypeWritten == ASSUME TypeInv, NEW c \in Clients, Writes(c) PROVE InvoiceRow(invoice')
<1>1. op[c] \in Ops
  BY DEF TypeInv, TypeOK
<1>2. CASE create(c)
  <2>1. op[c].items \in Bills
    BY <1>1, <1>2, TypeOfOps DEF create
  <2>2. Billed(op[c].items) /\ op[c].items # EmptyBag
        /\ calculateItemsSubtotal(op[c].items) \in Nat
    BY <2>1, BillsAreBilled, SubtotalIsNat
  <2>3. invoice' = [status |-> "DRAFT", items |-> op[c].items,
                    subtotal |-> calculateItemsSubtotal(op[c].items), match |-> "NONE"]
    BY <1>2, Written
  <2> QED
    BY <2>2, <2>3 DEF InvoiceRow, InvoiceStatus
<1>3. CASE update(c)
  <2>1. op[c].subtotal \in Nat
    BY <1>1, <1>3, TypeOfOps DEF update
  <2>2. invoice' = [status |-> invoice.status, items |-> invoice.items,
                    subtotal |-> op[c].subtotal, match |-> invoice.match]
    BY <1>3, Written
  <2> QED
    BY <2>1, <2>2 DEF InvoiceRow, TypeInv
<1>4. CASE replaceItems(c)
  <2>1. op[c].items \in Bills /\ op[c].kept \in Bills \cup {EmptyBag}
    BY <1>1, <1>4, TypeOfOps DEF replaceItems
  <2>2. /\ Billed(op[c].items) /\ Billed(op[c].kept) /\ op[c].items # EmptyBag
        /\ calculateItemsSubtotal(op[c].items) \in Nat
    BY <2>1, BillsAreBilled, SubtotalIsNat, Empty
  <2>3. Billed(op[c].kept (+) op[c].items) /\ op[c].kept (+) op[c].items # EmptyBag
    BY <2>2, BothBilled
  <2>4. InvoiceExists
        /\ invoice' = [status |-> invoice.status, items |-> op[c].kept (+) op[c].items,
                       subtotal |-> calculateItemsSubtotal(op[c].items),
                       match |-> invoice.match]
    BY <1>4, Written
  <2> QED
    BY <2>2, <2>3, <2>4 DEF InvoiceRow, TypeInv, InvoiceExists
<1>5. CASE delete(c)
  BY <1>5, Written, NoInvoiceIsTyped
<1>6. CASE upsertMatchingResult(c)
  <2>1. op[c].result \in MatchStatus
    BY <1>1, <1>6, TypeOfOps DEF upsertMatchingResult
  <2>2. invoice' = [status |-> invoice.status, items |-> invoice.items,
                    subtotal |-> invoice.subtotal, match |-> op[c].result]
    BY <1>6, Written
  <2> QED
    BY <2>1, <2>2 DEF InvoiceRow, TypeInv
<1>7. CASE submit(c) \/ setMatchedStatus(c) \/ approve(c) \/ reject(c) \/ markPaid(c)
  <2>1. PICK st \in InvoiceStatus : SetStatus(c, st)
    BY <1>7 DEF submit, setMatchedStatus, approve, reject, markPaid, InvoiceStatus
  <2>2. InvoiceExists
        /\ invoice' = [status |-> st, items |-> invoice.items, subtotal |-> invoice.subtotal,
                       match |-> invoice.match]
    BY <2>1, NewStatus
  <2> QED
    BY <2>2 DEF InvoiceRow, TypeInv, InvoiceExists, InvoiceStatus
<1> QED
  BY <1>2, <1>3, <1>4, <1>5, <1>6, <1>7 DEF Writes

\* c has written, and goes on as o.
LEMMA WritesCommit ==
    ASSUME TypeInv, NEW c \in Clients, Writes(c)
    PROVE  \E o \in {Idle, [pc |-> "setMatched"]} : Committed(c, o)
<1>1. CASE submit(c) \/ setMatchedStatus(c) \/ approve(c) \/ reject(c) \/ markPaid(c)
  <2>1. PICK st \in InvoiceStatus : SetStatus(c, st)
    BY <1>1 DEF submit, setMatchedStatus, approve, reject, markPaid, InvoiceStatus
  <2> QED
    BY <2>1, NewStatus
<1>2. CASE create(c) \/ update(c) \/ replaceItems(c) \/ delete(c) \/ upsertMatchingResult(c)
  BY <1>2, Written
<1> QED
  BY <1>1, <1>2 DEF Writes

(***************************************************************************)
(* What a handler has read.                                                *)
(***************************************************************************)
\* What a handler at o relies on when it writes.
Truth(o) ==
    /\ o.pc \in {"replaceDelete", "replace", "update", "delete", "submit"} =>
          invoice.status = "DRAFT"
    /\ o.pc = "replace" => o.kept = EmptyBag
    /\ o.pc = "update" => o.subtotal = invoice.subtotal
    /\ o.pc = "submit" => assertInvoiceItemsTotal
    /\ o.pc \in {"matched", "setMatched"} => invoice.status = "SUBMITTED"
    /\ o.pc = "matched" => o.result = runThreeWayMatch
    /\ o.pc = "setMatched" => invoice.match = "MATCHED" /\ runThreeWayMatch = "MATCHED"
    /\ o.pc = "approve" => invoice.status = "MATCHED"
    /\ o.pc = "reject" => invoice.status \in {"SUBMITTED", "MATCHED"}
    /\ o.pc = "markPaid" => invoice.status = "APPROVED"

\* A handler begins with an invoice that is there and, to approve or pay it, with
\* one that was matched; or, to create one, alone.
Begins(o) == /\ o.pc = "create" => InFlight = {} /\ ~InvoiceExists
             /\ o.pc # "create" => InvoiceExists
             /\ o.pc \in {"setMatched", "approve", "markPaid"} => invoice.match # "NONE"

Reads(c) == \/ createRead(c) \/ updateRead(c) \/ deleteRead(c) \/ submitRead(c)
            \/ matchRead(c) \/ approveRead(c) \/ rejectRead(c) \/ markPaidRead(c)

\* What a handler has just read is the truth.
LEMMA ReadsTheTruth ==
    ASSUME TypeInv, ApprovalNeedsMatching, NEW c \in Clients, Reads(c)
    PROVE  \E o \in Ops \ {Idle} : Begin(c, o) /\ Truth(o) /\ Begins(o)
<1>1. CASE createRead(c)
  <2>1. PICK b \in Bills : InFlight = {} /\ ~InvoiceExists /\ Begin(c, [pc |-> "create", items |-> b])
    BY <1>1 DEF createRead
  <2> DEFINE o == [pc |-> "create", items |-> b]
  <2>2. o \in Ops \ {Idle} /\ Truth(o) /\ Begins(o)
    BY <2>1, OpsMade DEF Truth, Begins, Idle
  <2> QED
    BY <2>1, <2>2
<1>2. ASSUME NEW b \in Bills, draftOnly, Begin(c, [pc |-> "replaceDelete", items |-> b])
      PROVE  \E o \in Ops \ {Idle} : Begin(c, o) /\ Truth(o) /\ Begins(o)
  <2> DEFINE o == [pc |-> "replaceDelete", items |-> b]
  <2>1. o \in Ops \ {Idle} /\ Truth(o) /\ Begins(o)
    BY <1>2, OpsMade DEF Truth, Begins, Idle, draftOnly, InvoiceExists
  <2> QED
    BY <1>2, <2>1
<1>3. ASSUME draftOnly, Begin(c, [pc |-> "update", subtotal |-> invoice.subtotal])
      PROVE  \E o \in Ops \ {Idle} : Begin(c, o) /\ Truth(o) /\ Begins(o)
  <2> DEFINE o == [pc |-> "update", subtotal |-> invoice.subtotal]
  <2>1. o \in Ops \ {Idle} /\ Truth(o) /\ Begins(o)
    BY <1>3, OpsMade, RowOfInvoice DEF Truth, Begins, Idle, draftOnly, InvoiceExists
  <2> QED
    BY <1>3, <2>1
<1>4. CASE matchRead(c)
  <2> DEFINE o == [pc |-> "matched", result |-> runThreeWayMatch]
  <2>1. invoice.status = "SUBMITTED" /\ Begin(c, o)
    BY <1>4 DEF matchRead
  <2>2. o \in Ops \ {Idle}
    BY OpsMade, MatchIsTyped DEF Idle
  <2>3. Truth(o) /\ Begins(o)
    BY <2>1 DEF Truth, Begins, InvoiceExists
  <2> QED
    BY <2>1, <2>2, <2>3
<1>5. CASE deleteRead(c) \/ submitRead(c) \/ approveRead(c) \/ rejectRead(c) \/ markPaidRead(c)
  <2>1. PICK pc \in {"delete", "submit", "approve", "reject", "markPaid"} :
             /\ Begin(c, [pc |-> pc])
             /\ pc \in {"delete", "submit"} => invoice.status = "DRAFT"
             /\ pc = "submit" => assertInvoiceItemsTotal
             /\ pc = "approve" => invoice.status = "MATCHED"
             /\ pc = "reject" => invoice.status \in {"SUBMITTED", "MATCHED"}
             /\ pc = "markPaid" => invoice.status = "APPROVED"
    BY <1>5 DEF deleteRead, submitRead, approveRead, rejectRead, markPaidRead, draftOnly
  <2> DEFINE o == [pc |-> pc]
  <2>2. o \in Ops \ {Idle}
    BY OpsMade DEF Idle
  <2>3. Truth(o)
    BY <2>1 DEF Truth
  <2>4. Begins(o)
    BY <2>1 DEF Begins, InvoiceExists, ApprovalNeedsMatching
  <2> QED
    BY <2>1, <2>2, <2>3, <2>4
<1> QED
  BY <1>1, <1>2, <1>3, <1>4, <1>5 DEF Reads, updateRead

(***************************************************************************)
(* The receipt.                                                            *)
(***************************************************************************)
\* A line that is not on the receipt received nothing.
ReceiptInv == \A l \in Lines \ receipt.lines : receipt.received[l] = 0

ReceiptMoves == GoodsReceived \/ GoodsRejected \/ ReceiptCompleted

ReceiptRow(row) ==
    /\ row \in [status : {"DRAFT", "RECEIVED", "REJECTED", "COMPLETED"}, lines : SUBSET Lines,
                received : [Lines -> Nat]]
    /\ \A l \in Lines \ row.lines : row.received[l] = 0

LEMMA ReceiptMoved ==
    ASSUME TypeInv, ReceiptInv, ReceiptMoves
    PROVE  \E row : ReceiptRow(row) /\ MoveReceipt(row)
<1>0. ReceiptRow(receipt)
  BY DEF TypeInv, TypeOK, ReceiptInv, ReceiptRow
<1>1. CASE GoodsReceived
  <2>1. PICK l \in receipt.lines : \E q \in 1 .. Quantity[l] :
             MoveReceipt([receipt EXCEPT !.status = "RECEIVED", !.received[l] = q])
    BY <1>1 DEF GoodsReceived
  <2>2. PICK q \in 1 .. Quantity[l] :
             MoveReceipt([receipt EXCEPT !.status = "RECEIVED", !.received[l] = q])
    BY <2>1
  <2>3. l \in Lines /\ q \in Nat
    BY <1>0, OrderAssumption DEF ReceiptRow
  <2>4. ReceiptRow([receipt EXCEPT !.status = "RECEIVED", !.received[l] = q])
    <3> DEFINE row == [receipt EXCEPT !.status = "RECEIVED", !.received[l] = q]
               Rows == [status : {"DRAFT", "RECEIVED", "REJECTED", "COMPLETED"},
                        lines : SUBSET Lines, received : [Lines -> Nat]]
    <3>1. row \in Rows
      BY <1>0, <2>3 DEF ReceiptRow
    <3>2. row.lines = receipt.lines
      BY <1>0 DEF ReceiptRow
    <3>3. \A k \in Lines \ receipt.lines : row.received[k] = receipt.received[k]
      BY <1>0, <2>1 DEF ReceiptRow
    <3>4. ReceiptRow(row)
      <4> HIDE DEF row
      <4> QED
        BY <1>0, <3>1, <3>2, <3>3 DEF ReceiptRow
    <3> QED
      BY <3>4
  <2> QED
    BY <2>2, <2>4
<1>2. CASE GoodsRejected \/ ReceiptCompleted
  <2>1. PICK st \in {"RECEIVED", "REJECTED", "COMPLETED"} : MoveReceipt([receipt EXCEPT !.status = st])
    BY <1>2 DEF GoodsRejected, ReceiptCompleted
  <2>2. ReceiptRow([receipt EXCEPT !.status = st])
    BY <1>0 DEF ReceiptRow
  <2> QED
    BY <2>1, <2>2
<1> QED
  BY <1>1, <1>2 DEF ReceiptMoves

(***************************************************************************)
(* Every step.                                                             *)
(***************************************************************************)
\* A step of the invoice's life: goods move, the order is cancelled, or a handler
\* reads, deletes old items, writes, or ends.
LEMMA Steps ==
    ASSUME Next
    PROVE  \/ ReceiptMoves \/ OrderCancelled
           \/ \E c \in Clients : \/ Reads(c) \/ replaceItemsDelete(c) \/ Writes(c) \/ Stop(c)
BY DEF Next, ReceiptMoves, Reads, Writes, WriteFails, Crash

LEMMA DeletedItems ==
    ASSUME TypeInv, NEW c \in Clients, replaceItemsDelete(c)
    PROVE  /\ op[c].pc = "replaceDelete" /\ op[c].items \in Bills
           /\ op' = [op EXCEPT ![c] = [pc |-> "replace", items |-> op[c].items, kept |-> EmptyBag]]
           /\ invoice' = invoice /\ receipt' = receipt /\ orderActive' = orderActive
           /\ overtaken' = overtaken /\ staleCommit' = staleCommit
           /\ TypeInv'
<1>1. /\ op[c].pc = "replaceDelete" /\ op[c].items \in Bills
      /\ op' = [op EXCEPT ![c] = [pc |-> "replace", items |-> op[c].items, kept |-> EmptyBag]]
      /\ invoice' = invoice /\ receipt' = receipt /\ orderActive' = orderActive
      /\ overtaken' = overtaken /\ staleCommit' = staleCommit
  BY TypeOfOps DEF replaceItemsDelete, history, TypeInv, TypeOK
<1> DEFINE o == [pc |-> "replace", items |-> op[c].items, kept |-> EmptyBag]
<1>2. o \in Ops \ {Idle}
  BY <1>1, OpsMade DEF Idle
<1>3. TypeInv'
  <2>1. op' = [op EXCEPT ![c] = o]
    BY <1>1
  <2> HIDE DEF o
  <2>2. overtaken' \subseteq InFlight'
    BY <1>1, <1>2, <2>1 DEF TypeInv, TypeOK, InFlight
  <2> QED
    BY <1>1, <1>2, <2>1, <2>2 DEF TypeInv, TypeOK, InvoiceRow, InvoiceExists, Billed
<1> QED
  BY <1>1, <1>3

\* The invariant that every overlap keeps.
RowsInv ==
    /\ ReceiptInv
    /\ ApprovalNeedsMatching
    /\ \A c \in Clients :
          /\ op[c].pc = "create" =>
                ~InvoiceExists /\ \A d \in Clients \ {c} : op[d].pc = "idle"
          /\ op[c].pc \in {"setMatched", "approve", "markPaid"} /\ InvoiceExists =>
                invoice.match # "NONE"

LEMMA TypeNext == ASSUME TypeInv, RowsInv, Next PROVE TypeInv'
<1>1. CASE ReceiptMoves
  BY <1>1, ReceiptMoved, TypeMoveReceipt DEF ReceiptRow, RowsInv
<1>2. CASE OrderCancelled
  <2>1. /\ op' = op /\ invoice' = invoice /\ receipt' = receipt /\ orderActive' = FALSE
        /\ overtaken' = overtaken /\ staleCommit' = staleCommit
    BY <1>2 DEF OrderCancelled, history
  <2> QED
    BY <2>1 DEF TypeInv, TypeOK, InvoiceRow, InvoiceExists, InFlight, Billed
<1>3. ASSUME NEW c \in Clients, Reads(c) PROVE TypeInv'
  BY <1>3, ReadsTheTruth, TypeBegin DEF RowsInv
<1>4. ASSUME NEW c \in Clients, replaceItemsDelete(c) PROVE TypeInv'
  BY <1>4, DeletedItems
<1>5. ASSUME NEW c \in Clients, Writes(c) PROVE TypeInv'
  BY <1>5, WritesCommit, TypeWritten, TypeCommitted
<1>6. ASSUME NEW c \in Clients, Stop(c) PROVE TypeInv'
  BY <1>6, TypeStop
<1> QED
  BY <1>1, <1>2, <1>3, <1>4, <1>5, <1>6, Steps

(***************************************************************************)
(* Under any overlap.                                                      *)
(***************************************************************************)
\* A write creates the invoice or finds it there; it never takes a match back, and
\* it moves an invoice past the match only after a match.
LEMMA WriteKeepsTheMatch ==
    ASSUME TypeInv, RowsInv, NEW c \in Clients, Writes(c)
    PROVE  /\ op[c].pc # "idle"
           /\ InvoiceExists' => InvoiceExists \/ op[c].pc = "create"
           /\ op[c].pc # "create" /\ InvoiceExists' /\ invoice.match # "NONE" =>
                 invoice'.match # "NONE"
           /\ ApprovalNeedsMatching'
           /\ op'[c].pc = "setMatched" => invoice'.match # "NONE"
<1>1. CASE create(c)
  <2>1. invoice'.status = "DRAFT" /\ op'[c] = Idle
    BY <1>1, Written DEF Committed
  <2> QED
    BY <1>1, <2>1 DEF create, ApprovalNeedsMatching, Idle
<1>2. CASE update(c) \/ replaceItems(c)
  <2>1. /\ InvoiceExists /\ op[c].pc \in {"update", "replace"} /\ op'[c] = Idle
        /\ invoice'.status = invoice.status /\ invoice'.match = invoice.match
    <3>1. CASE update(c)
      BY <3>1, Written DEF Committed, update
    <3>2. CASE replaceItems(c)
      BY <3>2, Written DEF Committed, replaceItems
    <3> QED
      BY <1>2, <3>1, <3>2
  <2> QED
    BY <2>1 DEF RowsInv, ApprovalNeedsMatching, InvoiceExists, Idle
<1>3. CASE delete(c)
  <2>1. InvoiceExists /\ invoice' = NoInvoice /\ op[c].pc = "delete" /\ op'[c] = Idle
    BY <1>3, Written DEF Committed, delete
  <2> QED
    BY <2>1 DEF NoInvoice, InvoiceExists, ApprovalNeedsMatching, Idle
<1>4. CASE upsertMatchingResult(c)
  <2>1. op[c].pc = "matched" /\ op[c].result \in MatchStatus
    BY <1>4, TypeOfOps DEF upsertMatchingResult, TypeInv, TypeOK
  <2>2. InvoiceExists /\ invoice'.match = op[c].result
    BY <1>4, Written
  <2> QED
    BY <2>1, <2>2 DEF MatchStatus, ApprovalNeedsMatching
<1>5. CASE submit(c) \/ setMatchedStatus(c) \/ approve(c) \/ reject(c) \/ markPaid(c)
  <2>1. PICK st \in InvoiceStatus :
             /\ SetStatus(c, st)
             /\ op[c].pc \in {"submit", "setMatched", "approve", "reject", "markPaid"}
             /\ st \in {"MATCHED", "APPROVED", "PAID"} =>
                   op[c].pc \in {"setMatched", "approve", "markPaid"}
    BY <1>5 DEF submit, setMatchedStatus, approve, reject, markPaid, InvoiceStatus
  <2>2. /\ InvoiceExists /\ op'[c] = Idle
        /\ invoice'.status = st /\ invoice'.match = invoice.match
    BY <2>1, NewStatus DEF Committed
  <2> QED
    BY <2>1, <2>2 DEF RowsInv, ApprovalNeedsMatching, Idle
<1> QED
  BY <1>1, <1>2, <1>3, <1>4, <1>5 DEF Writes

LEMMA RowsInit == Init => RowsInv
<1> SUFFICES ASSUME Init PROVE RowsInv
  OBVIOUS
<1>1. PICK L \in SUBSET Lines :
           receipt = [status |-> "DRAFT", lines |-> L, received |-> [l \in Lines |-> 0]]
  BY DEF Init
<1>2. invoice.status = "NONE" /\ \A c \in Clients : op[c].pc = "idle"
  BY DEF Init, NoInvoice, Idle
<1> QED
  BY <1>1, <1>2 DEF RowsInv, ReceiptInv, ApprovalNeedsMatching

LEMMA RowsBegin ==
    ASSUME TypeInv, RowsInv, NEW c \in Clients, NEW o \in Ops, Begin(c, o), Begins(o)
    PROVE  RowsInv'
<1>1. op' = [op EXCEPT ![c] = o] /\ invoice' = invoice /\ receipt' = receipt
  BY DEF Begin
<1>2. op \in [Clients -> Ops]
  BY DEF TypeInv, TypeOK
<1>3. ASSUME NEW d \in Clients, op'[d].pc = "create"
      PROVE  ~InvoiceExists /\ \A e \in Clients \ {d} : op'[e].pc = "idle"
  <2>1. CASE o.pc = "create"
    <3>1. ~InvoiceExists /\ \A e \in Clients : op[e].pc = "idle"
      BY <2>1 DEF Begins, InFlight, Idle
    <3>2. d = c
      BY <1>1, <1>2, <1>3, <3>1
    <3> QED
      BY <1>1, <1>2, <3>1, <3>2
  <2>2. CASE o.pc # "create"
    <3>1. InvoiceExists /\ op[d].pc = "create"
      BY <1>1, <1>2, <1>3, <2>2 DEF Begins
    <3> QED
      BY <3>1 DEF RowsInv
  <2> QED
    BY <2>1, <2>2
<1>4. ASSUME NEW d \in Clients, op'[d].pc \in {"setMatched", "approve", "markPaid"}, InvoiceExists
      PROVE  invoice.match # "NONE"
  BY <1>1, <1>2, <1>4 DEF RowsInv, Begins
<1> QED
  BY <1>1, <1>3, <1>4 DEF RowsInv, ReceiptInv, ApprovalNeedsMatching, InvoiceExists

LEMMA RowsNext == ASSUME TypeInv, RowsInv, Next PROVE RowsInv'
<1>0. op \in [Clients -> Ops]
  BY DEF TypeInv, TypeOK
<1>1. CASE ReceiptMoves
  <2>1. PICK row : ReceiptRow(row) /\ receipt' = row /\ invoice' = invoice /\ op' = op
    BY <1>1, ReceiptMoved DEF MoveReceipt, RowsInv
  <2> QED
    BY <2>1 DEF RowsInv, ReceiptRow, ReceiptInv, ApprovalNeedsMatching, InvoiceExists
<1>2. CASE OrderCancelled
  BY <1>2 DEF OrderCancelled, RowsInv, ReceiptInv, ApprovalNeedsMatching, InvoiceExists
<1>3. ASSUME NEW c \in Clients, Reads(c) PROVE RowsInv'
  BY <1>3, ReadsTheTruth, RowsBegin DEF RowsInv
<1>4. ASSUME NEW c \in Clients, replaceItemsDelete(c) PROVE RowsInv'
  <2>1. /\ op[c].pc = "replaceDelete" /\ invoice' = invoice /\ receipt' = receipt
        /\ op' = [op EXCEPT ![c] = [pc |-> "replace", items |-> op[c].items, kept |-> EmptyBag]]
    BY <1>4, DeletedItems
  <2>2. op'[c].pc = "replace" /\ \A d \in Clients \ {c} : op'[d] = op[d]
    BY <1>0, <2>1
  <2>3. \A d \in Clients : op'[d].pc \in {"create", "setMatched", "approve", "markPaid"} => op'[d] = op[d]
    BY <2>2
  <2>4. \A d \in Clients \ {c} : op[d].pc # "create"
    BY <2>1 DEF RowsInv
  <2> QED
    BY <2>1, <2>2, <2>3, <2>4 DEF RowsInv, ReceiptInv, ApprovalNeedsMatching, InvoiceExists
<1>5. ASSUME NEW c \in Clients, Writes(c) PROVE RowsInv'
  <2>1. PICK o \in {Idle, [pc |-> "setMatched"]} : Committed(c, o)
    BY <1>5, WritesCommit
  <2>2. /\ op'[c].pc \in {"idle", "setMatched"} /\ receipt' = receipt
        /\ \A d \in Clients \ {c} : op'[d].pc = op[d].pc
    BY <2>1 DEF Committed, Overtake, Idle
  <2>3. \A d \in Clients : op'[d].pc # "create"
    <3>1. \A d \in Clients \ {c} : op[d].pc # "create"
      BY <1>5, WriteKeepsTheMatch DEF RowsInv
    <3> QED
      BY <2>2, <3>1
  <2>4. ASSUME NEW d \in Clients, op'[d].pc \in {"setMatched", "approve", "markPaid"}, InvoiceExists'
        PROVE  invoice'.match # "NONE"
    <3>1. CASE d = c
      BY <1>5, <2>2, <2>4, <3>1, WriteKeepsTheMatch
    <3>2. CASE d # c
      <4>1. op[d].pc \in {"setMatched", "approve", "markPaid"}
        BY <2>2, <2>4, <3>2
      <4>2. op[c].pc # "create"
        BY <3>2, <4>1 DEF RowsInv
      <4> QED
        BY <1>5, <2>4, <4>1, <4>2, WriteKeepsTheMatch DEF RowsInv
    <3> QED
      BY <3>1, <3>2
  <2>5. ApprovalNeedsMatching' /\ ReceiptInv'
    BY <1>5, <2>2, WriteKeepsTheMatch DEF RowsInv, ReceiptInv
  <2> QED
    BY <2>3, <2>4, <2>5 DEF RowsInv
<1>6. ASSUME NEW c \in Clients, Stop(c) PROVE RowsInv'
  <2>1. op' = [op EXCEPT ![c] = Idle] /\ invoice' = invoice /\ receipt' = receipt
    BY <1>6 DEF Stop
  <2>2. op'[c].pc = "idle" /\ \A d \in Clients \ {c} : op'[d] = op[d]
    BY <1>0, <2>1 DEF Idle
  <2>3. \A d \in Clients : op'[d].pc = "idle" \/ op'[d] = op[d]
    BY <2>2
  <2> QED
    BY <2>1, <2>3 DEF RowsInv, ReceiptInv, ApprovalNeedsMatching, InvoiceExists
<1> QED
  BY <1>1, <1>2, <1>3, <1>4, <1>5, <1>6, Steps

LEMMA RowsCorrect == Spec => [](TypeInv /\ RowsInv)
<1>1. TypeInv /\ RowsInv /\ UNCHANGED vars => TypeInv' /\ RowsInv'
  BY DEF TypeInv, TypeOK, InvoiceRow, Billed, RowsInv, ReceiptInv, ApprovalNeedsMatching,
         InvoiceExists, InFlight, vars
<1> QED
  BY <1>1, TypeInit, TypeNext, RowsInit, RowsNext, PTL DEF Spec

\* The tables, the handlers and the history variables keep their types, for every
\* order and every set of bills; an invoice has items, and a deleted one has none.
THEOREM TypeCorrect == Spec => []TypeOK
BY RowsCorrect, PTL DEF TypeInv

\* However many handlers overlap or die, no invoice is matched, approved or paid
\* that has not been through the three-way match.
THEOREM PaidOnlyIfMatched == Spec => []ApprovalNeedsMatching
BY RowsCorrect, PTL DEF RowsInv

(***************************************************************************)
(* As long as no handler writes over what it did not read.                 *)
(***************************************************************************)
TrueInvoice ==
    InvoiceExists =>
        /\ assertInvoiceItemsTotal
        /\ invoice.status \in {"MATCHED", "APPROVED", "PAID"} =>
               invoice.match = "MATCHED" /\ invoice.subtotal = poTotal

\* The invoice is true, and so is what every handler remembers that nobody overtook.
TrueInv == ~staleCommit => TrueInvoice /\ \A c \in Clients \ overtaken : Truth(op[c])

\* What a match that succeeds has established.
LEMMA MatchFound ==
    ASSUME TypeInv, ReceiptInv, runThreeWayMatch = "MATCHED"
    PROVE  /\ \A i \in DOMAIN invoice.items : i.quantity = receipt.received[i.line]
           /\ invoice.subtotal = poTotal
           /\ invoice.subtotal = SumFunction(Worth(receipt.received))
<1>1. /\ ~QuantityMismatch(invoice.items, receipt.received)
      /\ ~PriceMismatch(invoice.items, invoice.subtotal)
  BY DEF runThreeWayMatch
<1>2. \A i \in DOMAIN invoice.items : i.quantity = receipt.received[i.line]
  BY <1>1 DEF QuantityMismatch
<1>3. invoice.subtotal = poTotal /\ invoice.subtotal = grnReceivedTotal
  BY <1>1 DEF PriceMismatch
<1>4. grnReceivedTotal = SumFunction(Worth(receipt.received))
  BY ReceivedAlone DEF grnReceivedTotal, ReceiptInv, TypeInv, TypeOK
<1> QED
  BY <1>2, <1>3, <1>4

LEMMA TruthOfIdle == Truth(Idle)
BY DEF Truth, Idle

\* A handler that writes what is still true leaves a true invoice, and goes on with
\* the truth.
LEMMA WritesTheTruth ==
    ASSUME TypeInv, RowsInv, TrueInvoice, NEW c \in Clients, Truth(op[c]), Writes(c)
    PROVE  TrueInvoice' /\ Truth(op[c])'
<1>0. op[c] \in Ops
  BY DEF TypeInv, TypeOK
<1>1. CASE create(c)
  <2>1. /\ op'[c] = Idle
        /\ invoice' = [status |-> "DRAFT", items |-> op[c].items,
                       subtotal |-> calculateItemsSubtotal(op[c].items), match |-> "NONE"]
    BY <1>1, Written DEF Committed
  <2>2. invoice'.status = "DRAFT" /\ invoice'.subtotal = calculateItemsSubtotal(invoice'.items)
    BY <2>1
  <2> QED
    BY <2>1, <2>2 DEF TrueInvoice, assertInvoiceItemsTotal, Truth, Idle
<1>2. CASE update(c)
  <2>1. /\ op'[c] = Idle /\ InvoiceExists
        /\ invoice' = [status |-> invoice.status, items |-> invoice.items,
                       subtotal |-> op[c].subtotal, match |-> invoice.match]
    BY <1>2, Written DEF Committed
  <2>2. op[c].subtotal = invoice.subtotal
    BY <1>2 DEF update, Truth
  <2>3. invoice' = invoice
    BY <2>1, <2>2, RowOfInvoice
  <2> QED
    BY <2>1, <2>3 DEF TrueInvoice, assertInvoiceItemsTotal, InvoiceExists, Truth, Idle
<1>3. CASE replaceItems(c)
  <2>1. /\ op'[c] = Idle
        /\ invoice' = [status |-> invoice.status, items |-> op[c].kept (+) op[c].items,
                       subtotal |-> calculateItemsSubtotal(op[c].items),
                       match |-> invoice.match]
    BY <1>3, Written DEF Committed
  <2>2. op[c].kept = EmptyBag /\ invoice.status = "DRAFT" /\ op[c].items \in Bills
    BY <1>0, <1>3, TypeOfOps DEF replaceItems, Truth
  <2>3. op[c].kept (+) op[c].items = op[c].items
    BY <2>2, BillsAreBilled, Empty, BothBilled
  <2>4. invoice'.status = "DRAFT" /\ invoice'.subtotal = calculateItemsSubtotal(invoice'.items)
    BY <2>1, <2>2, <2>3
  <2> QED
    BY <2>1, <2>4 DEF TrueInvoice, assertInvoiceItemsTotal, Truth, Idle
<1>4. CASE delete(c)
  <2>1. op'[c] = Idle /\ invoice' = NoInvoice
    BY <1>4, Written DEF Committed
  <2> QED
    BY <2>1 DEF NoInvoice, TrueInvoice, InvoiceExists, Truth, Idle
<1>5. CASE upsertMatchingResult(c)
  <2>1. /\ invoice' = [status |-> invoice.status, items |-> invoice.items,
                       subtotal |-> invoice.subtotal, match |-> op[c].result]
        /\ op'[c] = IF op[c].result = "MATCHED" THEN [pc |-> "setMatched"] ELSE Idle
        /\ receipt' = receipt
    BY <1>5, Written DEF Committed, Overtake
  <2>2. invoice.status = "SUBMITTED" /\ op[c].result = runThreeWayMatch
    BY <1>5 DEF upsertMatchingResult, Truth
  <2>3. /\ invoice'.status = invoice.status /\ invoice'.items = invoice.items
        /\ invoice'.subtotal = invoice.subtotal /\ invoice'.match = op[c].result
    BY <2>1
  <2>4. runThreeWayMatch' = runThreeWayMatch
    BY <2>1, <2>3 DEF runThreeWayMatch, QuantityMismatch, PriceMismatch, grnReceivedTotal
  <2>5. TrueInvoice'
    BY <2>2, <2>3 DEF TrueInvoice, assertInvoiceItemsTotal, InvoiceExists
  <2>6. CASE op[c].result = "MATCHED"
    <3>1. op'[c].pc = "setMatched"
      BY <2>1, <2>6
    <3>2. Truth(op[c])'
      BY <2>2, <2>3, <2>4, <2>6, <3>1 DEF Truth
    <3> QED
      BY <2>5, <3>2
  <2>7. CASE op[c].result # "MATCHED"
    BY <2>1, <2>5, <2>7 DEF Truth, Idle
  <2> QED
    BY <2>6, <2>7
<1>6. CASE submit(c) \/ setMatchedStatus(c) \/ approve(c) \/ reject(c) \/ markPaid(c)
  <2>1. PICK st \in InvoiceStatus :
             /\ SetStatus(c, st)
             /\ st \in {"MATCHED", "APPROVED", "PAID"} =>
                   \/ op[c].pc = "setMatched"
                   \/ op[c].pc \in {"approve", "markPaid"}
    BY <1>6 DEF submit, setMatchedStatus, approve, reject, markPaid, InvoiceStatus
  <2>2. /\ InvoiceExists /\ op'[c] = Idle
        /\ invoice' = [status |-> st, items |-> invoice.items, subtotal |-> invoice.subtotal,
                       match |-> invoice.match]
    BY <2>1, NewStatus DEF Committed
  <2>3. ASSUME st \in {"MATCHED", "APPROVED", "PAID"}
        PROVE  invoice.match = "MATCHED" /\ invoice.subtotal = poTotal
    <3>1. CASE op[c].pc = "setMatched"
      <4>1. invoice.match = "MATCHED" /\ runThreeWayMatch = "MATCHED"
        BY <3>1 DEF Truth
      <4> QED
        BY <4>1, MatchFound DEF RowsInv
    <3>2. CASE op[c].pc \in {"approve", "markPaid"}
      BY <2>2, <3>2 DEF Truth, TrueInvoice
    <3> QED
      BY <2>1, <2>3, <3>1, <3>2
  <2>4. /\ invoice'.status = st /\ invoice'.items = invoice.items
        /\ invoice'.subtotal = invoice.subtotal /\ invoice'.match = invoice.match
    BY <2>2
  <2>5. assertInvoiceItemsTotal'
    BY <2>2, <2>4 DEF TrueInvoice, assertInvoiceItemsTotal
  <2>6. TrueInvoice'
    BY <2>3, <2>4, <2>5 DEF TrueInvoice
  <2>7. Truth(op[c])'
    BY <2>2 DEF Truth, Idle
  <2> QED
    BY <2>6, <2>7
<1> QED
  BY <1>1, <1>2, <1>3, <1>4, <1>5, <1>6 DEF Writes

LEMMA TrueInit == Init => TrueInv
<1> SUFFICES ASSUME Init PROVE TrueInv
  OBVIOUS
<1>1. ~InvoiceExists /\ \A c \in Clients : op[c] = Idle
  BY DEF Init, NoInvoice, InvoiceExists
<1> QED
  BY <1>1, TruthOfIdle DEF TrueInv, TrueInvoice

\* What is remembered of rows that stay is as true as it was.
LEMMA TruthStays ==
    ASSUME NEW c \in Clients, op'[c] = op[c], Truth(op[c]), invoice' = invoice,
           receipt' = receipt \/ ~ReadsReceipt(op[c])
    PROVE  Truth(op[c])'
<1>1. CASE receipt' = receipt
  BY <1>1 DEF Truth, assertInvoiceItemsTotal, runThreeWayMatch, QuantityMismatch, PriceMismatch,
              grnReceivedTotal
<1>2. CASE ~ReadsReceipt(op[c])
  BY <1>2 DEF Truth, ReadsReceipt, assertInvoiceItemsTotal
<1> QED
  BY <1>1, <1>2

LEMMA TrueNext == ASSUME TypeInv, RowsInv, TrueInv, Next PROVE TrueInv'
<1>0. op \in [Clients -> Ops] /\ staleCommit \in BOOLEAN
  BY DEF TypeInv, TypeOK
<1>1. ASSUME invoice' = invoice, staleCommit' = staleCommit,
             \A d \in Clients \ overtaken' : Truth(op[d])' \/ staleCommit
      PROVE  TrueInv'
  BY <1>1 DEF TrueInv, TrueInvoice, assertInvoiceItemsTotal, InvoiceExists
<1>2. CASE ReceiptMoves
  <2>1. /\ invoice' = invoice /\ op' = op /\ staleCommit' = staleCommit
        /\ overtaken' = overtaken \cup {c \in Clients : ReadsReceipt(op[c])}
    BY <1>2, ReceiptMoved DEF MoveReceipt, RowsInv
  <2>2. ASSUME NEW d \in Clients \ overtaken', ~staleCommit PROVE Truth(op[d])'
    <3>1. Truth(op[d]) /\ ~ReadsReceipt(op[d])
      BY <2>1, <2>2 DEF TrueInv
    <3> QED
      BY <2>1, <3>1, TruthStays
  <2> QED
    BY <1>0, <1>1, <2>1, <2>2
<1>3. CASE OrderCancelled
  <2>1. /\ invoice' = invoice /\ receipt' = receipt /\ op' = op /\ staleCommit' = staleCommit
        /\ overtaken' = overtaken
    BY <1>3 DEF OrderCancelled, history
  <2>2. ASSUME NEW d \in Clients \ overtaken', ~staleCommit PROVE Truth(op[d])'
    BY <2>1, <2>2, TruthStays DEF TrueInv
  <2> QED
    BY <1>0, <1>1, <2>1, <2>2
<1>4. ASSUME NEW c \in Clients, Reads(c) PROVE TrueInv'
  <2>1. PICK o \in Ops \ {Idle} : Begin(c, o) /\ Truth(o)
    BY <1>4, ReadsTheTruth DEF RowsInv
  <2>2. /\ op' = [op EXCEPT ![c] = o] /\ invoice' = invoice /\ receipt' = receipt
        /\ staleCommit' = staleCommit /\ overtaken' = overtaken
    BY <2>1 DEF Begin, history
  <2>3. op'[c] = o /\ \A d \in Clients \ {c} : op'[d] = op[d]
    BY <1>0, <2>2
  <2>4. Truth(op[c])'
    BY <2>1, <2>2, <2>3 DEF Truth, assertInvoiceItemsTotal, runThreeWayMatch, QuantityMismatch,
                            PriceMismatch, grnReceivedTotal
  <2>5. ASSUME NEW d \in Clients \ overtaken', d # c, ~staleCommit PROVE Truth(op[d])'
    <3>1. Truth(op[d]) /\ op'[d] = op[d]
      BY <2>2, <2>3, <2>5 DEF TrueInv
    <3> QED
      BY <2>2, <3>1, TruthStays
  <2> QED
    BY <1>0, <1>1, <2>2, <2>4, <2>5
<1>5. ASSUME NEW c \in Clients, replaceItemsDelete(c) PROVE TrueInv'
  <2>1. /\ op[c].pc = "replaceDelete" /\ invoice' = invoice /\ receipt' = receipt
        /\ op' = [op EXCEPT ![c] = [pc |-> "replace", items |-> op[c].items, kept |-> EmptyBag]]
        /\ overtaken' = overtaken /\ staleCommit' = staleCommit
    BY <1>5, DeletedItems
  <2>2. /\ op'[c].pc = "replace" /\ op'[c].kept = EmptyBag
        /\ \A d \in Clients \ {c} : op'[d] = op[d]
    BY <1>0, <2>1
  <2>3. ASSUME c \notin overtaken, ~staleCommit PROVE Truth(op[c])'
    <3>1. invoice'.status = "DRAFT"
      BY <2>1, <2>3 DEF TrueInv, Truth
    <3> QED
      BY <2>2, <3>1 DEF Truth
  <2>4. ASSUME NEW d \in Clients \ overtaken', d # c, ~staleCommit PROVE Truth(op[d])'
    <3>1. Truth(op[d]) /\ op'[d] = op[d]
      BY <2>1, <2>2, <2>4 DEF TrueInv
    <3> QED
      BY <2>1, <3>1, TruthStays
  <2> QED
    BY <1>0, <1>1, <2>1, <2>3, <2>4
<1>6. ASSUME NEW c \in Clients, Writes(c) PROVE TrueInv'
  <2>1. PICK o \in {Idle, [pc |-> "setMatched"]} : Committed(c, o)
    BY <1>6, WritesCommit
  <2>2. /\ staleCommit' = (staleCommit \/ c \in overtaken) /\ overtaken' = InFlight \ {c}
        /\ \A d \in Clients \ {c} : op'[d].pc = op[d].pc
        /\ op' \in [Clients -> Ops]
    BY <2>1 DEF Committed, Overtake
  <2>3. ASSUME NEW d \in Clients \ overtaken', d # c PROVE Truth(op[d])'
    <3>1. op[d] = Idle
      BY <2>2, <2>3 DEF InFlight
    <3>2. op'[d].pc = "idle"
      BY <2>2, <2>3, <3>1 DEF Idle
    <3> QED
      BY <3>2 DEF Truth
  <2>4. ASSUME ~staleCommit' PROVE TrueInvoice' /\ Truth(op[c])'
    <3>1. TrueInvoice /\ Truth(op[c])
      BY <1>0, <2>2, <2>4 DEF TrueInv
    <3> QED
      BY <1>6, <3>1, WritesTheTruth
  <2> QED
    BY <2>3, <2>4 DEF TrueInv
<1>7. ASSUME NEW c \in Clients, Stop(c) PROVE TrueInv'
  <2>1. /\ invoice' = invoice /\ receipt' = receipt /\ op' = [op EXCEPT ![c] = Idle]
        /\ overtaken' = overtaken \ {c} /\ staleCommit' = staleCommit
    BY <1>7 DEF Stop
  <2>2. op'[c].pc = "idle" /\ \A d \in Clients \ {c} : op'[d] = op[d]
    BY <1>0, <2>1 DEF Idle
  <2>3. Truth(op[c])'
    BY <2>2 DEF Truth
  <2>4. ASSUME NEW d \in Clients \ overtaken', d # c, ~staleCommit PROVE Truth(op[d])'
    <3>1. Truth(op[d]) /\ op'[d] = op[d]
      BY <2>1, <2>2, <2>4 DEF TrueInv
    <3> QED
      BY <2>1, <3>1, TruthStays
  <2> QED
    BY <1>0, <1>1, <2>1, <2>3, <2>4
<1> QED
  BY <1>2, <1>3, <1>4, <1>5, <1>6, <1>7, Steps

\* The inductive invariant.
InvoicingInv == TypeInv /\ RowsInv /\ TrueInv

LEMMA InvoicingCorrect == Spec => []InvoicingInv
<1>1. Init => InvoicingInv
  BY TypeInit, RowsInit, TrueInit DEF InvoicingInv
<1>2. InvoicingInv /\ Next => InvoicingInv'
  BY TypeNext, RowsNext, TrueNext DEF InvoicingInv
<1>3. InvoicingInv /\ UNCHANGED vars => InvoicingInv'
  <2> SUFFICES ASSUME InvoicingInv, UNCHANGED vars PROVE InvoicingInv'
    OBVIOUS
  <2>1. /\ invoice' = invoice /\ receipt' = receipt /\ orderActive' = orderActive /\ op' = op
        /\ overtaken' = overtaken /\ staleCommit' = staleCommit
    BY DEF vars
  <2>2. TypeInv' /\ RowsInv'
    BY <2>1 DEF InvoicingInv, TypeInv, TypeOK, InvoiceRow, Billed, RowsInv, ReceiptInv,
                ApprovalNeedsMatching, InvoiceExists, InFlight
  <2>3. ASSUME NEW d \in Clients \ overtaken, ~staleCommit PROVE Truth(op[d])'
    BY <2>1, <2>3, TruthStays DEF InvoicingInv, TrueInv
  <2>4. TrueInv'
    BY <2>1, <2>3 DEF InvoicingInv, TrueInv, TrueInvoice, assertInvoiceItemsTotal, InvoiceExists
  <2> QED
    BY <2>2, <2>4 DEF InvoicingInv
<1> QED
  BY <1>1, <1>2, <1>3, PTL DEF Spec

\* As long as no handler writes over what it did not read, every invoice declares
\* the sum of its items, and one that passed the match declares what the order
\* costs.
THEOREM AmountsAgree == Spec => []MatchedAmounts
<1>1. InvoicingInv => MatchedAmounts
  BY DEF InvoicingInv, TrueInv, TrueInvoice, assertInvoiceItemsTotal, MatchedAmounts
<1> QED
  BY <1>1, InvoicingCorrect, PTL

(***************************************************************************)
(* A payable claim.                                                        *)
(***************************************************************************)
LEMMA StageOf ==
    /\ Stage["NONE"] = "none" /\ Stage["DRAFT"] = "draft" /\ Stage["SUBMITTED"] = "claimed"
    /\ Stage["MATCHED"] = "verified" /\ Stage["APPROVED"] = "cleared" /\ Stage["PAID"] = "paid"
    /\ Stage["REJECTED"] = "refused"
BY DEF Stage

\* A write that is not stale is a step of the claim.
LEMMA WriteIsAStep ==
    ASSUME InvoicingInv, NEW c \in Clients, Writes(c), ~staleCommit'
    PROVE  Claims!PayableNext
<1>0. /\ op[c] \in Ops /\ TypeInv /\ RowsInv /\ TrueInvoice /\ receipt' = receipt
      /\ Truth(op[c])
  <2>1. TypeInv /\ RowsInv /\ TrueInv /\ op[c] \in Ops /\ staleCommit \in BOOLEAN
    BY DEF InvoicingInv, TypeInv, TypeOK
  <2>2. receipt' = receipt /\ staleCommit' = (staleCommit \/ c \in overtaken)
    BY <2>1, WritesCommit DEF Committed, Overtake
  <2> QED
    BY <2>1, <2>2 DEF TrueInv
<1> USE StageOf
<1>1. CASE create(c)
  <2>1. invoice'.status = "DRAFT"
    BY <1>0, <1>1, Written
  <2>2. invoice.status = "NONE"
    BY <1>0, <1>1 DEF create, RowsInv, InvoiceExists
  <2> QED
    BY <1>0, <2>1, <2>2 DEF Claims!PayableNext, Claims!Draft
<1>2. CASE update(c) \/ replaceItems(c)
  <2>1. invoice.status = "DRAFT"
    BY <1>0, <1>2 DEF update, replaceItems, Truth
  <2>2. invoice'.status = invoice.status
    <3>1. CASE update(c)
      BY <1>0, <3>1, Written
    <3>2. CASE replaceItems(c)
      BY <1>0, <3>2, Written
    <3> QED
      BY <1>2, <3>1, <3>2
  <2> QED
    BY <1>0, <2>1, <2>2 DEF Claims!PayableNext, Claims!Draft
<1>3. CASE delete(c)
  <2>1. invoice.status = "DRAFT"
    BY <1>0, <1>3 DEF delete, Truth
  <2>2. invoice'.status = "NONE" /\ invoice'.items = EmptyBag
    BY <1>0, <1>3, Written DEF NoInvoice
  <2> QED
    BY <1>0, <2>1, <2>2 DEF Claims!PayableNext, Claims!Discard
<1>4. CASE upsertMatchingResult(c)
  <2>1. invoice'.status = invoice.status /\ invoice'.items = invoice.items
    BY <1>0, <1>4, Written
  <2> QED
    BY <2>1 DEF Claims!PayableNext, Claims!Deliver
<1>5. ASSUME NEW st \in InvoiceStatus, SetStatus(c, st)
      PROVE  invoice'.status = st /\ invoice'.items = invoice.items
  BY <1>0, <1>5, NewStatus
<1>6. CASE submit(c)
  <2>1. invoice.status = "DRAFT" /\ SetStatus(c, "SUBMITTED")
    BY <1>0, <1>6 DEF submit, Truth
  <2>2. invoice'.status = "SUBMITTED" /\ invoice'.items = invoice.items
    BY <1>5, <2>1 DEF InvoiceStatus
  <2> QED
    BY <1>0, <2>1, <2>2 DEF Claims!PayableNext, Claims!Claim, Claims!Move
<1>7. CASE setMatchedStatus(c)
  <2>1. invoice.status = "SUBMITTED" /\ SetStatus(c, "MATCHED") /\ runThreeWayMatch = "MATCHED"
    BY <1>0, <1>7 DEF setMatchedStatus, Truth
  <2>2. invoice'.status = "MATCHED" /\ invoice'.items = invoice.items
    BY <1>5, <2>1 DEF InvoiceStatus
  <2>3. AgreesWithGoods(invoice.items, receipt.received)
    <3>1. invoice.subtotal = calculateItemsSubtotal(invoice.items)
      BY <1>0, <2>1 DEF TrueInvoice, InvoiceExists, assertInvoiceItemsTotal
    <3> QED
      BY <1>0, <2>1, <3>1, MatchFound DEF AgreesWithGoods, RowsInv
  <2> QED
    BY <1>0, <2>1, <2>2, <2>3 DEF Claims!PayableNext, Claims!Verify, Claims!Move
<1>8. CASE approve(c)
  <2>1. invoice.status = "MATCHED" /\ SetStatus(c, "APPROVED")
    BY <1>0, <1>8 DEF approve, Truth
  <2>2. invoice'.status = "APPROVED" /\ invoice'.items = invoice.items
    BY <1>5, <2>1 DEF InvoiceStatus
  <2> QED
    BY <1>0, <2>1, <2>2 DEF Claims!PayableNext, Claims!Clear, Claims!Move
<1>9. CASE reject(c)
  <2>1. invoice.status \in {"SUBMITTED", "MATCHED"} /\ SetStatus(c, "REJECTED")
    BY <1>0, <1>9 DEF reject, Truth
  <2>2. invoice'.status = "REJECTED" /\ invoice'.items = invoice.items
    BY <1>5, <2>1 DEF InvoiceStatus
  <2> QED
    BY <1>0, <2>1, <2>2 DEF Claims!PayableNext, Claims!Refuse, Claims!Move
<1>10. CASE markPaid(c)
  <2>1. invoice.status = "APPROVED" /\ SetStatus(c, "PAID")
    BY <1>0, <1>10 DEF markPaid, Truth
  <2>2. invoice'.status = "PAID" /\ invoice'.items = invoice.items
    BY <1>5, <2>1 DEF InvoiceStatus
  <2> QED
    BY <1>0, <2>1, <2>2 DEF Claims!PayableNext, Claims!Pay, Claims!Move
<1> QED
  BY <1>1, <1>2, <1>3, <1>4, <1>6, <1>7, <1>8, <1>9, <1>10 DEF Writes

\* As long as no handler writes over what it did not read, the invoice implements a
\* payable claim: every step of a handler, of the receipt and of the order is a
\* step of the claim or leaves it alone.
THEOREM ClaimImplemented == Spec => PaysWhatWasClaimed
<1>1. Init => Claims!PayableInit
  BY StageOf DEF Init, NoInvoice, Claims!PayableInit
<1>2. InvoicingInv /\ [Next]_vars => [~staleCommit' => Claims!PayableNext]_vars
  <2> SUFFICES ASSUME InvoicingInv, Next, ~staleCommit' PROVE Claims!PayableNext
    OBVIOUS
  <2>1. ASSUME invoice' = invoice PROVE Claims!PayableNext
    BY <2>1 DEF Claims!PayableNext, Claims!Deliver
  <2>2. CASE ReceiptMoves \/ OrderCancelled
    <3>1. invoice' = invoice
      BY <2>2, ReceiptMoved DEF MoveReceipt, OrderCancelled, InvoicingInv, RowsInv
    <3> QED
      BY <2>1, <3>1
  <2>3. ASSUME NEW c \in Clients, Reads(c) \/ replaceItemsDelete(c) \/ Stop(c)
        PROVE  Claims!PayableNext
    <3>1. invoice' = invoice
      BY <2>3, ReadsTheTruth DEF Begin, replaceItemsDelete, Stop, InvoicingInv, RowsInv
    <3> QED
      BY <2>1, <3>1
  <2>4. ASSUME NEW c \in Clients, Writes(c) PROVE Claims!PayableNext
    BY <2>4, WriteIsAStep
  <2> QED
    BY <2>2, <2>3, <2>4, Steps
<1> QED
  BY <1>1, <1>2, InvoicingCorrect, PTL DEF Spec, PaysWhatWasClaimed

=============================================================================
