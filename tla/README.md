# A TLA+ model of the procurement API

This directory specifies `enterprise-ai-procurement` in TLA+, checks it with TLC
on small instances, and proves most of what TLC checks with TLAPS for all instances. It covers
what the NestJS API in `apps/api` does over PostgreSQL through Prisma: a request is
approved, put out to tender, awarded, ordered, received, invoiced and paid;
contracts are kept with their history; organisations are founded, joined, paid for
and deleted, and their members sign in. And it covers the offline queue of the
mobile application in `apps/mobile`, with the session it sends over.

- [The system](#the-system)
- [How a handler is modelled](#how-a-handler-is-modelled)
- [The modules](#the-modules)
- [The runs](#the-runs)
- [Where code and promise differ](#where-code-and-promise-differ)
- [What is proved](#what-is-proved)
- [What is not modelled](#what-is-not-modelled)
- [Plan](#plan)

## The system

A monorepo: `apps/api` (NestJS 11, Prisma, PostgreSQL, BullMQ on Redis), `apps/web`
(Next.js), `apps/mobile` (Expo), `apps/docs`, `packages` (types, UI, configuration)
and `infra`. All business state is in PostgreSQL. Services keep nothing in memory
between two requests, any number of API processes may run, and clients talk to
them by HTTP. The parts, their state and operations:

| part | state | operations that write | what makes it correct |
|---|---|---|---|
| procurement (`procurement`) | request, line items, budget | create, update, delete, add and remove item, submit | only drafts change; what is reviewed adds up |
| approvals (`approval-workflows`) | workflow, current level, four steps | start, approve, reject | levels are signed in order, none is skipped, a decision is final |
| RFQs (`rfqs`) | RFQ, invitations | create, update, delete, publish, close, cancel, invite | bids only while published |
| bids (`bids`) | bid, items, total | create, update, delete, submit, withdraw, add and remove item | one active bid per vendor, sealed once submitted |
| evaluation and award (`bid-evaluations`) | evaluations, scores, award | evaluate, update, award | one award per request, of an evaluated bid |
| purchase orders (`purchase-orders`) | order, lines, status | create from an award, update, delete, issue, acknowledge, cancel | costs what was bid; closed is closed |
| goods receipts (`goods-receipts`) | receipt, quantities ordered, received, rejected | create, update, delete, receive, reject, complete | never more than ordered; the order's status tells the progress |
| invoices (`invoices`) | invoice, items, match result | create, update, delete, submit, match, approve, reject, pay | what was claimed and matched is what is paid |
| contracts (`contracts`) | contract, documents, versions | create, update, attach, activate, renew, terminate, expire, delete | an active term changes by renewal only; the history is gapless and complete |
| auth (`auth`) | accounts, pending registrations, refresh-token families, reset links | register, verify, login, refresh, logout, revoke all, forgot, reset | a session that was ended cannot be renewed |
| membership (`invitations`, `organisations`, `users`) | invitations, roles | invite, list, cancel, accept, change role; open an organisation for the platform, delete one | who accepted is a member; an admin remains where one registered |
| billing (`billing`, one route of `platform`) | the organisation's plan, subscription row | customer, checkout, cancel, webhooks; set a plan by hand | the database says what the provider says, but for what was set by hand since |
| jobs, email, notifications | BullMQ queues, notification rows | clean up, send, mark read | each mail is sent |
| mobile (`apps/mobile`) | stored queue, tokens | enqueue, pass, renew | each item is carried out, and once |
| the rest | vendors, audit, AI, analytics, storage, content, support, settings, the other routes of `platform` | single assignments, appends, read-only reports | |

How they interact: one service calls another in process
(`ProcurementService.submit` calls `ApprovalWorkflowService.startWorkflow`;
`GoodsReceiptsService.receive` writes the order's status), or reads the rows
another one writes (the match reads order and receipt), or rows go with their
parent (`onDelete: Cascade`). Messages come from outside only: the payment
provider's webhooks, repeated until they are answered and in no certain order, and
the requests of a mobile device, whose answers may be lost.

What is hard is the same everywhere. A handler reads, checks in memory and then
updates `where: { id }`, so a check says nothing about the row at the time of the
write. A few handlers write twice outside a common transaction. No row carries a
version. Which invariants survive this, and which hold only until a handler
writes on a read that is no longer true, is the question these models ask. The
`hazards` of `PROJECT.json` give the lines.

## How a handler is modelled

Each element of `Clients` is one HTTP handler in flight. `op[c]` holds where it is
and what it remembers from its reads: `[pc |-> "approve", level |-> 2]`.

- An action named `...Read` (`approveStepRead`) is the part of a service method up
  to its write: authorisation, reads, checks. Its guard is the conjunction of the
  checks; a handler that fails one changes nothing and is not a step. Several
  reads of one handler are one step, since a write of a row between them leaves
  the handler as overtaken as a write after them.
- The action with the repository method's name (`approve`) is the write. It
  depends on `op[c]` and on what the database itself checks: the row exists, unique
  keys, foreign keys. Otherwise the handler ends in `WriteFails`.
- A `$transaction` is one step from its first row lock, and so are the statements
  after it; a transaction that reads first, or whose first statement takes its
  snapshot before it waits for a lock, has two (`approveTxRead`;
  `recalculateTotalRead`; `replaceItemsDelete`). READ COMMITTED, PostgreSQL's
  default, is assumed.
- Two writes outside a common transaction are two steps (`receive` and
  `syncWrite`, `upsertMatchingResult` and `setMatchedStatus`, `submit` and
  `startWorkflow`, `addItem` and `recalculateTotal`).
- `Crash(c)` ends a handler anywhere. An open transaction is rolled back, nothing
  is resumed. `crashed` remembers it where a property depends on it.

Two history variables are no part of the program. `overtaken` holds the handlers
in flight whose read another handler's write has followed. `staleCommit` becomes
true when such a handler writes all the same. A property that begins with
`~staleCommit =>` says what holds as long as that has not happened, which is what
a version column in each WHERE clause would guarantee; a property without it holds
under any overlap. The runs explore both sides: `staleCommit` prunes nothing. (`Sourcing` and `Receiving`
stop keeping `overtaken` once it is true, since nothing asks for it then.)

Data the properties do not tell apart is abstracted: descriptive fields (an update
that writes nothing else is a stutter), money as natural numbers of the smallest
unit, documents, tax, currencies and notifications. A user's role does not change
while a handler runs. A line item's identity is not used twice by
`ApprovalWorkflow`; where an identity may be used again (`Sourcing`), none a
handler in flight remembers is. `ProcurementStatus.CANCELLED` and
`BidStatus.DISQUALIFIED` are written nowhere in the code and left out.

## The modules

| module | models | notes |
|---|---|---|
| `ApprovalWorkflow` | one request, its items and workflow | `procurement.*`, `approval-workflow.*`, `approval.repository.ts` |
| `ApprovalLadder` | the abstract promise of the above | submit, sign 1, 2, 3, 4, or reject; then nothing |
| `Sourcing` | one RFQ, its bids, evaluations, the award and the order's creation | RFQs of one request meet only in the award's unique key |
| `Receiving` | one order and its receipts | the order starts as `Sourcing.createOrder` leaves it |
| `Invoicing` | one invoice of one receipt | receipt and order move as `Receiving` lets them, by `GoodsReceived`, `GoodsRejected`, `ReceiptCompleted`, `OrderCancelled`, each one step |
| `Payable` | the abstract promise of the above | drafted, claimed, verified, cleared, paid, or refused |
| `Contracts` | several contracts of two organisations, numbers, history | `contracts.*` |
| `Agreement` | the abstract promise of one contract | drafted, in force, ended |
| `Tenants` | the rows of organisations and accounts | shared by the next three |
| `Membership` | registrations, organisations the platform opens, invitations, roles, deletion | `auth`, `invitations`, `organisations`, the clean-up job |
| `Billing` | subscriptions, webhooks, plans set by the platform, and the provider | `billing`, `platform.service.ts`; the provider is external |
| `Authentication` | sign-in, lockout, refresh tokens, reset links | `auth` |
| `Tenancy` | the composition of the last four | one state, three groups of handlers |
| `Sessions` | a device's tokens and their renewal, with the server's rotation | `apps/mobile/src/lib/api/client.ts` |
| `OfflineQueue` | the device's queue and its passes, over `Sessions` | `sync-queue.ts`, `offline-sync-provider.tsx` |
| `Outbox` | the abstract promise of the queue | an item stays until it is carried out, once |
| `MC...` | instances for TLC | |
| `...Proofs` | theorems about the module they are named for | TLAPS; `TenancyProofs` is also about the modules `Tenancy` composes, `OfflineQueueProofs` about `Sessions` and `Outbox` |
| `SumTheorems` | sums over finite sets | lemmas for the above |

The chain of modules follows the rows: an approved request is the precondition of
`Sourcing`, which nothing undoes; the order `Sourcing` creates is the initial state
of `Receiving`; the receipt of `Receiving` is what `Invoicing` reads.

Correspondence, module by module (`PROJECT.json`, `map`, has every definition with
its lines):

- **ApprovalWorkflow.** `request` is the ProcurementRequest row with its items
  (`created` are the identities used up), `workflow` the ApprovalWorkflow row
  with `step` and `approver` per level. `submit` writes SUBMITTED and goes on to
  `startWorkflowRead` and `startWorkflow`, which the start endpoint can also be
  called for; the look-up of an existing workflow is merged with the unique key
  that would refuse a second one. `approveTxRead` reads the workflow inside the
  transaction; `approve` signs the step the service read before and moves on
  from the level read inside. `approvals` is a history variable: how many
  approvals were committed.
- **Sourcing.** `rfq` with `open` for "the closing date lies ahead"
  (`ClosingDatePasses` is time); `bid[b]` is a bid with its items and evaluations;
  `award` the bid the request's award names; `order` the purchase order of the
  award. `overtaken` is kept per row (`RowsRead`), with one element for each range
  a query depends on.
- **Receiving.** `po` is the order's status, `receipt[r]` a receipt with the three
  quantities per line. After `receive` and `reject` the handler goes on to
  `syncRead` and `syncWrite` (or `syncIdle`), the delivery status.
- **Invoicing.** `invoice` is the row with its items (a bag, as two equal items are
  two) and the stored match result. `runThreeWayMatch` is what the match computes.
  `replaceItems` keeps the items another update inserted after its DELETE took its
  snapshot; this is exact for two handlers.

- **Contracts.** `row` is the Contract with its term and the number of its
  documents, `versions` its history. Each write goes on to `recordVersion`, which
  reads the largest number and inserts the next in two further steps; a renewal
  records the ended period, writes, and records again. `unrecorded` remembers the
  contracts of which a version was not written. `KeepsTheAgreement` instantiates
  `Agreement` once per contract.
- **Tenancy.** `org` and `account` are the shared rows. `op`, `job` and `call` are
  the handlers of membership, of billing and of authentication. `Next` lets one of the
  three groups step; a step of membership takes subscriptions (`Cascade`), tokens,
  links and calls (`AccountsGo`) along when it deletes an organisation.
- **Membership.** An account is identified by its email, an organisation by its
  slug. A role is read from the access token, so `demoted` administrators go on
  acting as such until it expires. `lapse` is the lazy expiry of invitations.
  `createOrganisation` is `POST /organisations`: a row on the free plan with nobody
  in it. No route gives such an organisation its first member (accounts come from
  registrations, which open their own, and from invitations, which only members
  send). `byPlatform` is the history of them.
- **Billing.** `sub` and `inbox` belong to the provider: `Pay`, `PaymentFails` and
  `SubscriptionEnds` put events into the inbox, `handleWebhook` takes any of
  them, `Answer` removes what was answered. `subscription` and the fields of `org`
  are written one after the other by the handlers of `BillingService`.
  `updateOrganisationPlan` is `PATCH /platform/organisations/:id/plan`: it writes the
  plan and the billing status of the organisation and nothing else, and the
  provider is not asked. `Grants` are the pairs an operator may set, `managed` the
  organisations whose pair no event has written over since.
- **Authentication.** `token` holds the refresh tokens, of which the first names
  the session (`familyId`); `password` numbers the passwords that resets have set.
  `refreshRead`, `rotate` and `createTokenPair` are the three statements of a renewal,
  `resetPassword` and `revokeAllForUser` the two of a reset. `ended` is the history of
  the sessions that were logged out, revoked or replayed.
- **Sessions, OfflineQueue.** `access` and `stored` are the device's tokens, `refresh`
  where a renewal stands on either side; requesters that are denied together wait
  for one of them (`awaits`). `queue` is the stored list, `pass` an execution of the
  effect in `OfflineSyncProvider`: `seen`, `todo` and `left` are its local lists. A
  cancelled pass does not stop but sends no more.

## The runs

All runs of the API use two handlers that overlap (`Clients = {c1, c2}`; in
`tenancy` two of each group), with crashes. With two, any sequence of complete handlers fits between the read and the write of
another; what is left out is three handlers all half done. Deadlock is not
checked, because each of these documents has final states in which no request is
admitted.

| run | checks | bounds |
|---|---|---|
| `approval` | the properties of ApprovalWorkflow, and `ClimbsTheLadder` | two items, two budgets of which one is their sum, four levels, an admin who stands in for two roles |
| `approval_levels` | an approved request has all signatures: violated | as above |
| `sourcing` | the award, active bids, amounts, sealed bids | two vendors, two bids of one item, one evaluator, two scores |
| `sourcing_duplicates` | one active bid per vendor: violated | as above |
| `receiving` | quantities, balance, delivery status, finality | one line of two units, two receipts |
| `receiving_over` | receipts stay within the order: violated | as above |
| `invoicing` | the properties of Invoicing, and `PaysWhatWasClaimed` | two lines of one unit; bills for both, one, two of one, and at the wrong price |
| `invoicing_lines` | a matched bill names what arrived: violated | a bill with one line twice |
| `contracts` | the properties of Contracts, and `KeepsTheAgreement` | two contracts of one organisation and one of another, three days, four requests |
| `tenancy` | the properties of Membership, Billing and Authentication | three people, two organisations, two invitations, registrations and subscriptions, two plans to grant (enterprise and active, free and cancelled), three refresh tokens, two reset links; the requests as below |
| `tenancy_admins` | an administrator is retained: violated | as above |
| `mobile` | the properties of OfflineQueue, with liveness, over Sessions | two passes at a time, two items of which the server accepts one repeatedly; one expiry, one interruption, one loss or kill |

The groups of `Tenancy` meet only in a few rows, so the run starts from seven
cases (`MCCases`) that spend a bounded number of requests where they interact: three of
membership with two administrators, four with one and a colleague; four turns of
billing with one member, three with two; one of membership with two of billing; five of
authentication; one of membership with three of authentication. The platform's routes
count among them: an organisation it opens is a request of membership, a plan it sets a
turn of billing, so each falls before, between and after those of the others. Four requests
are enough for two decisions that overlap after the rows they concern have been
made, three for two demotions and what follows them; five sign in, renew twice, ask for a reset and use it. In `contracts` four
requests are the creation and activation of a contract, and two handlers that
overlap on it. In `mobile` each fault happens once: it may fall between any two
steps, and the device has to recover from it before the liveness property is met.
In `receiving` one line of two units is enough to be received and rejected in parts, by
two receipts; that lines in different states are not taken for one another is what the
theorems say, which hold for any set of lines.

What the passing runs show:

- *Under any overlap and any crash*: the level of a workflow never runs ahead of
  the approvals committed (`ApprovalsCounted`), and level one is acted upon first
  (`FirstLevelActs`); a receipt line takes in and turns away no more than it was
  opened for (`LineWithinOrdered`); the award names the one awarded bid, which
  somebody evaluated, and no order outlives its award (`AwardNamesTheWinner`);
  an invoice that is matched, approved or paid has been through the match
  (`ApprovalNeedsMatching`); the versions of a contract are numbered without a gap
  (`VersionsGapless`), and they are complete unless a handler died or lost its
  number to another (`HistoryComplete`); who is said to have accepted an
  invitation is a member (`AcceptedMeansMember`); an organisation that was registered
  has a member, and one the platform opened has nobody and no invitation
  (`AdminRemains`); nothing outlives its organisation (`TypeOK` of `Tenancy`).
- *Until a handler writes on an overtaken read*: the API implements
  `ApprovalLadder` (`ClimbsTheLadder`) and `Payable` (`PaysWhatWasClaimed`);
  decisions follow the steps; reviewed content adds up; receipts balance; the
  order's status agrees with its receipts when no process died; closed stays
  closed; a vendor has one active bid; bids are sealed; orders cost what was bid;
  an invoice's subtotal is the sum of its items; each contract is an `Agreement`
  (`KeepsTheAgreement`), its term is in order, a term that is replaced is in the
  history first, and within one organisation that deletes nothing a number is
  free; one live invitation per person, and an administrator remains in an organisation
  that was registered; what the
  database calls cancelled is disabled at the provider, as long as no subscription
  outlives its organisation (`CanceledIsDisabled`); a
  session that was ended cannot be renewed, has one valid token, and does not
  survive a reset unless the reset died half-way (`EndedStaysEnded`).
- *Unless webhooks are handled out of order*: once all are answered the database
  mirrors the provider, although answers are lost and handlers die between the
  organisation's row and the subscription's (`MirrorsTheProvider`). The plan and the
  status the platform sets by hand stand until the next event that carries them; the
  subscription's row and code are the provider's all the same. A repeated delivery
  alone does no harm.
- *On the device*: a session is lost only to a renewal that went unanswered or
  was cut off, never because two requests used one refresh token
  (`SessionKept`); the queue is an `Outbox` as long as no pass or tap overlaps a
  pass (`OutboxKept`), and each item is answered or lost to such an overlap
  (`EveryItemAnswered`).

The properties of the second group do not catch the overlaps themselves: they say that
nothing else goes wrong. What an overtaken write does to the same promises is told
[below](#where-code-and-promise-differ).

`ClimbsTheLadder`, `PaysWhatWasClaimed`, `KeepsTheAgreement` and `OutboxKept` are
refinements with an escape: every step that commits on a fresh read (that no
overlap has `disturbed`) is a step of the abstract specification under the mapping,
or a stutter.

Bounds. Every counter is bounded by the data (levels, quantities, items) or by a
number of requests or faults in a guard, so no state constraint is needed and
every run is exhaustive. Symmetry is taken over
sets of model values whose elements the modules do not distinguish (handlers,
receipts, bids, vendors, scores), and no liveness property is checked under it.

Fairness. The API's specifications have none: nobody is bound to send the next
request, and a handler that a crash ends is never resumed. `OfflineQueue` has
(`FairSpec`), for what the device does by itself: weak fairness of each step of a
pass and of a renewal (a request settles or runs into the 30 s timeout of
`client.ts`, storage works), of appending what was tapped, and of the network's
return, since nothing but a report of the network or a start of the application
begins a pass. Strong fairness of signing in while no renewal runs says that a user
who is signed out signs in again; it is strong because a renewal that fails may
disable it. Faults and expiries have no fairness.

Mutants. Each property of a passing run has a faulty variant of one definition
beside the original ("Faulty variant"), a bug one could plausibly write, that
makes TLC refute the property.

## Where code and promise differ

Five runs end in a counterexample, and `findings` of `PROJECT.json` quotes the
lines of both sides:

1. **A level is approved that nobody signed** (`approval_levels`). The step is the
   one the service read, the level the one the transaction reads.
2. **More is received than ordered** (`receiving_over`). The cumulative quantity is
   read before the write and not checked again.
3. **Two active bids of one vendor** (`sourcing_duplicates`). Look-up and insert
   without a unique key.
4. **An organisation loses its last administrator** (`tenancy_admins`). Two demotions
   count each other's.
5. **A matched invoice that bills a line twice and another not at all**
   (`invoicing_lines`). This one needs no overlap: items are compared one by one.

The first four have a shape in common: two handlers overlap, and the write of one does
not repeat the check it rests on. The guarded properties mark where else the code has
it. Without the guard TLC refutes each of these too, in a few steps:

| property | what an overlap leads to without its guard |
|---|---|
| `ReviewedContentAddsUp` | a submitted request whose items no longer add up: an edit read it as a draft (`procurement.service.ts:88`) |
| `ClosedStaysClosed` | goods taken in on a rejected receipt (`goods-receipts.service.ts:274`); a cancelled order that is issued (`purchase-orders.service.ts:233`) |
| `PaysWhatWasClaimed` | a rejected invoice that becomes approved: the later of two decisions stays (`invoices.service.ts:391`) |
| `MatchedAmounts` | a submitted invoice with the subtotal of the items it had before (`invoices.service.ts:297`) |
| `TermsInOrder` | a contract that ends before it starts: two updates, each in order with the date the other replaces (`contracts.service.ts:201`) |
| `OneLiveInvitation` | two pending invitations of one person (`invitations.service.ts:66`) |
| `EndedStaysEnded` | two refresh tokens for one, or one for a session that was ended meanwhile (`auth.service.ts:208`) |
| `EveryItemAnswered` (without `disturbed`) | an offline action lost unsent: two write the stored list back, the second over what the first added (`sync-queue.ts:26`) |

## What is proved

For every value of the constants, where TLC checks an instance. Eight modules hold
the proofs; `theorems` of `PROJECT.json` says of each result what it establishes.

| module | theorem | of |
|---|---|---|
| `ApprovalWorkflowProofs` | `TypeCorrect`, `ApprovalsAreCounted`, `FirstLevelIsActedOn` | types; two invariants of any overlap |
| | `DecisionsFollowTheSteps`, `ReviewedContentIsFixed` | until an overtaken write |
| | `SubmissionOpensItsReview` | the same, without crashes |
| | `ApiClimbsTheLadder` | `ClimbsTheLadder` |
| `ReceivingProofs` | `TypeCorrect`, `LinesStayWithinOrdered` | any overlap |
| | `ReceiptsStayBalanced` | until an overtaken write |
| | `DeliveryStatusIsTrue` | the same, without crashes |
| | `ClosedIsFinal` | the action property `ClosedStaysClosed` |
| `SourcingProofs` | `TypeCorrect`, `AwardIsTrue` | any overlap |
| | `BidsStayUnique`, `OrdersCostWhatWasBid` | until an overtaken write |
| | `BidsAreSealed` | the action property `SealedBids` |
| `InvoicingProofs` | `TypeCorrect`, `PaidOnlyIfMatched` | any overlap |
| | `AmountsAgree` | until an overtaken write |
| | `ClaimImplemented` | `PaysWhatWasClaimed` |
| `ContractsProofs` | `TypeCorrect`, `HistoryIsGapless`, `HistoryTellsAll` | any overlap |
| | `TermsStayInOrder`, `NumbersAreFree` | until an overtaken write |
| | `OldTermIsOnRecord` | the action property `RenewalKeepsTheOldTerm` |
| | `AgreementImplemented` | `KeepsTheAgreement` |
| `TenancyProofs` | `TypeCorrect`, `AcceptedAreMembers` | any overlap |
| | `InvitationsStaySingle`, `AdminsRemain`, `SessionsStayEnded`, `CancellationIsReal` | until an overtaken write |
| | `MirrorIsTrue` | the same, while events are handled in order |
| `OfflineQueueProofs` | `TypeCorrect`, `SessionIsKept` | any overlap; while renewals are answered |
| | `OutboxImplemented` | `OutboxKept` |

`SumTheorems` has the lemmas on sums the others cite.

**The argument.** Types and the invariants of any overlap are inductive with what the
handlers in flight remember of things nothing undoes: approvals that were committed,
versions that were written, an award that was made, the account a handler at `mark`
has created. For the rest there is a second invariant in every module: *a handler
that was not overtaken still remembers the truth* (`Fresh`, `Truth`, `AuthTrueInv`,
`BillTrueInv`...): its guard still holds. A write of such a handler then acts on the
row it has checked, and what remains is a list of the changes a write can make
(`RowStep`, `Writes`, `QueueGoesOn`). The properties, and the steps of the abstract
specifications, are proved over that list and not over the actions.

- *Receiving.* A step is one of seven changes of the order and a receipt, or none
  (`RowStep`); what each does to the totals over all receipts follows from one lemma on
  a sum of which one member changes (`RowStepTotals`).
- *Sourcing.* The reads of a handler are ranges (`RowsRead`), so *not overtaken* is
  relative to the ranges, and an identity that is used again is none that is remembered.
- *Invoicing.* The receipt and the order move between a handler's steps; the match
  compares with what they are when it reads, and from then on the books only fill up.
- *Contracts.* Two handlers may be about to record versions of one contract; the invariant
  counts what each has still to write.
- *Tenancy.* Three invariants, of membership, of sessions and of billing, each kept by
  the steps of the other two because they touch only shared rows (`Cascade`,
  `AccountsGo`). An organisation keeps an administrator because a demotion that was not
  overtaken still has another one to count on (`OtherAdmin`); one the platform opened
  stays empty because nobody in it could invite (`PlatformInv`).
- *The provider's state.* `MirrorsTheProvider` speaks of the moments when every event has been
  answered; its invariant (`MirrorInv`) says in every state what the events left in the
  inbox have still to bring. They are numbered by when they happened, so those left are the
  latest (`SalesInLine`, `EventsInLine`, `LatestLeft`), and what is handled is the first of
  them (`FirstHandled`). A subscription whose charge was answered has its organisation's
  customer; until its creation is answered too, that is who paid for it (`CustomersTrue`),
  by which the handler of the creation finds it. Once that is answered the rows have its
  code, and its status unless a turn is still to be told (`RowsTrue`); they never have the
  code of another organisation that is still there (`Foreign`). Of an organisation whose
  plan was set by hand since (`managed`) all this is said but for the plan and the status. A lost answer or a handler that
  dies between its two writes leaves its event in the inbox, which is all the invariant
  asks. The hard case is the payer of a deleted organisation who founds another:
  the creation left behind is then reported to the new one, and does no harm
  because whatever that one has bought comes after it and is still to be told
  (`SyncTarget`).
- *OfflineQueue.* One renewal runs at a time and its requester waits for it
  (`SessionInv`), so that its token is the one stored. A list is a sequence without
  repetition (`ListsAre`), and what a pass has read splits into what it keeps, what
  it has still to send and what was carried out (`Sound`, `Done`); at most one pass
  holds the list until `disturbed`.

**Sums.** The library's fold over a set is a CHOOSE of a function, about which the
induction theorems say nothing the provers can use. `SumTheorems` gets by without
induction over data: a statement that fails for some finite set fails for one of
least cardinality, and taking one element out of it gives a smaller one. That there
is a function satisfying the fold's equation, that it is unique, and what a sum does
when one value changes or an element is added, follow in this way.

**Assumptions.** Those the modules name, which TLC evaluates on each run: prices are
natural numbers (`PriceAssumption`), quantities, bounds and days are natural numbers,
the sets whose members are summed or counted are finite (lines, receipts, the items of
a bill, the items of the device's queue), no name of a row or handler is the value that
stands for none (`IdentityAssumption`, `TenantsAssumption`, `FamilyAssumption`,
`SessionAssumption`), the plans sold are plans other than the free one, and
those the platform grants are pairs of a plan and a status (`BillingAssumption`), the threshold of failed logins is positive, and the first
roster has an administrator (`TenancyAssumption`).

**What a proof has changed.** `CanceledIsDisabled` used to say the same of every
organisation. Its induction does not close: a subscription that was bought for an
organisation that is deleted afterwards may be reported when its payer has founded another
one, which then has its code, while another subscription is being paid for. TLC finds that
run once it is given more requests than the run `tenancy` spends (26 steps), so the
property now excludes subscriptions that outlived their organisation. That nothing
tells the provider of the deletion is noted below.

**Only model-checked.**

- `EveryItemAnswered`: liveness under fairness is out of the prover's reach, as is
  ENABLED.
- The five properties that are violated.

## What is not modelled

Left out of modelled parts:

- Deleting a vendor (`DELETE /vendors/:id`) takes its bids, orders, invoices and
  contracts along (`onDelete: Cascade`). No model has that step: vendors are
  constants of `Sourcing` and absent from the others. What the properties say of
  these rows, they say while no vendor is deleted.
- `Sourcing`: the weighted score and ranking of bids, default criteria, documents.
- Sums of money are natural numbers; binary floating point is not modelled
  (`hazards` has the line where it bites).
- `Contracts`: who may act, the award or order a contract cites, the year in its
  number. The numbers of RFQs, bids, receipts and invoices are drawn the same way
  and not modelled again.
- `Tenancy`: roles other than administrator and not; the name of a deleted
  organisation is not registered again; a founder's first tokens; verification of
  an existing account's email; MFA flags; the age of refresh tokens; recovery of a
  failed payment; limits other than that on users, which nothing enforces. A
  call about an account that is deleted ends at once (`AccountsGo`), as every
  write it still has finds no row.
- `OfflineQueue`: a request carried out after the application was killed is taken
  as carried out before; which idle pass starts is not distinguished.

Not modelled at all: notifications, vendors, AI, analytics, audit, storage,
content, support, the settings and feature overrides of the platform, API infrastructure, the web application,
documentation site, shared packages and deployment. They are single assignments,
appended rows nobody reads back, read-only reports, wrappers of libraries, or
screens without state beyond the API's. They are most of the repository's lines,
and there is no state machine in them to specify.

Noticed on the way; only of the deletion does a document promise otherwise:

- The limit on users counts accounts; invitations already sent exceed it.
- Deleting an organisation does not cancel its subscription at the provider, and a
  second checkout leaves the first subscription charged.
- A person who registers again under the same name is refused because of the
  reservation of that very registration.
- Changing a password (`PATCH users/me/password`) ends no session; a reset does.
- Of overlapping failed logins some are not counted.
- Deleting an organisation deletes the accounts of its users (`schema.prisma:28`, a required
  relation that cascades), where the description of the route says they are *detached*
  (`organisations-crud.controller.ts:144`). `deleteOrganisation` does what the schema says.
- Nobody can ever enter an organisation opened by `POST /organisations`.
- A plan the platform has set is written over by the next event of the subscription.
- Passes that overlap may send an item twice; up to three may start with the
  application. An item the server refuses is sent again for ever.

## Plan

1. Liveness of the API under weak fairness of `Continue` without crashes: the
   delivery status catches up with the receipts.
