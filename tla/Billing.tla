----------------------------- MODULE Billing -----------------------------
(***************************************************************************)
(* Subscriptions: BillingService, and the payment provider as far as the   *)
(* code relies on it.                                                      *)
(*                                                                         *)
(* The provider reports what happens to a subscription in events.  It      *)
(* delivers an event until a delivery has been answered, also one that was *)
(* handled but whose answer was lost, and may deliver a later event first  *)
(* or together with an earlier one.  A worker handles one event, or one    *)
(* request of a member, as reads and writes that overlap with the others.  *)
(*                                                                         *)
(* The platform may also set the plan and billing status of an             *)
(* organisation itself, without the provider (PlatformService).            *)
(*                                                                         *)
(* History variables: late and staleWrite as overtaken and staleCommit in  *)
(* Membership.tla; disordered tells that an event was handled before or    *)
(* together with an earlier one, or again after a later one; managed holds *)
(* the organisations of which the platform set the plan since an event     *)
(* last did; emitted numbers the events; orders is the number of requests  *)
(* of members and of the platform, turns of a subscription and deliveries  *)
(* out of order still to come.                                             *)
(***************************************************************************)
EXTENDS Tenants

CONSTANTS
    Workers,        \* handlers that may be in flight together
    PaidPlans,      \* plans that have a code at the provider (PLAN_CATALOG)
    Grants          \* bound: the plans and statuses the platform may set

ASSUME BillingAssumption ==
    /\ PaidPlans \subseteq SubscriptionPlan \ {"FREE"}
    /\ Grants \subseteq [plan : SubscriptionPlan, billing : BillingStatus]

VARIABLES subscription, sub, checkouts, inbox, emitted, newest, job, late, staleWrite,
          disordered, managed, orders

provider == <<sub, checkouts, inbox, emitted>>
billingHistory == <<newest, late, staleWrite, disordered, managed, orders>>

(***************************************************************************)
(* The Subscription row of an organisation and the provider's side.        *)
(***************************************************************************)
NoSubscription == [code |-> NoCode, plan |-> "FREE", status |-> "TRIALING"]
SubscriptionRows == {NoSubscription}
                    \cup [code : Codes, plan : PaidPlans, status : BillingStatus]

\* A page on which payer may pay for a plan, and what a paid subscription was
\* paid for; since is the number of the event of its first charge and second
\* tells that the organisation had another subscription then.
Checkouts == [o : Organisations, plan : PaidPlans, payer : Emails]
SubStatus == {"active", "attention", "disabled"}
Unsold == [status |-> "unsold"]
Subs == {Unsold} \cup [status : SubStatus, sale : Checkouts, since : Nat, second : BOOLEAN]

Sold == {s \in Codes : sub[s] # Unsold}
SoldTo(o) == {s \in Sold : sub[s].sale.o = o}
Live(s) == s \in Sold /\ sub[s].status # "disabled"

\* coded: the charge names the subscription it is for.
Kinds == {"charge.success", "subscription.create", "subscription.disable",
          "invoice.payment_failed"}
Events == [n : Nat, kind : Kinds, s : Codes, coded : BOOLEAN]
Event(n, kind, s, coded) == [n |-> n, kind |-> kind, s |-> s, coded |-> coded]

\* mapPaystackStatus, of which a disabled subscription is 'completed'.
mapPaystackStatus == [active |-> "ACTIVE", attention |-> "PAST_DUE", disabled |-> "CANCELED"]

(***************************************************************************)
(* Handlers in flight.                                                     *)
(***************************************************************************)
Resting == [pc |-> "resting"]
Jobs == {Resting}
        \cup [pc : {"customer", "checkout"}, sale : Checkouts]
        \cup [pc : {"disable", "cancelOrg", "cancelRow"}, o : Organisations, s : Codes,
              hadRow : BOOLEAN]
        \cup [pc : {"charge"}, ev : Events]
        \cup [pc : {"syncOrg", "syncRow"}, ev : Events, o : Organisations]
        \cup [pc : {"statusOrg", "statusRow"}, ev : Events, o : Organisations,
              status : BillingStatus]

Busy == {w \in Workers : job[w] # Resting}
Handling == {w \in Busy : job[w].pc \in {"charge", "syncOrg", "syncRow", "statusOrg", "statusRow"}}

\* The organisations of which a handler has read the billing state.
Reads(j) == IF j.pc = "customer" THEN {j.sale.o}
            ELSE IF j.pc \in {"disable", "cancelOrg", "cancelRow", "syncOrg", "syncRow",
                              "statusOrg", "statusRow"} THEN {j.o}
            ELSE {}

\* w writes the billing state of o and goes on as j.
Write(w, j, o) ==
    /\ job' = [job EXCEPT ![w] = j]
    /\ staleWrite' = (staleWrite \/ w \in late)
    /\ late' = IF staleWrite' THEN {}
               ELSE (late \cup {v \in Busy \ {w} : o \in Reads(job[v])})
                    \ (IF j = Resting THEN {w} ELSE {})
    /\ UNCHANGED <<newest, disordered, orders>>

GoOn(w, j) == /\ job' = [job EXCEPT ![w] = j]
              /\ late' = IF j = Resting THEN late \ {w} ELSE late
              /\ UNCHANGED <<org, subscription, newest, staleWrite, disordered, managed, orders>>

\* A request of a member or the platform, a turn of a subscription or a delivery out of order.
Spend == orders > 0 /\ orders' = orders - 1

BillingInit ==
    /\ subscription = [o \in Organisations |-> NoSubscription]
    /\ sub = [s \in Codes |-> Unsold]
    /\ checkouts = {} /\ inbox = {} /\ emitted = 0 /\ newest = 0
    /\ job = [w \in Workers |-> Resting]
    /\ late = {} /\ staleWrite = FALSE /\ disordered = FALSE /\ managed = {}

(***************************************************************************)
(* Requests of members: any member may buy, any may cancel.                *)
(***************************************************************************)
\* ensureCustomer: the organisation's customer, or that of the member who pays.
ensureCustomerRead(w) ==
    \E k \in Checkouts :
        /\ job[w] = Resting /\ Spend
        /\ account[k.payer].org = k.o
        /\ job' = [job EXCEPT ![w] =
                    [pc |-> IF org[k.o].customer = Nobody THEN "customer" ELSE "checkout",
                     sale |-> k]]
        /\ UNCHANGED <<org, subscription, provider, newest, late, staleWrite, disordered, managed>>

ensureCustomer(w) ==
    LET k == job[w].sale
    IN  /\ job[w].pc = "customer" /\ Open(k.o)
        /\ org' = [org EXCEPT ![k.o].customer = k.payer]
        /\ Write(w, [pc |-> "checkout", sale |-> k], k.o)
        /\ UNCHANGED <<subscription, provider, managed>>

\* initializeTransaction: the page is opened for who asks, whoever is the customer.
createCheckoutSession(w) ==
    /\ job[w].pc = "checkout"
    /\ checkouts' = checkouts \cup {job[w].sale}
    /\ GoOn(w, Resting)
    /\ UNCHANGED <<sub, inbox, emitted>>

\* The code of the organisation, or else that of the row.
cancelSubscriptionRead(w) ==
    \E o \in Organisations :
        LET s == IF org[o].code # NoCode THEN org[o].code ELSE subscription[o].code
        IN  /\ job[w] = Resting /\ Spend
            /\ Open(o) /\ s # NoCode
            /\ job' = [job EXCEPT ![w] = [pc |-> "disable", o |-> o, s |-> s,
                                          hadRow |-> subscription[o] # NoSubscription]]
            /\ UNCHANGED <<org, subscription, provider, newest, late, staleWrite, disordered, managed>>

Emit(kind, s) == /\ emitted' = emitted + 1
                 /\ inbox' = inbox \cup {Event(emitted', kind, s, FALSE)}

\* The provider disables the subscription, or refuses if it has been.
disableSubscription(w) ==
    LET s == job[w].s
    IN  /\ job[w].pc = "disable"
        /\ IF Live(s)
           THEN /\ sub' = [sub EXCEPT ![s].status = "disabled"]
                /\ Emit("subscription.disable", s)
                /\ GoOn(w, [job[w] EXCEPT !.pc = "cancelOrg"])
           ELSE GoOn(w, Resting) /\ UNCHANGED <<sub, inbox, emitted>>
        /\ UNCHANGED checkouts

cancelSubscription(w) ==
    LET j == job[w]
    IN  /\ j.pc = "cancelOrg" /\ Open(j.o)
        /\ org' = [org EXCEPT ![j.o].billing = "CANCELED"]
        /\ Write(w, IF j.hadRow THEN [j EXCEPT !.pc = "cancelRow"] ELSE Resting, j.o)
        /\ UNCHANGED <<subscription, provider, managed>>

cancelSubscriptionRow(w) ==
    LET j == job[w]
    IN  /\ j.pc = "cancelRow" /\ subscription[j.o] # NoSubscription
        /\ subscription' = [subscription EXCEPT ![j.o].status = "CANCELED"]
        /\ Write(w, Resting, j.o)
        /\ UNCHANGED <<org, provider, managed>>

(***************************************************************************)
(* The provider: a page is paid, a payment fails, a subscription ends.     *)
(***************************************************************************)
Turns == UNCHANGED <<org, subscription, job, newest, late, staleWrite, disordered, managed>>

Pay == \E k \in checkouts, s \in Codes \ Sold, coded \in BOOLEAN :
        /\ sub' = [sub EXCEPT ![s] = [status |-> "active", sale |-> k, since |-> emitted + 1,
                                      second |-> \E q \in SoldTo(k.o) : Live(q)]]
        /\ checkouts' = checkouts \ {k}
        /\ emitted' = emitted + 2
        /\ inbox' = inbox \cup {Event(emitted + 1, "charge.success", s, coded),
                                Event(emitted + 2, "subscription.create", s, FALSE)}
        /\ Turns /\ UNCHANGED orders

PaymentFails == \E s \in Sold :
        /\ Spend
        /\ sub[s].status = "active"
        /\ sub' = [sub EXCEPT ![s].status = "attention"]
        /\ Emit("invoice.payment_failed", s)
        /\ Turns /\ UNCHANGED checkouts

SubscriptionEnds == \E s \in Codes :
        /\ Spend
        /\ Live(s)
        /\ sub' = [sub EXCEPT ![s].status = "disabled"]
        /\ Emit("subscription.disable", s)
        /\ Turns /\ UNCHANGED checkouts

(***************************************************************************)
(* Webhooks: a delivery and what handleWebhook first reads for it, then    *)
(* the writes, in an order of their own and in no common transaction.      *)
(***************************************************************************)
\* The answer reaches the provider, or is lost and the event comes again.
Answer(ev) == inbox' \in {inbox, inbox \ {ev}} /\ UNCHANGED <<sub, checkouts, emitted>>

InOrder(ev) == /\ Handling = {}
               /\ ev.n >= newest
               /\ \A e \in inbox : e.n >= ev.n

OfCustomer(s) == {o \in Organisations : Open(o) /\ org[o].customer = sub[s].sale.payer}

\* Faulty variant: the row of the organisation that bought the subscription.
rowsOfBuyer(s) == {o \in {sub[s].sale.o} : subscription[o] # NoSubscription}
OfCode(s) == {o \in Organisations : subscription[o].code = s}

\* What a delivery is handled as, nothing if the event concerns nobody here.
Handler(ev) ==
    CASE ev.kind = "charge.success" -> {[pc |-> "charge", ev |-> ev]}
      [] ev.kind = "subscription.create" ->
             {[pc |-> "syncOrg", ev |-> ev, o |-> o] : o \in OfCustomer(ev.s)}
      [] ev.kind = "subscription.disable" ->
             {[pc |-> "statusOrg", ev |-> ev, o |-> o, status |-> "CANCELED"] : o \in OfCode(ev.s)}
      [] ev.kind = "invoice.payment_failed" ->
             {[pc |-> "statusOrg", ev |-> ev, o |-> o, status |-> "PAST_DUE"] : o \in OfCode(ev.s)}

handleWebhook(w) ==
    \E ev \in inbox :
        /\ job[w] = Resting
        /\ disordered' = (disordered \/ ~InOrder(ev))
        /\ newest' = IF disordered' THEN 0 ELSE ev.n
        /\ IF InOrder(ev) THEN UNCHANGED orders ELSE Spend
        /\ IF Handler(ev) = {} THEN Answer(ev) /\ UNCHANGED job
           ELSE (\E j \in Handler(ev) : job' = [job EXCEPT ![w] = j]) /\ UNCHANGED provider
        /\ UNCHANGED <<org, subscription, late, staleWrite, managed>>

handleChargeSuccess(w) ==
    LET ev == job[w].ev
        k == sub[ev.s].sale
    IN  /\ job[w].pc = "charge" /\ Open(k.o)
        /\ org' = [org EXCEPT ![k.o].plan = k.plan, ![k.o].billing = "ACTIVE",
                              ![k.o].customer = k.payer,
                              ![k.o].code = IF ev.coded THEN ev.s ELSE @]
        /\ Write(w, Resting, k.o)
        /\ Answer(ev)
        /\ managed' = managed \ {k.o}
        /\ UNCHANGED subscription

\* The event tells the state the subscription was created in.
syncSubscription(w) ==
    LET j == job[w]
    IN  /\ j.pc = "syncOrg" /\ Open(j.o)
        /\ org' = [org EXCEPT ![j.o].plan = sub[j.ev.s].sale.plan,
                              ![j.o].billing = mapPaystackStatus["active"],
                              ![j.o].code = j.ev.s]
        /\ Write(w, [j EXCEPT !.pc = "syncRow"], j.o)
        /\ managed' = managed \ {j.o}
        /\ UNCHANGED <<subscription, provider>>

syncSubscriptionRow(w) ==
    LET j == job[w]
    IN  /\ j.pc = "syncRow" /\ Open(j.o)
        /\ subscription' = [subscription EXCEPT
                ![j.o] = [code |-> j.ev.s, plan |-> sub[j.ev.s].sale.plan,
                          status |-> mapPaystackStatus["active"]]]
        /\ Write(w, Resting, j.o)
        /\ Answer(j.ev)
        /\ UNCHANGED <<org, managed>>

handleStatus(w) ==
    LET j == job[w]
    IN  /\ j.pc = "statusOrg" /\ Open(j.o)
        /\ org' = [org EXCEPT ![j.o].billing = j.status]
        /\ Write(w, [j EXCEPT !.pc = "statusRow"], j.o)
        /\ UNCHANGED <<subscription, provider, managed>>

\* Faulty variant: the row is left as it was.
handleStatusOrgOnly(w) ==
    LET j == job[w]
    IN  /\ j.pc = "statusRow" /\ subscription[j.o] # NoSubscription
        /\ GoOn(w, Resting)
        /\ Answer(j.ev)

handleStatusRow(w) ==
    LET j == job[w]
    IN  /\ j.pc = "statusRow" /\ subscription[j.o] # NoSubscription
        /\ subscription' = [subscription EXCEPT ![j.o].status = j.status]
        /\ Write(w, Resting, j.o)
        /\ Answer(j.ev)
        /\ UNCHANGED <<org, managed>>

\* A row to write is gone with its organisation, or the process dies; an event
\* that was being handled will come again.
JobFails(w) == w \in Busy /\ GoOn(w, Resting) /\ UNCHANGED provider

(***************************************************************************)
(* The platform sets a plan and a status: one write, and not a word to the *)
(* provider or in the Subscription row.                                    *)
(***************************************************************************)
updateOrganisationPlan == \E o \in Organisations, g \in Grants :
    /\ Spend
    /\ Open(o)
    /\ org' = [org EXCEPT ![o].plan = g.plan, ![o].billing = g.billing]
    /\ managed' = managed \cup {o}
    /\ UNCHANGED <<subscription, provider, job, newest, late, staleWrite, disordered>>

BillingNext ==
    \/ \E w \in Workers :
        \/ ensureCustomerRead(w) \/ ensureCustomer(w) \/ createCheckoutSession(w)
        \/ cancelSubscriptionRead(w) \/ disableSubscription(w)
        \/ cancelSubscription(w) \/ cancelSubscriptionRow(w)
        \/ handleWebhook(w) \/ handleChargeSuccess(w)
        \/ syncSubscription(w) \/ syncSubscriptionRow(w)
        \/ handleStatus(w) \/ handleStatusRow(w)
        \/ JobFails(w)
    \/ Pay \/ PaymentFails \/ SubscriptionEnds \/ updateOrganisationPlan

(***************************************************************************)
(* Properties.                                                             *)
(***************************************************************************)
\* Every row and handler, and the provider, hold values of their types.
BillingTypeOK ==
    /\ subscription \in [Organisations -> SubscriptionRows]
    /\ sub \in [Codes -> Subs]
    /\ checkouts \subseteq Checkouts
    /\ inbox \subseteq Events
    /\ emitted \in Nat /\ newest \in 0 .. emitted /\ orders \in Nat
    /\ job \in [Workers -> Jobs]
    /\ late \subseteq Workers /\ staleWrite \in BOOLEAN /\ disordered \in BOOLEAN
    /\ managed \subseteq Organisations

\* In whatever order and however often events arrive, a subscription the database
\* calls cancelled has been disabled at the provider, unless a handler wrote on an
\* overtaken read, the organisation bought a second subscription beside a first or
\* a subscription outlived its organisation (an event changes the row that has its
\* code, and no other).
CanceledIsDisabled ==
    ~staleWrite /\ (\A q \in Sold : Open(sub[q].sale.o)) =>
        \A o \in Organisations :
            LET s == subscription[o].code
            IN  /\ subscription[o].status = "CANCELED"
                /\ \A q \in SoldTo(o) : ~sub[q].second
                => ~Live(s)

\* Once every event has been answered, the organisation and its row say what the
\* provider says of the subscription it bought last, although answers are lost
\* and handlers die between their two writes: unless an event was handled out of
\* order or a handler wrote on an overtaken read.  The plan and status the platform
\* set stand until the next event sets both; the code and the row do not mind them.
MirrorsTheProvider ==
    inbox = {} /\ Busy = {} /\ ~disordered /\ ~staleWrite =>
        \A o \in Organisations : Open(o) /\ SoldTo(o) # {} =>
            \E s \in SoldTo(o) :
                LET plan == sub[s].sale.plan
                    status == mapPaystackStatus[sub[s].status]
                IN  /\ \A q \in SoldTo(o) : sub[q].since <= sub[s].since
                    /\ org[o].code = s
                    /\ subscription[o] = [code |-> s, plan |-> plan, status |-> status]
                    /\ o \notin managed => org[o].plan = plan /\ org[o].billing = status
=============================================================================
