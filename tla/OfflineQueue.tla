---------------------------- MODULE OfflineQueue ----------------------------
(***************************************************************************)
(* The mobile application's offline queue (lib/offline/sync-queue.ts and   *)
(* OfflineSyncProvider), which sends its items over the session of         *)
(* Sessions.tla.                                                           *)
(*                                                                         *)
(* What the user does offline is appended to a stored list: read, write.   *)
(* Each change of the network that leaves the device online starts a pass: *)
(* it reads the list, sends one item after the other and stores those that *)
(* failed in its place.  A further change tells it to send no more, but    *)
(* not to stop, and may start the next pass meanwhile.                     *)
(*                                                                         *)
(* History variables: disturbed tells that a pass read the list while      *)
(* another was between its reading and its writing, or that somebody wrote *)
(* over what they had not read; unanswered that the answer to a request    *)
(* that was carried out got lost.  interrupts and faults count what may    *)
(* still go wrong.                                                         *)
(***************************************************************************)
EXTENDS Sessions, SequencesExt

CONSTANTS
    Items,          \* what the user may do offline
    Again,          \* those the server accepts more than once
    MaxInterrupts,  \* bound: changes of the network while a pass is running
    MaxFaults       \* bound: requests lost while online, and kills

ASSUME QueueAssumption == IsFiniteSet(Items) /\ MaxInterrupts \in Nat /\ MaxFaults \in Nat

Passes == Requesters

VARIABLES network, queue, tap, pass, applied, answered, disturbed, unanswered, interrupts, faults

outcomes == <<applied, answered>>
queueVars == <<network, queue, tap, pass, outcomes, disturbed, unanswered, interrupts, faults>>
vars == <<queueVars, sessionVars>>

(***************************************************************************)
(* State.                                                                  *)
(***************************************************************************)
\* A tap of the user: not yet, reading the list, stored.
Lists == {s \in UNION {[1 .. n -> Items] : n \in 0 .. Cardinality(Items)} : IsInjective(s)}
Taps == {[pc |-> "none"], [pc |-> "queued"]} \cup [pc : {"write"}, seen : Lists]

\* seen is the list as it was read, todo what is still to be sent, left what
\* failed; result and retried are about the request under way, token about the
\* access token it carries.
Results == {"none", "accepted", "error", "401"}
NoPass == [pc |-> "over", seen |-> <<>>, todo |-> <<>>, left |-> <<>>, cancelled |-> FALSE,
           token |-> "none", retried |-> FALSE, result |-> "none"]
NewPass == [NoPass EXCEPT !.pc = "read"]
PassRecords == [pc : {"over", "read", "loop", "sent", "answer", "await"}, seen : Lists, todo : Lists,
                left : Lists, cancelled : BOOLEAN, token : Access, retried : BOOLEAN,
                result : Results]

Running == {p \in Passes : pass[p].pc # "over"}
Holding == {p \in Running : pass[p].pc # "read"}

Init == /\ SessionInit
        /\ network = "offline"
        /\ queue = <<>>
        /\ tap = [i \in Items |-> [pc |-> "none"]]
        /\ pass = [p \in Passes |-> NoPass]
        /\ applied = [i \in Items |-> 0] /\ answered = {}
        /\ disturbed = FALSE /\ unanswered = FALSE
        /\ interrupts = MaxInterrupts /\ faults = MaxFaults

(***************************************************************************)
(* Taps of the user: enqueueSyncItem.                                      *)
(***************************************************************************)
enqueueRead(i) ==
    /\ network = "offline" /\ tap[i].pc = "none"
    /\ tap' = [tap EXCEPT ![i] = [pc |-> "write", seen |-> queue]]
    /\ UNCHANGED <<network, queue, pass, outcomes, disturbed, unanswered, interrupts, faults,
                   sessionVars>>

enqueueSyncItem(i) ==
    /\ tap[i].pc = "write"
    /\ queue' = Append(tap[i].seen, i)
    /\ disturbed' = (disturbed \/ queue # tap[i].seen)
    /\ tap' = [tap EXCEPT ![i] = [pc |-> "queued"]]
    /\ UNCHANGED <<network, pass, outcomes, unanswered, interrupts, faults, sessionVars>>

(***************************************************************************)
(* Passes.                                                                 *)
(***************************************************************************)
\* p goes on as record, and nothing else happens to the queue.
PassOn(p, record) ==
    /\ pass' = [pass EXCEPT ![p] = record]
    /\ UNCHANGED <<network, queue, tap, interrupts, faults>>

getSyncQueue(p) ==
    /\ pass[p].pc = "read"
    /\ PassOn(p, IF queue = <<>> THEN NoPass
                 ELSE [pass[p] EXCEPT !.pc = "loop", !.seen = queue, !.todo = queue])
    /\ disturbed' = (disturbed \/ (queue # <<>> /\ Holding # {}))
    /\ UNCHANGED <<outcomes, unanswered, sessionVars>>

\* Faulty variant: a cancelled pass forgets what it did not send.
forgetRest(p) ==
    /\ pass[p].pc = "loop" /\ pass[p].cancelled /\ pass[p].todo # <<>>
    /\ PassOn(p, [pass[p] EXCEPT !.todo = <<>>])
    /\ UNCHANGED <<outcomes, disturbed, unanswered, sessionVars>>

\* Faulty variant: a cancelled pass keeps the whole list.
keepAll(p) ==
    /\ pass[p].pc = "loop" /\ pass[p].cancelled /\ pass[p].todo # <<>>
    /\ PassOn(p, [pass[p] EXCEPT !.todo = <<>>, !.left = @ \o pass[p].seen])
    /\ UNCHANGED <<outcomes, disturbed, unanswered, sessionVars>>

keepRest(p) ==
    /\ pass[p].pc = "loop" /\ pass[p].cancelled /\ pass[p].todo # <<>>
    /\ PassOn(p, [pass[p] EXCEPT !.todo = <<>>, !.left = @ \o pass[p].todo])
    /\ UNCHANGED <<outcomes, disturbed, unanswered, sessionVars>>

processSyncItem(p) ==
    /\ pass[p].pc = "loop" /\ ~pass[p].cancelled /\ pass[p].todo # <<>>
    /\ PassOn(p, [pass[p] EXCEPT !.pc = "sent", !.token = access, !.retried = FALSE])
    /\ UNCHANGED <<outcomes, disturbed, unanswered, sessionVars>>

Item(p) == Head(pass[p].todo)
Answered(record, result) == [record EXCEPT !.pc = "answer", !.result = result, !.token = "none"]
Hears(p, result) == PassOn(p, Answered(pass[p], result))

\* The API denies, carries out or refuses the request; an item that is carried
\* out once only is refused from then on, and others may be refused for what has
\* happened meanwhile.
serve(p) ==
    /\ pass[p].pc = "sent" /\ network = "online"
    /\ \/ /\ pass[p].token # "fresh"
          /\ Hears(p, "401")
          /\ UNCHANGED outcomes
       \/ /\ pass[p].token = "fresh"
          /\ Item(p) \in Again \/ applied[Item(p)] = 0
          /\ Hears(p, "accepted")
          /\ applied' = [applied EXCEPT ![Item(p)] = IF @ = 2 THEN 2 ELSE @ + 1]
          /\ answered' = answered \cup {Item(p)}
       \/ /\ pass[p].token = "fresh"
          /\ Hears(p, "error")
          /\ answered' = answered \cup {Item(p)}
          /\ UNCHANGED applied
    /\ UNCHANGED <<disturbed, unanswered, sessionVars>>

\* A request or its answer is lost: always when the device is offline, and else
\* a fault.
Lose == /\ faults' = IF network = "online" THEN faults - 1 ELSE faults
        /\ network = "online" => faults > 0

requestLost(p) ==
    /\ pass[p].pc \in {"sent", "answer"} /\ pass[p].result # "error"
    /\ Lose
    /\ pass' = [pass EXCEPT ![p] = Answered(@, "error")]
    /\ unanswered' = (unanswered \/ pass[p].result = "accepted")
    /\ UNCHANGED <<network, queue, tap, outcomes, disturbed, interrupts, sessionVars>>

refreshLost(p) ==
    /\ refreshFails(p)
    /\ Lose
    /\ UNCHANGED <<network, queue, tap, pass, outcomes, disturbed, unanswered, interrupts>>

\* The pass after the item it has sent, which is kept or is done.
After(record, kept) ==
    [record EXCEPT !.pc = "loop", !.todo = Tail(record.todo), !.result = "none", !.retried = FALSE,
                   !.left = IF kept THEN Append(@, Head(record.todo)) ELSE @]

\* Faulty variant: an item sent by a pass that was told to stop is kept.
hearUnlessCancelled(p) ==
    /\ pass[p].pc = "answer" /\ (pass[p].result # "401" \/ pass[p].retried)
    /\ PassOn(p, After(pass[p], pass[p].result # "accepted" \/ pass[p].cancelled))
    /\ UNCHANGED <<outcomes, disturbed, unanswered, sessionVars>>

hear(p) ==
    /\ pass[p].pc = "answer" /\ (pass[p].result # "401" \/ pass[p].retried)
    /\ PassOn(p, After(pass[p], pass[p].result # "accepted"))
    /\ UNCHANGED <<outcomes, disturbed, unanswered, sessionVars>>

\* The first 401 waits for a renewal, and sends the item again after it.
renew(p) ==
    /\ pass[p].pc = "answer" /\ pass[p].result = "401" /\ ~pass[p].retried
    /\ refreshAccessToken(p)
    /\ PassOn(p, [pass[p] EXCEPT !.pc = "await"])
    /\ UNCHANGED <<outcomes, disturbed, unanswered>>

sendAgain(p) ==
    /\ pass[p].pc = "await"
    /\ Resume(p)
    /\ PassOn(p, IF awaits[p] = "renewed"
                 THEN [pass[p] EXCEPT !.pc = "sent", !.token = access, !.retried = TRUE,
                                      !.result = "none"]
                 ELSE After(pass[p], TRUE))
    /\ UNCHANGED <<outcomes, disturbed, unanswered>>

replaceSyncQueue(p) ==
    /\ pass[p].pc = "loop" /\ pass[p].todo = <<>>
    /\ queue' = pass[p].left
    /\ disturbed' = (disturbed \/ queue # pass[p].seen)
    /\ pass' = [pass EXCEPT ![p] = NoPass]
    /\ UNCHANGED <<network, tap, outcomes, unanswered, interrupts, faults, sessionVars>>

PassStep(p) ==
    \/ getSyncQueue(p) \/ keepRest(p) \/ processSyncItem(p) \/ serve(p) \/ requestLost(p)
    \/ refreshLost(p) \/ hear(p) \/ renew(p) \/ sendAgain(p) \/ replaceSyncQueue(p)

(***************************************************************************)
(* The network, the session and the application.                           *)
(***************************************************************************)
\* The clean-up of the effect tells every pass that is running to send no more.
Cancel(passes) == [p \in Passes |-> IF p \in Running THEN [passes[p] EXCEPT !.cancelled = TRUE]
                                    ELSE passes[p]]
Interrupt == IF Running = {} THEN UNCHANGED interrupts
             ELSE interrupts > 0 /\ interrupts' = interrupts - 1

GoOffline ==
    /\ network = "online"
    /\ network' = "offline"
    /\ Interrupt
    /\ pass' = Cancel(pass)
    /\ UNCHANGED <<queue, tap, outcomes, disturbed, unanswered, faults, sessionVars>>

\* Back online, or another report of being online: the effect starts a pass (which
\* of those not running it is makes no difference).
GoOnline ==
    /\ IF network = "offline" THEN UNCHANGED interrupts ELSE Interrupt
    /\ network' = "online"
    /\ Running # Passes
    /\ pass' = [Cancel(pass) EXCEPT ![CHOOSE p \in Passes : p \notin Running] = NewPass]
    /\ UNCHANGED <<queue, tap, outcomes, disturbed, unanswered, faults, sessionVars>>

\* The application is killed and started again: online, as far as it knows.
Killed ==
    /\ faults > 0 /\ faults' = faults - 1
    /\ ForgetRequests
    /\ unanswered' = (unanswered \/ \E i \in ToSet(queue) : applied[i] > 0)
    /\ tap' = [i \in Items |-> IF tap[i].pc = "write" THEN [pc |-> "none"] ELSE tap[i]]
    /\ network' = "online"
    /\ pass' = [[p \in Passes |-> NoPass] EXCEPT ![CHOOSE p \in Passes : TRUE] = NewPass]
    /\ UNCHANGED <<queue, outcomes, disturbed, interrupts>>

SessionStep == /\ \/ \E p \in Passes : RefreshStep(p)
                  \/ AccessExpires
                  \/ SignIn
               /\ UNCHANGED queueVars

Next == \/ \E i \in Items : enqueueRead(i) \/ enqueueSyncItem(i)
        \/ \E p \in Passes : PassStep(p)
        \/ SessionStep
        \/ GoOffline \/ GoOnline \/ Killed

Spec == Init /\ [][Next]_vars

(***************************************************************************)
(* What is assumed of the environment for what must happen: requests are   *)
(* answered or given up (30 s), storage works, the user signs in again at  *)
(* a moment when no renewal is about to clear the tokens, and the network  *)
(* keeps being reported, since nothing else starts a pass.                 *)
(***************************************************************************)
Fairness == /\ \A p \in Passes : WF_vars(PassStep(p)) /\ WF_vars(RefreshStep(p) /\ UNCHANGED queueVars)
            /\ \A i \in Items : WF_vars(enqueueSyncItem(i))
            /\ WF_vars(GoOnline)
            /\ SF_vars(SignIn /\ Refreshing = {} /\ UNCHANGED queueVars)

FairSpec == Spec /\ Fairness

(***************************************************************************)
(* Properties.                                                             *)
(***************************************************************************)
\* The variables keep their types; the stored list names an item once, whatever
\* passes and taps write over one another.
TypeOK ==
    /\ SessionTypeOK
    /\ network \in {"online", "offline"}
    /\ queue \in Lists
    /\ tap \in [Items -> Taps]
    /\ pass \in [Passes -> PassRecords]
    /\ applied \in [Items -> 0 .. 2] /\ answered \subseteq Items
    /\ disturbed \in BOOLEAN /\ unanswered \in BOOLEAN
    /\ interrupts \in 0 .. MaxInterrupts /\ faults \in 0 .. MaxFaults

\* Until a pass or a tap overlaps a pass, the list is an outbox: an item leaves it
\* when the server has carried it out and not before, through cancellations,
\* expired sessions, lost requests and kills, and is carried out again only after
\* an answer was lost (the rewriting of the whole list by the effect keeps what
\* failed and what was not sent, and nothing else).
Box == INSTANCE Outbox WITH waiting <- ToSet(queue), applied <- applied, doubt <- unanswered

OutboxKept ==
    /\ Box!OutboxInit
    /\ [][~disturbed' => Box!OutboxNext \/ UNCHANGED Box!outboxVars]_vars

\* What the user did offline reaches the server, which accepts or refuses it,
\* unless overlapping writers of the list have lost it (keeping what a cancelled
\* pass did not send, sending again after a renewal, passes on every report of
\* the network).
EveryItemAnswered ==
    \A i \in Items : tap[i].pc = "queued" ~> (i \in answered \/ disturbed)
=============================================================================
