----------------------------- MODULE Membership -----------------------------
(***************************************************************************)
(* How people come to organisations: registrations that wait for their     *)
(* email to be verified, organisations the platform opens by itself,       *)
(* invitations, member roles and the end of an organisation (AuthService,  *)
(* InvitationsService, OrganisationsService and the clean-up job).         *)
(*                                                                         *)
(* A handler reads and checks in one step and writes by id in later ones.  *)
(* A role is taken from the token a request carries and not read again, so *)
(* an administrator who has been demoted goes on as one until it expires:  *)
(* demoted holds those.                                                    *)
(*                                                                         *)
(* History variables: overtaken holds the handlers of which something they *)
(* read has been written by another since; staleCommit tells that such a   *)
(* handler wrote; byPlatform holds the organisations the platform opened;  *)
(* budget is the number of requests still to be begun.                     *)
(***************************************************************************)
EXTENDS Tenants

CONSTANTS
    Clients,        \* handlers that may be in flight together
    Invitations,    \* identities of invitations
    Registrations   \* identities of pending registrations

VARIABLES invitation, registration, demoted, op, overtaken, staleCommit, byPlatform, budget

memberTables == <<org, account, invitation, registration, demoted>>
memberHistory == <<overtaken, staleCommit, budget>>

(***************************************************************************)
(* The tables.                                                             *)
(***************************************************************************)
InvitationStatus == {"PENDING", "ACCEPTED", "EXPIRED", "CANCELLED"}
NoRow == {"NEW", "DELETED"}       \* before the row exists and after its deletion
Anywhere == Organisations \cup {"nowhere"}
Anyone == Emails \cup {Nobody}

InvitationRows == [status : InvitationStatus \cup NoRow, email : Anyone, org : Anywhere,
                   role : Role, overdue : BOOLEAN]
NoInvitation(st) == [status |-> st, email |-> Nobody, org |-> "nowhere", role |-> "USER",
                     overdue |-> FALSE]

RegistrationRows == [status : {"OPEN"} \cup NoRow, email : Anyone, org : Anywhere,
                     overdue : BOOLEAN]
NoRegistration(st) == [status |-> st, email |-> Nobody, org |-> "nowhere", overdue |-> FALSE]

Waiting == {r \in Registrations : registration[r].status = "OPEN"}
InTime == {r \in Waiting : ~registration[r].overdue}
Pending(e, o) == {i \in Invitations : /\ invitation[i].status = "PENDING"
                                      /\ invitation[i].email = e
                                      /\ invitation[i].org = o}
Lapsed(i) == invitation[i].status = "PENDING" /\ invitation[i].overdue

\* deleteExpired, and the job that does the same at night.
Purged == [r \in Registrations |-> IF r \in Waiting \ InTime THEN NoRegistration("DELETED")
                                   ELSE registration[r]]

\* The token of a carries the role of an administrator of o.
ActsAsAdmin(a, o) == account[a].org = o /\ (account[a].role = "ADMIN" \/ a \in demoted)

(***************************************************************************)
(* Handlers in flight, and what each has read.                             *)
(***************************************************************************)
Idle == [pc |-> "idle"]
Steps == {Idle}
         \cup [pc : {"invite"}, e : Emails, o : Organisations, role : Role]
         \cup [pc : {"join", "mark", "cancel"}, i : Invitations]
         \cup [pc : {"drop", "found"}, r : Registrations, e : Emails, o : Organisations]
         \cup [pc : {"create", "update"}, r : Registrations, e : Emails, o : Organisations]
         \cup [pc : {"resend"}, r : Registrations]
         \cup [pc : {"role"}, m : Emails, o : Organisations, role : Role]
         \cup [pc : {"delete"}, o : Organisations]

\* lapse: resolveExpiry has still to write EXPIRED to the invitations of rest.
Ops == Steps \cup [pc : {"lapse"}, rest : SUBSET Invitations, then : Steps]

InFlight == {c \in Clients : op[c] # Idle}
Fresh(pcs, id) == {op[c][id] : c \in {d \in InFlight : op[d].pc \in pcs}}

RowsReadBy(s) ==
    CASE s.pc \in {"create", "update"} ->
             {<<"account", s.e>>, <<"registering", s.e>>, <<"name", s.o>>}
      [] s.pc \in {"drop", "found"} ->
             {<<"account", s.e>>, <<"registration", s.r>>, <<"name", s.o>>}
      [] s.pc = "resend" -> {<<"registration", s.r>>}
      [] s.pc = "invite" -> {<<"account", s.e>>, <<"invited", s.e>>, <<"name", s.o>>}
      [] s.pc \in {"join", "cancel"} -> {<<"invitation", s.i>>}
      [] s.pc = "role" -> {<<"account", s.m>>, <<"admins", s.o>>}
      [] OTHER -> {}
RowsRead(s) == IF s.pc = "lapse"
               THEN RowsReadBy(s.then) \cup {<<"invitation", i>> : i \in s.rest}
               ELSE RowsReadBy(s)

Begin(c, s) == /\ op[c] = Idle
               /\ budget > 0
               /\ budget' = budget - 1
               /\ op' = [op EXCEPT ![c] = s]
               /\ UNCHANGED <<overtaken, staleCommit>>

\* c writes rows and goes on as s; who has read them is overtaken.
Commit(c, s, rows) ==
    /\ op' = [op EXCEPT ![c] = s]
    /\ staleCommit' = (staleCommit \/ c \in overtaken)
    /\ overtaken' = IF staleCommit' THEN {}
                    ELSE (overtaken \cup {d \in InFlight \ {c} : RowsRead(op[d]) \cap rows # {}})
                         \ (IF s = Idle THEN {c} ELSE {})
    /\ UNCHANGED budget

\* c ends, having failed or died, without writing.
Abandon(c) == /\ op' = [op EXCEPT ![c] = Idle]
              /\ overtaken' = overtaken \ {c}
              /\ UNCHANGED <<memberTables, staleCommit, budget>>

\* Organisations and accounts are given; nobody is invited or registering.
MembershipInit ==
    /\ invitation = [i \in Invitations |-> NoInvitation("NEW")]
    /\ registration = [r \in Registrations |-> NoRegistration("NEW")]
    /\ demoted = {}
    /\ op = [c \in Clients |-> Idle]
    /\ overtaken = {} /\ staleCommit = FALSE /\ byPlatform = {}

(***************************************************************************)
(* Registering an organisation.  A refused request does no more than       *)
(* cleanup.                                                                *)
(***************************************************************************)
cleanup == /\ Waiting # InTime
           /\ registration' = Purged
           /\ UNCHANGED <<org, account, invitation, demoted, op, memberHistory>>

\* A person who is registering already takes another name, which must be free:
\* also of the reservation that is to be changed.
registerRead(c) ==
    \E e \in Emails, o \in Organisations :
        /\ org[o].state = "none"
        /\ \A r \in InTime : registration[r].org # o
        /\ account[e] = NoAccount
        /\ registration' = Purged
        /\ LET own == {r \in InTime : registration[r].email = e}
           IN  IF own # {}
               THEN \E r \in own : Begin(c, [pc |-> "update", r |-> r, e |-> e, o |-> o])
               ELSE \E r \in Registrations \ Fresh({"create"}, "r") :
                        /\ registration[r].status = "NEW"
                        /\ Begin(c, [pc |-> "create", r |-> r, e |-> e, o |-> o])
        /\ UNCHANGED <<org, account, invitation, demoted>>

\* email and slug are unique among the registrations.
NameReserved(r, o) == \E q \in Waiting \ {r} : registration[q].org = o
Registering(r, e) == \E q \in Waiting \ {r} : registration[q].email = e

Reserve(r, e, o) ==
    registration' = [registration EXCEPT
                        ![r] = [status |-> "OPEN", email |-> e, org |-> o, overdue |-> FALSE]]

createRegistration(c) ==
    LET s == op[c]
    IN  /\ s.pc = "create"
        /\ ~NameReserved(s.r, s.o) /\ ~Registering(s.r, s.e)
        /\ Reserve(s.r, s.e, s.o)
        /\ Commit(c, Idle, {<<"registering", s.e>>, <<"name", s.o>>})
        /\ UNCHANGED <<org, account, invitation, demoted>>

updateRegistration(c) ==
    LET s == op[c]
    IN  /\ s.pc = "update"
        /\ s.r \in Waiting /\ ~NameReserved(s.r, s.o)
        /\ Reserve(s.r, s.e, s.o)
        /\ Commit(c, Idle, {<<"registration", s.r>>, <<"name", s.o>>,
                            <<"name", registration[s.r].org>>})
        /\ UNCHANGED <<org, account, invitation, demoted>>

resendRead(c) == \E r \in InTime :
                    /\ Begin(c, [pc |-> "resend", r |-> r])
                    /\ registration' = Purged
                    /\ UNCHANGED <<org, account, invitation, demoted>>

resend(c) == /\ op[c].pc = "resend"
             /\ op[c].r \in Waiting
             /\ registration' = [registration EXCEPT ![op[c].r].overdue = FALSE]
             /\ Commit(c, Idle, {<<"registration", op[c].r>>})
             /\ UNCHANGED <<org, account, invitation, demoted>>

\* verifyEmail with the token of the registration: overdue, or its name taken,
\* it is dropped; else the organisation is founded.
verifyRead(c) ==
    \E r \in Waiting :
        LET p == registration[r]
        IN  /\ org[p.org].state # "deleted"
            /\ Begin(c, [pc |-> IF p.overdue \/ Open(p.org) THEN "drop" ELSE "found",
                         r |-> r, e |-> p.email, o |-> p.org])
            /\ UNCHANGED memberTables

DropRegistration(r) ==
    registration' = [registration EXCEPT ![r] = NoRegistration("DELETED")]

dropRegistration(c) ==
    /\ op[c].pc = "drop"
    /\ op[c].r \in Waiting
    /\ DropRegistration(op[c].r)
    /\ Commit(c, Idle, {<<"registration", op[c].r>>, <<"registering", op[c].e>>,
                        <<"name", op[c].o>>})
    /\ UNCHANGED <<org, account, invitation, demoted>>

\* One transaction: organisation, administrator, end of the registration.
foundOrganisation(c) ==
    LET s == op[c]
    IN  /\ s.pc = "found"
        /\ s.r \in Waiting /\ org[s.o].state = "none" /\ account[s.e] = NoAccount
        /\ org' = [org EXCEPT ![s.o] = NewOrganisation("open")]
        /\ account' = [account EXCEPT ![s.e] = [org |-> s.o, role |-> "ADMIN"]]
        /\ DropRegistration(s.r)
        /\ Commit(c, Idle, {<<"account", s.e>>, <<"registration", s.r>>, <<"registering", s.e>>,
                            <<"name", s.o>>, <<"name", registration[s.r].org>>})
        /\ UNCHANGED <<invitation, demoted>>

\* The platform opens an organisation: one insert, with nobody in it.
createOrganisation == \E o \in Organisations :
    /\ org[o].state = "none"
    /\ budget > 0 /\ budget' = budget - 1
    /\ org' = [org EXCEPT ![o] = NewOrganisation("open")]
    /\ byPlatform' = byPlatform \cup {o}
    /\ overtaken' = IF staleCommit THEN {}
                    ELSE overtaken \cup {d \in InFlight : <<"name", o>> \in RowsRead(op[d])}
    /\ UNCHANGED <<account, invitation, registration, demoted, op, staleCommit>>

(***************************************************************************)
(* Invitations.                                                            *)
(***************************************************************************)
\* resolveExpiry of the invitations that have lapsed, then on to s.
Lapsing(i, s) == [pc |-> "lapse", rest |-> {i}, then |-> s]

\* Faulty variant: nobody looks for an invitation that is still pending.
inviteAgainRead(c) ==
    \E a \in Emails, e \in Emails, o \in Organisations, role \in Role :
        /\ ActsAsAdmin(a, o) /\ Open(o)
        /\ account[e] = NoAccount
        /\ WithinLimit(o)
        /\ Begin(c, [pc |-> "invite", e |-> e, o |-> o, role |-> role])
        /\ UNCHANGED memberTables

inviteRead(c) ==
    \E a \in Emails, e \in Emails, o \in Organisations, role \in Role :
        LET s == [pc |-> "invite", e |-> e, o |-> o, role |-> role]
        IN  /\ ActsAsAdmin(a, o) /\ Open(o)
            /\ account[e] = NoAccount
            /\ \/ Pending(e, o) = {} /\ WithinLimit(o) /\ Begin(c, s)
               \/ \E i \in Pending(e, o) : Lapsed(i) /\ Begin(c, Lapsing(i, s))
            /\ UNCHANGED memberTables

\* One EXPIRED; after the last the handler goes on, an invitation if the plan
\* has room for it.
lapse(c) ==
    /\ op[c].pc = "lapse"
    /\ \E i \in op[c].rest :
        LET rest == op[c].rest \ {i}
            then == op[c].then
            next == IF rest # {} THEN [op[c] EXCEPT !.rest = rest]
                    ELSE IF then.pc = "invite" /\ ~WithinLimit(then.o) THEN Idle
                    ELSE then
        IN  /\ invitation[i].status \notin NoRow
            /\ invitation' = [invitation EXCEPT ![i].status = "EXPIRED"]
            /\ Commit(c, next, {<<"invitation", i>>, <<"invited", invitation[i].email>>})
    /\ UNCHANGED <<org, account, registration, demoted>>

invite(c) ==
    LET s == op[c]
    IN  /\ s.pc = "invite" /\ Open(s.o)
        /\ \E i \in Invitations :
            /\ invitation[i].status = "NEW"
            /\ invitation' = [invitation EXCEPT
                    ![i] = [status |-> "PENDING", email |-> s.e, org |-> s.o, role |-> s.role,
                            overdue |-> FALSE]]
        /\ Commit(c, Idle, {<<"invited", s.e>>})
        /\ UNCHANGED <<org, account, registration, demoted>>

listRead(c) ==
    \E a \in Emails, o \in Organisations :
        LET lapsed == {i \in Invitations : Lapsed(i) /\ invitation[i].org = o}
        IN  /\ ActsAsAdmin(a, o) /\ lapsed # {}
            /\ Begin(c, [pc |-> "lapse", rest |-> lapsed, then |-> Idle])
            /\ UNCHANGED memberTables

\* Faulty variant: who has an account already need not join.
acceptForAccountRead(c) ==
    \E i \in Invitations :
        /\ invitation[i].status = "PENDING" /\ ~invitation[i].overdue
        /\ Begin(c, [pc |-> IF account[invitation[i].email] = NoAccount THEN "join" ELSE "mark",
                     i |-> i])
        /\ UNCHANGED memberTables

acceptRead(c) ==
    \E i \in Invitations :
        /\ invitation[i].status = "PENDING"
        /\ IF invitation[i].overdue THEN Begin(c, Lapsing(i, Idle))
           ELSE /\ account[invitation[i].email] = NoAccount
                /\ Begin(c, [pc |-> "join", i |-> i])
        /\ UNCHANGED memberTables

join(c) ==
    LET p == invitation[op[c].i]
    IN  /\ op[c].pc = "join"
        /\ p.status \notin NoRow /\ Open(p.org) /\ account[p.email] = NoAccount
        /\ account' = [account EXCEPT ![p.email] = [org |-> p.org, role |-> p.role]]
        /\ Commit(c, [pc |-> "mark", i |-> op[c].i],
                  {<<"account", p.email>>, <<"admins", p.org>>})
        /\ UNCHANGED <<org, invitation, registration, demoted>>

mark(c) ==
    /\ op[c].pc = "mark"
    /\ invitation[op[c].i].status \notin NoRow
    /\ invitation' = [invitation EXCEPT ![op[c].i].status = "ACCEPTED"]
    /\ Commit(c, Idle, {<<"invitation", op[c].i>>, <<"invited", invitation[op[c].i].email>>})
    /\ UNCHANGED <<org, account, registration, demoted>>

cancelRead(c) ==
    \E a \in Emails, i \in Invitations :
        LET s == [pc |-> "cancel", i |-> i]
        IN  /\ invitation[i].status \in {"PENDING", "EXPIRED"}
            /\ ActsAsAdmin(a, invitation[i].org)
            /\ Begin(c, IF Lapsed(i) THEN Lapsing(i, s) ELSE s)
            /\ UNCHANGED memberTables

cancel(c) ==
    /\ op[c].pc = "cancel"
    /\ invitation[op[c].i].status \notin NoRow
    /\ invitation' = [invitation EXCEPT ![op[c].i].status = "CANCELLED"]
    /\ Commit(c, Idle, {<<"invitation", op[c].i>>, <<"invited", invitation[op[c].i].email>>})
    /\ UNCHANGED <<org, account, registration, demoted>>

(***************************************************************************)
(* Members and the end of an organisation.                                 *)
(***************************************************************************)
\* Faulty variant: the administrators are not counted, since the actor, who
\* must not give up the role, is one.
roleUncountedRead(c) ==
    \E a \in Emails, m \in Emails, o \in Organisations, role \in Role :
        /\ ActsAsAdmin(a, o) /\ account[m].org = o
        /\ m = a => role = "ADMIN"
        /\ Begin(c, [pc |-> "role", m |-> m, o |-> o, role |-> role])
        /\ UNCHANGED memberTables

updateMemberRoleRead(c) ==
    \E a \in Emails, m \in Emails, o \in Organisations, role \in Role :
        /\ ActsAsAdmin(a, o) /\ account[m].org = o
        /\ m = a => role = "ADMIN"
        /\ account[m].role = "ADMIN" /\ role # "ADMIN" => Cardinality(Admins(o)) > 1
        /\ Begin(c, [pc |-> "role", m |-> m, o |-> o, role |-> role])
        /\ UNCHANGED memberTables

updateMemberRole(c) ==
    LET s == op[c]
    IN  /\ s.pc = "role"
        /\ account[s.m] # NoAccount
        /\ account' = [account EXCEPT ![s.m].role = s.role]
        /\ demoted' = IF account[s.m].role = "ADMIN" /\ s.role # "ADMIN"
                      THEN demoted \cup {s.m} ELSE demoted
        /\ Commit(c, Idle, {<<"account", s.m>>, <<"admins", s.o>>})
        /\ UNCHANGED <<org, invitation, registration>>

\* An administrator deletes their own organisation, the platform any.
deleteRead(c) == \E o \in Organisations :
                    /\ Open(o)
                    /\ Begin(c, [pc |-> "delete", o |-> o])
                    /\ UNCHANGED memberTables

\* Faulty variant: the row goes, what refers to it stays.
deleteRowOnly(c) ==
    /\ op[c].pc = "delete" /\ Open(op[c].o)
    /\ org' = [org EXCEPT ![op[c].o] = NewOrganisation("deleted")]
    /\ Commit(c, Idle, {<<"name", op[c].o>>})
    /\ UNCHANGED <<account, invitation, registration, demoted>>

\* Accounts and invitations go with it (onDelete: Cascade).
deleteOrganisation(c) ==
    LET o == op[c].o
        gone == Members(o)
        sent == {i \in Invitations : invitation[i].org = o}
    IN  /\ op[c].pc = "delete" /\ Open(o)
        /\ org' = [org EXCEPT ![o] = NewOrganisation("deleted")]
        /\ account' = [e \in Emails |-> IF e \in gone THEN NoAccount ELSE account[e]]
        /\ invitation' = [i \in Invitations |-> IF i \in sent THEN NoInvitation("DELETED")
                                                ELSE invitation[i]]
        /\ demoted' = demoted \ gone
        /\ Commit(c, Idle, {<<"name", o>>, <<"admins", o>>}
                           \cup {<<"account", e>> : e \in gone}
                           \cup {<<"invitation", i>> : i \in sent})
        /\ UNCHANGED registration

(***************************************************************************)
(* Time, refusals and crashes.                                             *)
(***************************************************************************)
RegistrationLapses == \E r \in InTime :
    /\ registration' = [registration EXCEPT ![r].overdue = TRUE]
    /\ UNCHANGED <<org, account, invitation, demoted, op, memberHistory>>

InvitationLapses == \E i \in Invitations :
    /\ invitation[i].status = "PENDING" /\ ~invitation[i].overdue
    /\ invitation' = [invitation EXCEPT ![i].overdue = TRUE]
    /\ UNCHANGED <<org, account, registration, demoted, op, memberHistory>>

TokenExpires == \E a \in demoted :
    /\ demoted' = demoted \ {a}
    /\ UNCHANGED <<org, account, invitation, registration, op, memberHistory>>

\* The database refuses a write: its row is gone, or a unique key is taken.
WriteFails(c) ==
    LET s == op[c]
    IN  /\ \/ s.pc \in {"mark", "cancel"} /\ invitation[s.i].status \in NoRow
           \/ s.pc = "lapse" /\ \E i \in s.rest : invitation[i].status \in NoRow
           \/ s.pc = "invite" /\ ~Open(s.o)
           \/ s.pc = "join" /\ (invitation[s.i].status \notin NoRow
                                => account[invitation[s.i].email] # NoAccount)
           \/ s.pc = "create" /\ (NameReserved(s.r, s.o) \/ Registering(s.r, s.e))
           \/ s.pc = "update" /\ (s.r \notin Waiting \/ NameReserved(s.r, s.o))
           \/ s.pc \in {"resend", "drop"} /\ s.r \notin Waiting
           \/ s.pc = "found" /\ (\/ s.r \notin Waiting \/ org[s.o].state # "none"
                                 \/ account[s.e] # NoAccount)
           \/ s.pc = "role" /\ account[s.m] = NoAccount
           \/ s.pc = "delete" /\ ~Open(s.o)
        /\ Abandon(c)

\* The process dies, the database stays as it is.
Crash(c) == c \in InFlight /\ Abandon(c)

MembershipRequest(c) ==
    \/ registerRead(c) \/ resendRead(c) \/ verifyRead(c)
    \/ inviteRead(c) \/ listRead(c) \/ acceptRead(c) \/ cancelRead(c)
    \/ updateMemberRoleRead(c) \/ deleteRead(c)

MembershipContinue(c) ==
    \/ createRegistration(c) \/ updateRegistration(c) \/ resend(c)
    \/ dropRegistration(c) \/ foundOrganisation(c)
    \/ lapse(c) \/ invite(c) \/ join(c) \/ mark(c) \/ cancel(c)
    \/ updateMemberRole(c) \/ deleteOrganisation(c)
    \/ WriteFails(c)

MembershipNext ==
    \/ createOrganisation
    \/ /\ \/ \E c \in Clients : MembershipRequest(c) \/ MembershipContinue(c) \/ Crash(c)
          \/ cleanup \/ RegistrationLapses \/ InvitationLapses \/ TokenExpires
       /\ UNCHANGED byPlatform

(***************************************************************************)
(* Properties.                                                             *)
(***************************************************************************)
\* Every row and handler holds a value of its type, and nothing refers to an
\* organisation that is not there (onDelete: Cascade).
MembershipTypeOK ==
    /\ org \in [Organisations -> OrganisationRows]
    /\ account \in [Emails -> Accounts]
    /\ invitation \in [Invitations -> InvitationRows]
    /\ registration \in [Registrations -> RegistrationRows]
    /\ demoted \subseteq Emails
    /\ op \in [Clients -> Ops]
    /\ overtaken \subseteq Clients /\ staleCommit \in BOOLEAN /\ budget \in Nat
    /\ byPlatform \subseteq Organisations
    /\ \A e \in Emails : account[e] # NoAccount => Open(account[e].org)
    /\ \A i \in Invitations : invitation[i].status \notin NoRow => Open(invitation[i].org)

\* However handlers overlap, fail or die, who was invited and is said to have
\* accepted is a member (accept creates the account before it says so).
AcceptedMeansMember ==
    \A i \in Invitations :
        invitation[i].status = "ACCEPTED" => account[invitation[i].email].org = invitation[i].org

\* As long as no handler writes on an overtaken read, nobody holds two invitations
\* to one organisation that can both be taken up ('A pending invitation already
\* exists for this email').
OneLiveInvitation ==
    ~staleCommit =>
        \A e \in Emails, o \in Organisations :
            Cardinality({i \in Pending(e, o) : ~Lapsed(i)}) <= 1

\* An organisation that was registered has a member for as long as it is open, and
\* while no handler writes on an overtaken read it keeps an administrator, although
\* a demoted one may go on acting ('Organisation must retain at least one admin').
\* One the platform opened has nobody in it, and nobody is ever invited to it.
AdminRemains ==
    \A o \in Organisations : Open(o) =>
        IF o \in byPlatform
        THEN Members(o) = {} /\ \A i \in Invitations : invitation[i].org # o
        ELSE Members(o) # {} /\ (~staleCommit => Admins(o) # {})
\* "Organisation must retain at least one admin": one that was registered does,
\* whichever administrators are demoted together.
RetainsAnAdmin == \A o \in Organisations : Open(o) /\ o \notin byPlatform => Admins(o) # {}
=============================================================================
