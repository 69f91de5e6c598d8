--------------------------- MODULE TenancyProofs ---------------------------
(***************************************************************************)
(* Theorems about Tenancy, for every set of people, organisations and      *)
(* handlers, every number of requests and every first roster.              *)
(***************************************************************************)
EXTENDS Tenancy, FiniteSetTheorems, TLAPS

(***************************************************************************)
(* Membership: types.  A row that is there names somebody and some place.  *)
(***************************************************************************)
InvitationNamed(i) == invitation[i].status \notin NoRow =>
                         /\ invitation[i].email \in Emails
                         /\ invitation[i].org \in Organisations /\ Open(invitation[i].org)
RegistrationNamed(r) == registration[r].status = "OPEN" =>
                           /\ registration[r].email \in Emails
                           /\ registration[r].org \in Organisations

OrganisationsTyped == /\ org \in [Organisations -> OrganisationRows]
                      /\ account \in [Emails -> Accounts]
                      /\ demoted \subseteq Emails
                      /\ \A e \in Emails : account[e] # NoAccount => Open(account[e].org)
InvitationsTyped == /\ invitation \in [Invitations -> InvitationRows]
                    /\ \A i \in Invitations : InvitationNamed(i)
RegistrationsTyped == /\ registration \in [Registrations -> RegistrationRows]
                      /\ \A r \in Registrations : RegistrationNamed(r)
HandlersTyped == /\ op \in [Clients -> Ops]
                 /\ overtaken \subseteq Clients /\ staleCommit \in BOOLEAN /\ budget \in Nat

MemberInv == OrganisationsTyped /\ InvitationsTyped /\ RegistrationsTyped /\ HandlersTyped

LEMMA MemberTypes == MemberInv /\ byPlatform \subseteq Organisations => MembershipTypeOK
BY DEF MemberInv, OrganisationsTyped, InvitationsTyped, RegistrationsTyped, HandlersTyped,
       MembershipTypeOK, InvitationNamed

\* A handler's place in its code tells what it remembers.
LEMMA StepFields ==
    ASSUME NEW s \in Steps
    PROVE  /\ s.pc = "idle" <=> s = Idle
           /\ s.pc # "lapse"
           /\ s.pc = "invite" => /\ s = [pc |-> "invite", e |-> s.e, o |-> s.o, role |-> s.role]
                                 /\ s.e \in Emails /\ s.o \in Organisations /\ s.role \in Role
           /\ s.pc \in {"join", "mark", "cancel"} => /\ s = [pc |-> s.pc, i |-> s.i]
                                                     /\ s.i \in Invitations
           /\ s.pc \in {"drop", "found", "create", "update"} =>
                 s.r \in Registrations /\ s.e \in Emails /\ s.o \in Organisations
           /\ s.pc = "resend" => s.r \in Registrations
           /\ s.pc = "role" => s.m \in Emails /\ s.o \in Organisations /\ s.role \in Role
           /\ s.pc = "delete" => s.o \in Organisations
<1>1. s.pc = "idle" <=> s = Idle
  BY DEF Steps, Idle
<1>2. s.pc # "lapse"
  BY DEF Steps, Idle
<1>3. s.pc = "invite" => s \in [pc : {"invite"}, e : Emails, o : Organisations, role : Role]
  BY DEF Steps, Idle
<1>4. s.pc \in {"join", "mark", "cancel"} =>
         s \in [pc : {"join", "mark", "cancel"}, i : Invitations]
  BY DEF Steps, Idle
<1>5. s.pc \in {"drop", "found", "create", "update"} =>
         s.r \in Registrations /\ s.e \in Emails /\ s.o \in Organisations
  BY DEF Steps, Idle
<1>6. s.pc = "resend" => s.r \in Registrations
  BY DEF Steps, Idle
<1>7. s.pc = "role" => s.m \in Emails /\ s.o \in Organisations /\ s.role \in Role
  BY DEF Steps, Idle
<1>8. s.pc = "delete" => s.o \in Organisations
  BY DEF Steps, Idle
<1> QED
  BY <1>1, <1>2, <1>3, <1>4, <1>5, <1>6, <1>7, <1>8

LEMMA OpFields ==
    ASSUME NEW s \in Ops
    PROVE  /\ s.pc # "lapse" => s \in Steps
           /\ s.pc = "lapse" => /\ s = [pc |-> "lapse", rest |-> s.rest, then |-> s.then]
                                /\ s.rest \subseteq Invitations /\ s.then \in Steps
<1>1. CASE s \in Steps
  BY <1>1, StepFields
<1>2. CASE s \in [pc : {"lapse"}, rest : SUBSET Invitations, then : Steps]
  BY <1>2
<1> QED
  BY <1>1, <1>2 DEF Ops

LEMMA OpsMade ==
    /\ Idle \in Steps
    /\ \A e \in Emails, o \in Organisations, role \in Role :
          /\ [pc |-> "invite", e |-> e, o |-> o, role |-> role] \in Steps
          /\ [pc |-> "role", m |-> e, o |-> o, role |-> role] \in Steps
    /\ \A pc \in {"join", "mark", "cancel"}, i \in Invitations : [pc |-> pc, i |-> i] \in Steps
    /\ \A pc \in {"drop", "found", "create", "update"}, r \in Registrations, e \in Emails,
          o \in Organisations : [pc |-> pc, r |-> r, e |-> e, o |-> o] \in Steps
    /\ \A r \in Registrations : [pc |-> "resend", r |-> r] \in Steps
    /\ \A o \in Organisations : [pc |-> "delete", o |-> o] \in Steps
    /\ \A rest \in SUBSET Invitations, s \in Steps :
          [pc |-> "lapse", rest |-> rest, then |-> s] \in Ops
    /\ Steps \subseteq Ops
<1>1. /\ Idle \in Steps
      /\ \A e \in Emails, o \in Organisations, role \in Role :
            /\ [pc |-> "invite", e |-> e, o |-> o, role |-> role] \in Steps
            /\ [pc |-> "role", m |-> e, o |-> o, role |-> role] \in Steps
  BY DEF Steps
<1>2. \A pc \in {"join", "mark", "cancel"}, i \in Invitations : [pc |-> pc, i |-> i] \in Steps
  BY DEF Steps
<1>3. \A pc \in {"drop", "found"}, r \in Registrations, e \in Emails, o \in Organisations :
         [pc |-> pc, r |-> r, e |-> e, o |-> o] \in Steps
  BY DEF Steps
<1>4. \A pc \in {"create", "update"}, r \in Registrations, e \in Emails, o \in Organisations :
         [pc |-> pc, r |-> r, e |-> e, o |-> o] \in Steps
  BY DEF Steps
<1>5. /\ \A r \in Registrations : [pc |-> "resend", r |-> r] \in Steps
      /\ \A o \in Organisations : [pc |-> "delete", o |-> o] \in Steps
  BY DEF Steps
<1>6. /\ \A rest \in SUBSET Invitations, s \in Steps :
            [pc |-> "lapse", rest |-> rest, then |-> s] \in Ops
      /\ Steps \subseteq Ops
  BY DEF Ops
<1> QED
  BY <1>1, <1>2, <1>3, <1>4, <1>5, <1>6

LEMMA AccountsMade ==
    /\ NoAccount.org = "nowhere"
    /\ \A a \in Accounts : /\ a = [org |-> a.org, role |-> a.role]
                           /\ a.role \in Role
                           /\ a # NoAccount <=> a.org # "nowhere"
                           /\ a # NoAccount <=> a.org \in Organisations
    /\ \A o \in Organisations, role \in Role : [org |-> o, role |-> role] \in Accounts
BY TenantsAssumption DEF Accounts, NoAccount, Role

\* c goes on as s, the others stay where they are.
LEMMA HandlersBegin ==
    ASSUME HandlersTyped, NEW c \in Clients, NEW s \in Ops, Begin(c, s)
    PROVE  HandlersTyped' /\ op[c] = Idle /\ op' = [op EXCEPT ![c] = s]
BY DEF HandlersTyped, Begin

LEMMA HandlersCommit ==
    ASSUME HandlersTyped, NEW c \in Clients, NEW s \in Ops, NEW rows, Commit(c, s, rows)
    PROVE  HandlersTyped' /\ op' = [op EXCEPT ![c] = s]
<1>1. overtaken' \subseteq Clients
  BY DEF HandlersTyped, Commit, InFlight
<1> QED
  BY <1>1 DEF HandlersTyped, Commit

LEMMA HandlersAbandon ==
    ASSUME HandlersTyped, NEW c \in Clients, Abandon(c)
    PROVE  HandlersTyped' /\ op' = [op EXCEPT ![c] = Idle]
BY OpsMade DEF HandlersTyped, Abandon

\* The tables that a step may leave alone.
LEMMA OrganisationsStay ==
    ASSUME OrganisationsTyped, UNCHANGED <<org, account, demoted>> PROVE OrganisationsTyped'
BY DEF OrganisationsTyped, Open

LEMMA InvitationsStay ==
    ASSUME InvitationsTyped, UNCHANGED <<org, invitation>> PROVE InvitationsTyped'
BY DEF InvitationsTyped, InvitationNamed, Open

LEMMA RegistrationsStay ==
    ASSUME RegistrationsTyped, UNCHANGED registration PROVE RegistrationsTyped'
BY DEF RegistrationsTyped, RegistrationNamed

LEMMA TablesStay ==
    ASSUME OrganisationsTyped, InvitationsTyped, RegistrationsTyped, UNCHANGED memberTables
    PROVE  OrganisationsTyped' /\ InvitationsTyped' /\ RegistrationsTyped'
BY OrganisationsStay, InvitationsStay, RegistrationsStay DEF memberTables

LEMMA RowsMade ==
    /\ \A st \in NoRow : /\ NoInvitation(st) \in InvitationRows /\ NoInvitation(st).status = st
                         /\ NoRegistration(st) \in RegistrationRows
                         /\ NoRegistration(st).status = st
    /\ \A r \in InvitationRows :
          /\ r = [status |-> r.status, email |-> r.email, org |-> r.org, role |-> r.role,
                  overdue |-> r.overdue]
          /\ \A st \in InvitationStatus : [r EXCEPT !.status = st] \in InvitationRows
          /\ [r EXCEPT !.overdue = TRUE] \in InvitationRows
    /\ \A r \in RegistrationRows, b \in BOOLEAN : [r EXCEPT !.overdue = b] \in RegistrationRows
<1>1. \A st \in NoRow : /\ NoInvitation(st) \in InvitationRows /\ NoInvitation(st).status = st
                        /\ NoRegistration(st) \in RegistrationRows
                        /\ NoRegistration(st).status = st
  BY DEF NoInvitation, NoRegistration, InvitationRows, RegistrationRows, Anyone, Anywhere, Role, NoRow
<1>2. ASSUME NEW r \in InvitationRows
      PROVE  /\ r = [status |-> r.status, email |-> r.email, org |-> r.org, role |-> r.role,
                     overdue |-> r.overdue]
             /\ \A st \in InvitationStatus : [r EXCEPT !.status = st] \in InvitationRows
             /\ [r EXCEPT !.overdue = TRUE] \in InvitationRows
  BY DEF InvitationRows
<1>3. \A r \in RegistrationRows, b \in BOOLEAN : [r EXCEPT !.overdue = b] \in RegistrationRows
  BY DEF RegistrationRows
<1> QED
  BY <1>1, <1>2, <1>3

LEMMA OrganisationsMade ==
    \A st \in {"none", "open", "deleted"} :
       NewOrganisation(st) \in OrganisationRows /\ NewOrganisation(st).state = st
BY DEF NewOrganisation, OrganisationRows, SubscriptionPlan, BillingStatus

(***************************************************************************)
(* Registrations.                                                          *)
(***************************************************************************)
LEMMA PurgedTyped ==
    ASSUME RegistrationsTyped, registration' = Purged PROVE RegistrationsTyped'
<1>1. registration' \in [Registrations -> RegistrationRows]
  BY RowsMade DEF RegistrationsTyped, Purged, NoRow
<1>2. ASSUME NEW r \in Registrations PROVE RegistrationNamed(r)'
  BY RowsMade DEF RegistrationsTyped, Purged, RegistrationNamed, NoRow
<1> QED
  BY <1>1, <1>2 DEF RegistrationsTyped

LEMMA ReserveTyped ==
    ASSUME RegistrationsTyped, NEW r \in Registrations, NEW e \in Emails, NEW o \in Organisations,
           Reserve(r, e, o)
    PROVE  RegistrationsTyped'
<1>1. [status |-> "OPEN", email |-> e, org |-> o, overdue |-> FALSE] \in RegistrationRows
  BY DEF RegistrationRows, Anyone, Anywhere
<1>2. /\ registration' \in [Registrations -> RegistrationRows]
      /\ registration'[r] = [status |-> "OPEN", email |-> e, org |-> o, overdue |-> FALSE]
      /\ \A q \in Registrations \ {r} : registration'[q] = registration[q]
  BY <1>1 DEF RegistrationsTyped, Reserve
<1> QED
  BY <1>2 DEF RegistrationsTyped, RegistrationNamed

LEMMA DropTyped ==
    ASSUME RegistrationsTyped, NEW r \in Registrations, DropRegistration(r)
    PROVE  RegistrationsTyped'
<1>1. /\ registration' \in [Registrations -> RegistrationRows]
      /\ registration'[r].status = "DELETED"
      /\ \A q \in Registrations \ {r} : registration'[q] = registration[q]
  BY RowsMade DEF RegistrationsTyped, DropRegistration, NoRow
<1> QED
  BY <1>1 DEF RegistrationsTyped, RegistrationNamed

LEMMA OverdueTyped ==
    ASSUME RegistrationsTyped, NEW r \in Registrations, NEW b \in BOOLEAN,
           registration' = [registration EXCEPT ![r].overdue = b]
    PROVE  RegistrationsTyped'
<1>1. registration[r] \in RegistrationRows
  BY DEF RegistrationsTyped
<1>2. /\ registration' \in [Registrations -> RegistrationRows]
      /\ \A q \in Registrations : /\ registration'[q].status = registration[q].status
                                  /\ registration'[q].email = registration[q].email
                                  /\ registration'[q].org = registration[q].org
  <2>1. registration' = [registration EXCEPT ![r] = [registration[r] EXCEPT !.overdue = b]]
    OBVIOUS
  <2>2. [registration[r] EXCEPT !.overdue = b] \in RegistrationRows
    BY <1>1, RowsMade
  <2>3. \A q \in Registrations \ {r} : registration'[q] = registration[q]
    BY <2>1 DEF RegistrationsTyped
  <2>4. registration'[r] = [registration[r] EXCEPT !.overdue = b]
    BY <2>1 DEF RegistrationsTyped
  <2>5. /\ registration'[r].status = registration[r].status
        /\ registration'[r].email = registration[r].email
        /\ registration'[r].org = registration[r].org
    BY <1>1, <2>4 DEF RegistrationRows
  <2> QED
    BY <2>1, <2>2, <2>3, <2>5 DEF RegistrationsTyped
<1> QED
  BY <1>2 DEF RegistrationsTyped, RegistrationNamed

(***************************************************************************)
(* Invitations.                                                            *)
(***************************************************************************)
\* One invitation that is there gets another status.
LEMMA StatusTyped ==
    ASSUME InvitationsTyped, UNCHANGED org, NEW i \in Invitations, NEW st \in InvitationStatus,
           invitation[i].status \notin NoRow,
           invitation' = [invitation EXCEPT ![i].status = st]
    PROVE  /\ InvitationsTyped'
           /\ invitation'[i].status = st
           /\ invitation'[i].email = invitation[i].email /\ invitation'[i].org = invitation[i].org
           /\ \A j \in Invitations \ {i} : invitation'[j] = invitation[j]
<1>1. invitation[i] \in InvitationRows /\ InvitationNamed(i)
  BY DEF InvitationsTyped
<1>2. invitation' = [invitation EXCEPT ![i] = [invitation[i] EXCEPT !.status = st]]
  OBVIOUS
<1>3. [invitation[i] EXCEPT !.status = st] \in InvitationRows
  BY <1>1, RowsMade
<1>4. /\ invitation' \in [Invitations -> InvitationRows]
      /\ invitation'[i] = [invitation[i] EXCEPT !.status = st]
      /\ \A j \in Invitations \ {i} : invitation'[j] = invitation[j]
  BY <1>2, <1>3 DEF InvitationsTyped
<1>5. /\ invitation'[i].status = st
      /\ invitation'[i].email = invitation[i].email /\ invitation'[i].org = invitation[i].org
  BY <1>1, <1>4 DEF InvitationRows
<1>6. ASSUME NEW j \in Invitations PROVE InvitationNamed(j)'
  <2>1. CASE j = i
    BY <1>1, <1>5, <2>1 DEF InvitationNamed, Open
  <2>2. CASE j # i
    BY <1>4, <2>2 DEF InvitationsTyped, InvitationNamed, Open
  <2> QED
    BY <2>1, <2>2
<1> QED
  BY <1>4, <1>5, <1>6 DEF InvitationsTyped

LEMMA LapseTyped ==
    ASSUME InvitationsTyped, InvitationLapses
    PROVE  /\ InvitationsTyped'
           /\ \A j \in Invitations : /\ invitation'[j].status = invitation[j].status
                                     /\ invitation'[j].email = invitation[j].email
                                     /\ invitation'[j].org = invitation[j].org
<1>1. PICK i \in Invitations : invitation' = [invitation EXCEPT ![i].overdue = TRUE]
  BY DEF InvitationLapses
<1>2. invitation[i] \in InvitationRows /\ UNCHANGED org
  BY DEF InvitationsTyped, InvitationLapses
<1>3. invitation' = [invitation EXCEPT ![i] = [invitation[i] EXCEPT !.overdue = TRUE]]
  BY <1>1
<1>4. [invitation[i] EXCEPT !.overdue = TRUE] \in InvitationRows
  BY <1>2, RowsMade
<1>5. /\ invitation' \in [Invitations -> InvitationRows]
      /\ invitation'[i] = [invitation[i] EXCEPT !.overdue = TRUE]
      /\ \A j \in Invitations \ {i} : invitation'[j] = invitation[j]
  BY <1>3, <1>4 DEF InvitationsTyped
<1>6. /\ invitation'[i].status = invitation[i].status
      /\ invitation'[i].email = invitation[i].email
      /\ invitation'[i].org = invitation[i].org
  BY <1>2, <1>5 DEF InvitationRows
<1>7. \A j \in Invitations : /\ invitation'[j].status = invitation[j].status
                             /\ invitation'[j].email = invitation[j].email
                             /\ invitation'[j].org = invitation[j].org
  BY <1>5, <1>6
<1> QED
  BY <1>2, <1>5, <1>7 DEF InvitationsTyped, InvitationNamed, Open

\* What invite(c) writes for the handler s.
InvitedRow(s) == [status |-> "PENDING", email |-> s.e, org |-> s.o, role |-> s.role,
                  overdue |-> FALSE]

LEMMA InviteTyped ==
    ASSUME InvitationsTyped, UNCHANGED org, NEW i \in Invitations,
           NEW s, s.e \in Emails, s.o \in Organisations, s.role \in Role, Open(s.o),
           invitation' = [invitation EXCEPT ![i] = InvitedRow(s)]
    PROVE  /\ InvitationsTyped' /\ invitation'[i] = InvitedRow(s)
           /\ \A j \in Invitations \ {i} : invitation'[j] = invitation[j]
<1>1. InvitedRow(s) \in InvitationRows
  BY DEF InvitationRows, InvitedRow, Anyone, Anywhere, InvitationStatus
<1>2. /\ invitation' \in [Invitations -> InvitationRows] /\ invitation'[i] = InvitedRow(s)
      /\ \A j \in Invitations \ {i} : invitation'[j] = invitation[j]
  BY <1>1 DEF InvitationsTyped
<1>3. InvitationNamed(i)'
  BY <1>2 DEF InvitedRow, InvitationNamed, Open
<1>4. ASSUME NEW j \in Invitations \ {i} PROVE InvitationNamed(j)'
  BY <1>2 DEF InvitationsTyped, InvitationNamed, Open
<1> QED
  BY <1>2, <1>3, <1>4 DEF InvitationsTyped

(***************************************************************************)
(* Organisations and accounts.                                             *)
(***************************************************************************)
\* A new account, in an organisation there is or is to be.
LEMMA AccountTyped ==
    ASSUME OrganisationsTyped, NEW e \in Emails, NEW o \in Organisations, NEW role \in Role,
           account' = [account EXCEPT ![e] = [org |-> o, role |-> role]],
           UNCHANGED demoted,
           \/ UNCHANGED org /\ Open(o)
           \/ org' = [org EXCEPT ![o] = NewOrganisation("open")]
    PROVE  /\ OrganisationsTyped'
           /\ account'[e] = [org |-> o, role |-> role]
           /\ \A f \in Emails \ {e} : account'[f] = account[f]
           /\ \A q \in Organisations : Open(q)' <=> Open(q) \/ q = o
<1>1. /\ account' \in [Emails -> Accounts] /\ account'[e] = [org |-> o, role |-> role]
      /\ \A f \in Emails \ {e} : account'[f] = account[f]
  BY AccountsMade DEF OrganisationsTyped
<1>2. org' \in [Organisations -> OrganisationRows]
  BY OrganisationsMade DEF OrganisationsTyped
<1>3. \A q \in Organisations : Open(q)' <=> Open(q) \/ q = o
  BY OrganisationsMade DEF OrganisationsTyped, Open
<1>4. ASSUME NEW f \in Emails, account'[f] # NoAccount PROVE org'[account'[f].org].state = "open"
  <2>1. CASE f = e
    BY <1>1, <1>3, <2>1 DEF Open
  <2>2. CASE f # e
    <3>1. account[f] # NoAccount /\ account[f] \in Accounts /\ account'[f] = account[f]
      BY <1>1, <1>4, <2>2 DEF OrganisationsTyped
    <3> QED
      BY <1>3, <3>1, AccountsMade DEF OrganisationsTyped, Open
  <2> QED
    BY <2>1, <2>2
<1>5. \A f \in Emails : account'[f] # NoAccount => org'[account'[f].org].state = "open"
  BY <1>4
<1> QED
  BY <1>1, <1>2, <1>3, <1>5 DEF OrganisationsTyped, Open

\* Invitations do not mind an organisation that is founded.
LEMMA InvitationsOpenStill ==
    ASSUME InvitationsTyped, UNCHANGED invitation,
           \A o \in Organisations : Open(o) => Open(o)'
    PROVE  InvitationsTyped'
BY DEF InvitationsTyped, InvitationNamed

LEMMA RoleTyped ==
    ASSUME OrganisationsTyped, UNCHANGED org, NEW m \in Emails, NEW role \in Role,
           account[m] # NoAccount, demoted' \subseteq demoted \cup {m},
           account' = [account EXCEPT ![m].role = role]
    PROVE  /\ OrganisationsTyped'
           /\ account'[m] = [org |-> account[m].org, role |-> role]
           /\ \A f \in Emails \ {m} : account'[f] = account[f]
<1>1. account[m] \in Accounts /\ account[m].org \in Organisations
  BY AccountsMade DEF OrganisationsTyped
<1>2. [account[m] EXCEPT !.role = role] = [org |-> account[m].org, role |-> role]
  BY <1>1, AccountsMade
<1>3. account' = [account EXCEPT ![m] = [org |-> account[m].org, role |-> role]]
  BY <1>2
<1>4. /\ account' \in [Emails -> Accounts]
      /\ account'[m] = [org |-> account[m].org, role |-> role]
      /\ \A f \in Emails \ {m} : account'[f] = account[f]
  BY <1>1, <1>3, AccountsMade DEF OrganisationsTyped
<1>5. ASSUME NEW f \in Emails, account'[f] # NoAccount PROVE org'[account'[f].org].state = "open"
  <2>1. account[f] # NoAccount /\ account'[f].org = account[f].org
    BY <1>4, <1>5
  <2> QED
    BY <2>1 DEF OrganisationsTyped, Open
<1> QED
  BY <1>4, <1>5 DEF OrganisationsTyped, Open

LEMMA DeleteTyped ==
    ASSUME MemberInv, NEW c \in Clients, deleteOrganisation(c)
    PROVE  /\ OrganisationsTyped' /\ InvitationsTyped'
           /\ op[c].o \in Organisations /\ Open(op[c].o)
           /\ \A q \in Organisations : Open(q)' <=> Open(q) /\ q # op[c].o
           /\ \A e \in Emails :
                 account'[e] = IF account[e].org = op[c].o THEN NoAccount ELSE account[e]
           /\ \A i \in Invitations :
                 invitation'[i] = IF invitation[i].org = op[c].o THEN NoInvitation("DELETED")
                                  ELSE invitation[i]
<1> DEFINE o == op[c].o
<1>1. /\ op[c].pc = "delete" /\ Open(o) /\ op[c] \in Ops
      /\ org' = [org EXCEPT ![o] = NewOrganisation("deleted")]
      /\ account' = [e \in Emails |-> IF e \in Members(o) THEN NoAccount ELSE account[e]]
      /\ invitation' = [i \in Invitations |->
                           IF i \in {j \in Invitations : invitation[j].org = o}
                           THEN NoInvitation("DELETED") ELSE invitation[i]]
      /\ demoted' = demoted \ Members(o)
  BY DEF MemberInv, HandlersTyped, deleteOrganisation
<1>2. o \in Organisations
  BY <1>1, OpFields, StepFields
<1> HIDE DEF o
<1>3. /\ org' \in [Organisations -> OrganisationRows]
      /\ \A q \in Organisations : Open(q)' <=> Open(q) /\ q # o
  BY <1>1, <1>2, OrganisationsMade DEF MemberInv, OrganisationsTyped, Open
<1>4. \A e \in Emails : account'[e] = IF account[e].org = o THEN NoAccount ELSE account[e]
  BY <1>1 DEF Members
<1>5. \A i \in Invitations :
         invitation'[i] = IF invitation[i].org = o THEN NoInvitation("DELETED") ELSE invitation[i]
  BY <1>1
<1>6. account' \in [Emails -> Accounts] /\ demoted' \subseteq Emails
  BY <1>1 DEF MemberInv, OrganisationsTyped, Accounts
<1>7. ASSUME NEW e \in Emails, account'[e] # NoAccount PROVE org'[account'[e].org].state = "open"
  <2>1. account'[e] = account[e] /\ account[e].org # o /\ account[e] # NoAccount
    BY <1>4, <1>7
  <2>2. account[e].org \in Organisations /\ Open(account[e].org)
    BY <2>1, AccountsMade DEF MemberInv, OrganisationsTyped
  <2> QED
    BY <1>3, <2>1, <2>2 DEF Open
<1>8. invitation' \in [Invitations -> InvitationRows]
  BY <1>1, RowsMade DEF MemberInv, InvitationsTyped, NoRow
<1>9. ASSUME NEW i \in Invitations PROVE InvitationNamed(i)'
  <2> SUFFICES ASSUME invitation'[i].status \notin NoRow
               PROVE  /\ invitation'[i].email \in Emails /\ invitation'[i].org \in Organisations
                      /\ org'[invitation'[i].org].state = "open"
    BY DEF InvitationNamed, Open
  <2>1. invitation'[i] = invitation[i] /\ invitation[i].org # o
    <3>1. NoInvitation("DELETED").status \in NoRow
      BY RowsMade DEF NoRow
    <3> QED
      BY <1>5, <3>1
  <2>2. InvitationNamed(i)
    BY DEF MemberInv, InvitationsTyped
  <2> QED
    BY <1>3, <2>1, <2>2 DEF InvitationNamed, Open
<1>10. OrganisationsTyped'
  BY <1>3, <1>6, <1>7 DEF OrganisationsTyped, Open
<1>11. InvitationsTyped'
  BY <1>8, <1>9 DEF InvitationsTyped
<1> QED
  BY <1>1, <1>2, <1>3, <1>4, <1>5, <1>10, <1>11 DEF o

(***************************************************************************)
(* What a handler goes by.  MemberTruth(s): what s read of administrators  *)
(* and of pending invitations is so.                                       *)
(***************************************************************************)
OnePending == \A i, j \in Invitations :
    (/\ invitation[i].status = "PENDING" /\ invitation[j].status = "PENDING"
     /\ invitation[i].email = invitation[j].email /\ invitation[i].org = invitation[j].org)
    => i = j

OtherAdmin(m, o) == \E e \in Admins(o) : e # m

MemberTruth(s) ==
    /\ s.pc = "role" => /\ account[s.m].org = s.o
                        /\ (account[s.m].role = "ADMIN" /\ s.role # "ADMIN") => OtherAdmin(s.m, s.o)
    /\ s.pc = "invite" => Pending(s.e, s.o) = {}
    /\ (s.pc = "lapse" /\ s.then.pc = "invite") => Pending(s.then.e, s.then.o) \subseteq s.rest

\* Only join goes on to mark, after it has created the account.
MarksMember(s) ==
    /\ (s.pc = "mark" /\ invitation[s.i].status # "DELETED") =>
          /\ invitation[s.i].status # "NEW"
          /\ account[invitation[s.i].email].org = invitation[s.i].org
    /\ s.pc = "lapse" => s.then.pc \notin {"mark", "role"}

\* s is to invite somebody to o; who asks for it is a member.
Inviting(s, o) == \/ s.pc = "invite" /\ s.o = o
                  \/ s.pc = "lapse" /\ s.then.pc = "invite" /\ s.then.o = o
ByMember(s) == \A o : Inviting(s, o) => \E a \in Emails : account[a].org = o

\* c begins as s, which goes by the truth, and changes no more than registrations.
BeginsWell(c, s) ==
    /\ Begin(c, s) /\ s \in Ops /\ s.pc # "mark" /\ MarksMember(s) /\ ByMember(s)
    /\ OnePending => MemberTruth(s)
    /\ UNCHANGED <<org, account, invitation, demoted>>
    /\ registration' \in {registration, Purged}

LEMMA MoreAdmins ==
    ASSUME NEW o \in Organisations, OrganisationsTyped, Cardinality(Admins(o)) > 1
    PROVE  \A m : OtherAdmin(m, o)
<1> SUFFICES ASSUME NEW m, ~OtherAdmin(m, o) PROVE FALSE
  OBVIOUS
<1>1. Admins(o) = {} \/ Admins(o) = {m}
  BY DEF OtherAdmin
<1>2. Cardinality(Admins(o)) \in {0, 1}
  BY <1>1, FS_EmptySet, FS_Singleton
<1> QED
  BY <1>2

LEMMA RegistersWell ==
    ASSUME MemberInv, NEW c \in Clients,
           registerRead(c) \/ resendRead(c) \/ verifyRead(c)
    PROVE  \E s \in Ops : BeginsWell(c, s)
<1>1. CASE registerRead(c)
  <2>1. PICK e \in Emails, o \in Organisations :
           /\ registration' = Purged /\ UNCHANGED <<org, account, invitation, demoted>>
           /\ \/ \E r \in Registrations : Begin(c, [pc |-> "update", r |-> r, e |-> e, o |-> o])
              \/ \E r \in Registrations : Begin(c, [pc |-> "create", r |-> r, e |-> e, o |-> o])
    BY <1>1 DEF registerRead, InTime, Waiting
  <2>2. PICK r \in Registrations, pc \in {"create", "update"} :
           Begin(c, [pc |-> pc, r |-> r, e |-> e, o |-> o])
    BY <2>1
  <2>3. [pc |-> pc, r |-> r, e |-> e, o |-> o] \in Ops
    BY OpsMade
  <2> QED
    BY <2>1, <2>2, <2>3 DEF BeginsWell, ByMember, Inviting, MarksMember, MemberTruth
<1>2. CASE resendRead(c)
  <2>1. PICK r \in Registrations :
           /\ Begin(c, [pc |-> "resend", r |-> r])
           /\ registration' = Purged /\ UNCHANGED <<org, account, invitation, demoted>>
    BY <1>2 DEF resendRead, InTime, Waiting
  <2>2. [pc |-> "resend", r |-> r] \in Ops
    BY OpsMade
  <2> QED
    BY <2>1, <2>2 DEF BeginsWell, ByMember, Inviting, MarksMember, MemberTruth
<1>3. CASE verifyRead(c)
  <2>1. PICK r \in Waiting, pc \in {"drop", "found"} :
           /\ Begin(c, [pc |-> pc, r |-> r, e |-> registration[r].email, o |-> registration[r].org])
           /\ UNCHANGED memberTables
    BY <1>3 DEF verifyRead
  <2>2. r \in Registrations /\ registration[r].email \in Emails
        /\ registration[r].org \in Organisations
    BY DEF MemberInv, RegistrationsTyped, RegistrationNamed, Waiting
  <2>3. [pc |-> pc, r |-> r, e |-> registration[r].email, o |-> registration[r].org] \in Ops
    BY <2>2, OpsMade
  <2> QED
    BY <2>1, <2>3 DEF BeginsWell, ByMember, Inviting, MarksMember, MemberTruth, memberTables
<1> QED
  BY <1>1, <1>2, <1>3

LEMMA InvitesWell ==
    ASSUME MemberInv, NEW c \in Clients, inviteRead(c)
    PROVE  \E s \in Ops : BeginsWell(c, s)
<1>1. PICK e \in Emails, o \in Organisations, role \in Role :
         /\ \/ /\ Pending(e, o) = {}
               /\ Begin(c, [pc |-> "invite", e |-> e, o |-> o, role |-> role])
            \/ \E i \in Pending(e, o) :
                  Begin(c, Lapsing(i, [pc |-> "invite", e |-> e, o |-> o, role |-> role]))
         /\ UNCHANGED memberTables
         /\ \E a \in Emails : account[a].org = o
  BY DEF inviteRead, ActsAsAdmin
<1> DEFINE s == [pc |-> "invite", e |-> e, o |-> o, role |-> role]
<1>2. s \in Steps /\ s \in Ops
  BY OpsMade
<1>3. CASE Pending(e, o) = {} /\ Begin(c, s)
  <2>1. MemberTruth(s) /\ ByMember(s)
    BY <1>1, <1>3 DEF MemberTruth, ByMember, Inviting
  <2> QED
    BY <1>1, <1>2, <1>3, <2>1 DEF BeginsWell, MarksMember, memberTables
<1>4. CASE \E i \in Pending(e, o) : Begin(c, Lapsing(i, s))
  <2>1. PICK i \in Pending(e, o) : Begin(c, Lapsing(i, s))
    BY <1>4
  <2>2. i \in Invitations /\ invitation[i].status = "PENDING" /\ invitation[i].email = e
        /\ invitation[i].org = o
    BY <2>1 DEF Pending
  <2>3. ASSUME OnePending PROVE Pending(e, o) \subseteq {i}
    BY <2>2, <2>3 DEF OnePending, Pending
  <2> DEFINE l == [pc |-> "lapse", rest |-> {i}, then |-> s]
  <2>4. l \in Ops /\ Lapsing(i, s) = l
    BY <1>2, <2>2, OpsMade DEF Lapsing
  <2>5. /\ l.pc = "lapse" /\ l.rest = {i} /\ l.then = s
        /\ s.pc = "invite" /\ s.e = e /\ s.o = o
    OBVIOUS
  <2> HIDE DEF l, s
  <2>7. ByMember(l)
    BY <1>1, <2>5 DEF ByMember, Inviting
  <2>6. OnePending => MemberTruth(l)
    BY <2>3, <2>5 DEF MemberTruth
  <2> QED
    BY <1>1, <2>1, <2>4, <2>5, <2>6, <2>7 DEF BeginsWell, MarksMember, memberTables
<1> QED
  BY <1>1, <1>3, <1>4

LEMMA LapsesWell ==
    ASSUME MemberInv, NEW c \in Clients, NEW rest \in SUBSET Invitations, NEW s \in Steps,
           s.pc \notin {"invite", "mark", "role"}, Begin(c, [pc |-> "lapse", rest |-> rest, then |-> s]),
           UNCHANGED memberTables
    PROVE  \E l \in Ops : BeginsWell(c, l)
<1> DEFINE l == [pc |-> "lapse", rest |-> rest, then |-> s]
<1>1. l \in Ops /\ l.pc = "lapse" /\ l.then = s
  BY OpsMade
<1> HIDE DEF l
<1>2. MemberTruth(l)
  BY <1>1 DEF MemberTruth
<1> QED
  BY <1>1, <1>2 DEF BeginsWell, ByMember, Inviting, MarksMember, memberTables, l

LEMMA AcceptsWell ==
    ASSUME MemberInv, NEW c \in Clients,
           listRead(c) \/ acceptRead(c) \/ cancelRead(c)
    PROVE  \E s \in Ops : BeginsWell(c, s)
<1>1. CASE listRead(c)
  <2>1. PICK o \in Organisations :
           /\ UNCHANGED memberTables
           /\ Begin(c, [pc |-> "lapse",
                        rest |-> {i \in Invitations : Lapsed(i) /\ invitation[i].org = o},
                        then |-> Idle])
    BY <1>1 DEF listRead
  <2>2. Idle \in Steps /\ Idle.pc = "idle"
    BY OpsMade DEF Idle
  <2> QED
    BY <2>1, <2>2, LapsesWell
<1>2. CASE acceptRead(c)
  <2>1. PICK i \in Invitations :
           /\ UNCHANGED memberTables
           /\ \/ Begin(c, Lapsing(i, Idle))
              \/ Begin(c, [pc |-> "join", i |-> i])
    BY <1>2 DEF acceptRead
  <2>2. CASE Begin(c, Lapsing(i, Idle))
    <3>1. Idle \in Steps /\ Idle.pc = "idle"
      BY OpsMade DEF Idle
    <3> QED
      BY <2>1, <2>2, <3>1, LapsesWell DEF Lapsing
  <2>3. CASE Begin(c, [pc |-> "join", i |-> i])
    <3>1. [pc |-> "join", i |-> i] \in Ops
      BY OpsMade
    <3> QED
      BY <2>1, <2>3, <3>1 DEF BeginsWell, ByMember, Inviting, MarksMember, MemberTruth, memberTables
  <2> QED
    BY <2>1, <2>2, <2>3
<1>3. CASE cancelRead(c)
  <2>1. PICK i \in Invitations :
           /\ UNCHANGED memberTables
           /\ \/ Begin(c, Lapsing(i, [pc |-> "cancel", i |-> i]))
              \/ Begin(c, [pc |-> "cancel", i |-> i])
    BY <1>3 DEF cancelRead
  <2>2. [pc |-> "cancel", i |-> i] \in Steps /\ [pc |-> "cancel", i |-> i] \in Ops
    BY OpsMade
  <2>3. CASE Begin(c, Lapsing(i, [pc |-> "cancel", i |-> i]))
    BY <2>1, <2>2, <2>3, LapsesWell DEF Lapsing
  <2>4. CASE Begin(c, [pc |-> "cancel", i |-> i])
    BY <2>1, <2>2, <2>4 DEF BeginsWell, ByMember, Inviting, MarksMember, MemberTruth, memberTables
  <2> QED
    BY <2>1, <2>3, <2>4
<1> QED
  BY <1>1, <1>2, <1>3

LEMMA ChangesWell ==
    ASSUME MemberInv, NEW c \in Clients, updateMemberRoleRead(c) \/ deleteRead(c)
    PROVE  \E s \in Ops : BeginsWell(c, s)
<1>1. CASE updateMemberRoleRead(c)
  <2>1. PICK m \in Emails, o \in Organisations, role \in Role :
           /\ account[m].org = o /\ UNCHANGED memberTables
           /\ (account[m].role = "ADMIN" /\ role # "ADMIN") => Cardinality(Admins(o)) > 1
           /\ Begin(c, [pc |-> "role", m |-> m, o |-> o, role |-> role])
    BY <1>1 DEF updateMemberRoleRead
  <2>2. (account[m].role = "ADMIN" /\ role # "ADMIN") => OtherAdmin(m, o)
    BY <2>1, MoreAdmins DEF MemberInv
  <2> DEFINE s == [pc |-> "role", m |-> m, o |-> o, role |-> role]
  <2>3. s \in Ops /\ s.pc = "role" /\ s.m = m /\ s.o = o /\ s.role = role
    BY OpsMade
  <2>4. Begin(c, s)
    BY <2>1
  <2> HIDE DEF s
  <2>5. MemberTruth(s)
    BY <2>1, <2>2, <2>3 DEF MemberTruth
  <2> QED
    BY <2>1, <2>3, <2>4, <2>5 DEF BeginsWell, ByMember, Inviting, MarksMember, memberTables
<1>2. CASE deleteRead(c)
  <2>1. PICK o \in Organisations : Begin(c, [pc |-> "delete", o |-> o]) /\ UNCHANGED memberTables
    BY <1>2 DEF deleteRead
  <2>2. [pc |-> "delete", o |-> o] \in Ops
    BY OpsMade
  <2> QED
    BY <2>1, <2>2 DEF BeginsWell, ByMember, Inviting, MarksMember, MemberTruth, memberTables
<1> QED
  BY <1>1, <1>2

LEMMA ReadsTheTruth ==
    ASSUME MemberInv, NEW c \in Clients, MembershipRequest(c)
    PROVE  \E s \in Ops : BeginsWell(c, s)
BY RegistersWell, InvitesWell, AcceptsWell, ChangesWell DEF MembershipRequest

(***************************************************************************)
(* What every step of a handler that is under way writes.                  *)
(***************************************************************************)
\* Of a registration.
RegistrationStep(c) == \/ createRegistration(c) \/ updateRegistration(c)
                       \/ resend(c) \/ dropRegistration(c)

LEMMA WritesRegistration ==
    ASSUME MemberInv, NEW c \in Clients, RegistrationStep(c)
    PROVE  /\ MemberInv'
           /\ \E rows : Commit(c, Idle, rows)
           /\ UNCHANGED <<org, account, invitation, demoted>>
<1>1. op[c] \in Ops /\ Idle \in Ops
  BY OpsMade DEF MemberInv, HandlersTyped
<1>2. UNCHANGED <<org, account, invitation, demoted>> /\ \E rows : Commit(c, Idle, rows)
  BY DEF RegistrationStep, createRegistration, updateRegistration, resend, dropRegistration
<1>3. RegistrationsTyped'
  <2>1. CASE createRegistration(c) \/ updateRegistration(c)
    <3>1. Reserve(op[c].r, op[c].e, op[c].o) /\ op[c].pc \in {"create", "update"}
      BY <2>1 DEF createRegistration, updateRegistration
    <3>2. op[c].r \in Registrations /\ op[c].e \in Emails /\ op[c].o \in Organisations
      BY <1>1, <3>1, OpFields, StepFields
    <3> QED
      BY <3>1, <3>2, ReserveTyped DEF MemberInv
  <2>2. CASE resend(c)
    <3>1. op[c].r \in Registrations /\ registration' = [registration EXCEPT ![op[c].r].overdue = FALSE]
      BY <2>2 DEF resend, Waiting
    <3> QED
      BY <3>1, OverdueTyped DEF MemberInv
  <2>3. CASE dropRegistration(c)
    <3>1. op[c].r \in Registrations /\ DropRegistration(op[c].r)
      BY <2>3 DEF dropRegistration, Waiting
    <3> QED
      BY <3>1, DropTyped DEF MemberInv
  <2> QED
    BY <2>1, <2>2, <2>3 DEF RegistrationStep
<1>4. HandlersTyped'
  BY <1>1, <1>2, HandlersCommit DEF MemberInv
<1>5. OrganisationsTyped' /\ InvitationsTyped'
  BY <1>2, OrganisationsStay, InvitationsStay DEF MemberInv
<1> QED
  BY <1>2, <1>3, <1>4, <1>5 DEF MemberInv

LEMMA WritesOrganisation ==
    ASSUME MemberInv, NEW c \in Clients, foundOrganisation(c)
    PROVE  /\ MemberInv'
           /\ op[c].e \in Emails /\ op[c].o \in Organisations
           /\ org[op[c].o].state = "none" /\ account[op[c].e] = NoAccount
           /\ account'[op[c].e] = [org |-> op[c].o, role |-> "ADMIN"]
           /\ \A f \in Emails \ {op[c].e} : account'[f] = account[f]
           /\ \A q \in Organisations : Open(q)' <=> Open(q) \/ q = op[c].o
           /\ UNCHANGED <<invitation, demoted>>
           /\ org' = [org EXCEPT ![op[c].o] = NewOrganisation("open")]
           /\ \E rows : <<"account", op[c].e>> \in rows /\ Commit(c, Idle, rows)
<1> DEFINE s == op[c]
<1>1. /\ s.pc = "found" /\ s.r \in Waiting /\ org[s.o].state = "none" /\ account[s.e] = NoAccount
      /\ org' = [org EXCEPT ![s.o] = NewOrganisation("open")]
      /\ account' = [account EXCEPT ![s.e] = [org |-> s.o, role |-> "ADMIN"]]
      /\ DropRegistration(s.r) /\ UNCHANGED <<invitation, demoted>>
  BY DEF foundOrganisation
<1>2. s \in Ops /\ s.r \in Registrations /\ s.e \in Emails /\ s.o \in Organisations
  BY <1>1, OpFields, StepFields DEF MemberInv, HandlersTyped
<1>3. \E rows : <<"account", s.e>> \in rows /\ Commit(c, Idle, rows)
  <2>1. Commit(c, Idle, {<<"account", s.e>>, <<"registration", s.r>>, <<"registering", s.e>>,
                         <<"name", s.o>>, <<"name", registration[s.r].org>>})
    BY DEF foundOrganisation
  <2> QED
    BY <2>1
<1> HIDE DEF s
<1>4. /\ OrganisationsTyped'
      /\ account'[s.e] = [org |-> s.o, role |-> "ADMIN"]
      /\ \A f \in Emails \ {s.e} : account'[f] = account[f]
      /\ \A q \in Organisations : Open(q)' <=> Open(q) \/ q = s.o
  <2>1. "ADMIN" \in Role
    BY DEF Role
  <2> QED
    BY <1>1, <1>2, <2>1, AccountTyped DEF MemberInv
<1>5. InvitationsTyped'
  BY <1>1, <1>4, InvitationsOpenStill DEF MemberInv
<1>6. RegistrationsTyped'
  BY <1>1, <1>2, DropTyped DEF MemberInv
<1>7. HandlersTyped'
  BY <1>3, OpsMade, HandlersCommit DEF MemberInv
<1>8. MemberInv'
  BY <1>4, <1>5, <1>6, <1>7 DEF MemberInv
<1> QED
  BY <1>1, <1>2, <1>3, <1>4, <1>8 DEF s

LEMMA WritesExpired ==
    ASSUME MemberInv, NEW c \in Clients, lapse(c)
    PROVE  /\ MemberInv'
           /\ op[c].pc = "lapse"
           /\ UNCHANGED <<org, account, registration, demoted>>
           /\ \E rows : \E i \in op[c].rest, s \in Ops :
                 /\ i \in Invitations /\ Commit(c, s, rows)
                 /\ s.pc \notin {"mark", "role"} \/ s = op[c].then
                 /\ s.pc = "invite" => s = op[c].then /\ op[c].rest = {i}
                 /\ s.pc = "lapse" => s.then = op[c].then /\ s.rest = op[c].rest \ {i}
                 /\ <<"invited", invitation[i].email>> \in rows
                 /\ invitation[i].status \notin NoRow
                 /\ invitation'[i].status = "EXPIRED"
                 /\ \A j \in Invitations \ {i} : invitation'[j] = invitation[j]
<1> DEFINE l == op[c]
<1>1. /\ l \in Ops /\ l.pc = "lapse" /\ UNCHANGED <<org, account, registration, demoted>>
      /\ l = [pc |-> "lapse", rest |-> l.rest, then |-> l.then]
      /\ l.rest \subseteq Invitations /\ l.then \in Steps
  BY OpFields DEF lapse, MemberInv, HandlersTyped
<1>2. PICK i \in l.rest :
         LET rest == l.rest \ {i}
             next == IF rest # {} THEN [l EXCEPT !.rest = rest]
                     ELSE IF l.then.pc = "invite" /\ ~WithinLimit(l.then.o) THEN Idle
                     ELSE l.then
         IN  /\ invitation[i].status \notin NoRow
             /\ invitation' = [invitation EXCEPT ![i].status = "EXPIRED"]
             /\ Commit(c, next, {<<"invitation", i>>, <<"invited", invitation[i].email>>})
  BY DEF lapse
<1> HIDE DEF l
<1>3. PICK s : /\ s \in {[l EXCEPT !.rest = l.rest \ {i}], Idle, l.then}
               /\ s = [l EXCEPT !.rest = l.rest \ {i}] <=> l.rest \ {i} # {}
               /\ Commit(c, s, {<<"invitation", i>>, <<"invited", invitation[i].email>>})
  <2>1. CASE l.rest \ {i} # {}
    BY <1>2, <2>1
  <2>2. CASE l.rest \ {i} = {}
    <3>1. [l EXCEPT !.rest = l.rest \ {i}].pc = "lapse"
      BY <1>1
    <3>2. Idle.pc # "lapse" /\ l.then.pc # "lapse"
      BY <1>1, OpsMade, StepFields
    <3>3. PICK t \in {Idle, l.then} :
             Commit(c, t, {<<"invitation", i>>, <<"invited", invitation[i].email>>})
      BY <1>2, <2>2
    <3>4. t # [l EXCEPT !.rest = l.rest \ {i}]
      BY <3>1, <3>2, <3>3
    <3> QED
      BY <2>2, <3>3, <3>4
  <2> QED
    BY <2>1, <2>2
<1>4. [l EXCEPT !.rest = l.rest \ {i}] = [pc |-> "lapse", rest |-> l.rest \ {i}, then |-> l.then]
  BY <1>1
<1>5. [pc |-> "lapse", rest |-> l.rest \ {i}, then |-> l.then] \in Ops
  BY <1>1, OpsMade
<1>6. s \in Ops
  BY <1>1, <1>3, <1>4, <1>5, OpsMade
<1>7. /\ s.pc \notin {"mark", "role"} \/ s = l.then
      /\ s.pc = "invite" => s = l.then /\ l.rest = {i}
      /\ s.pc = "lapse" => s.then = l.then /\ s.rest = l.rest \ {i}
  <2>1. CASE l.rest \ {i} # {}
    <3>1. s = [pc |-> "lapse", rest |-> l.rest \ {i}, then |-> l.then]
      BY <1>3, <1>4, <2>1
    <3> QED
      BY <3>1
  <2>2. CASE l.rest \ {i} = {}
    <3>1. s \in {Idle, l.then} /\ s \in Steps
      BY <1>1, <1>3, <2>2, OpsMade
    <3>2. s.pc # "lapse" /\ Idle.pc = "idle"
      BY <3>1, StepFields DEF Idle
    <3>3. l.rest = {i}
      BY <1>2, <2>2
    <3> QED
      BY <3>1, <3>2, <3>3
  <2> QED
    BY <2>1, <2>2
<1>8. /\ InvitationsTyped' /\ invitation'[i].status = "EXPIRED"
      /\ \A j \in Invitations \ {i} : invitation'[j] = invitation[j]
  <2>1. "EXPIRED" \in InvitationStatus
    BY DEF InvitationStatus
  <2> QED
    BY <1>1, <1>2, <2>1, StatusTyped DEF MemberInv
<1>9. MemberInv'
  BY <1>1, <1>3, <1>6, <1>8, OrganisationsStay, RegistrationsStay, HandlersCommit DEF MemberInv
<1>10. i \in Invitations /\ invitation[i].status \notin NoRow
  BY <1>1, <1>2
<1>11. <<"invited", invitation[i].email>> \in {<<"invitation", i>>, <<"invited", invitation[i].email>>}
  OBVIOUS
<1>12. /\ i \in l.rest /\ i \in Invitations
       /\ Commit(c, s, {<<"invitation", i>>, <<"invited", invitation[i].email>>})
       /\ invitation[i].status \notin NoRow /\ invitation'[i].status = "EXPIRED"
       /\ \A j \in Invitations \ {i} : invitation'[j] = invitation[j]
  BY <1>2, <1>3, <1>8, <1>10
<1> QED
  BY <1>1, <1>6, <1>7, <1>9, <1>11, <1>12 DEF l

LEMMA WritesInvitation ==
    ASSUME MemberInv, NEW c \in Clients, invite(c)
    PROVE  /\ MemberInv'
           /\ op[c].pc = "invite"
           /\ UNCHANGED <<org, account, registration, demoted>>
           /\ \E i \in Invitations :
                 /\ invitation[i].status = "NEW" /\ invitation'[i] = InvitedRow(op[c])
                 /\ \A j \in Invitations \ {i} : invitation'[j] = invitation[j]
           /\ \E rows : <<"invited", op[c].e>> \in rows /\ Commit(c, Idle, rows)
<1> DEFINE s == op[c]
<1>1. /\ s.pc = "invite" /\ Open(s.o) /\ UNCHANGED <<org, account, registration, demoted>>
      /\ Commit(c, Idle, {<<"invited", s.e>>})
  BY DEF invite
<1>2. PICK i \in Invitations : /\ invitation[i].status = "NEW"
                               /\ invitation' = [invitation EXCEPT ![i] = InvitedRow(s)]
  BY DEF invite, InvitedRow
<1>3. s.e \in Emails /\ s.o \in Organisations /\ s.role \in Role
  BY <1>1, OpFields, StepFields DEF MemberInv, HandlersTyped
<1> HIDE DEF s
<1>4. /\ InvitationsTyped' /\ invitation'[i] = InvitedRow(s)
      /\ \A j \in Invitations \ {i} : invitation'[j] = invitation[j]
  BY <1>1, <1>2, <1>3, InviteTyped DEF MemberInv
<1>5. MemberInv'
  BY <1>1, <1>4, OpsMade, OrganisationsStay, RegistrationsStay, HandlersCommit DEF MemberInv
<1> QED
  BY <1>1, <1>2, <1>4, <1>5 DEF s

LEMMA WritesAccount ==
    ASSUME MemberInv, NEW c \in Clients, join(c)
    PROVE  /\ MemberInv'
           /\ op[c].pc = "join"
           /\ op[c].i \in Invitations /\ invitation[op[c].i].status \notin NoRow
           /\ invitation[op[c].i].email \in Emails
           /\ Open(invitation[op[c].i].org)
           /\ UNCHANGED <<org, invitation, registration, demoted>>
           /\ account[invitation[op[c].i].email] = NoAccount
           /\ account'[invitation[op[c].i].email].org = invitation[op[c].i].org
           /\ invitation[op[c].i].org \in Organisations
           /\ account'[invitation[op[c].i].email] # NoAccount
           /\ \A f \in Emails \ {invitation[op[c].i].email} : account'[f] = account[f]
           /\ \E rows : /\ <<"account", invitation[op[c].i].email>> \in rows
                        /\ Commit(c, [pc |-> "mark", i |-> op[c].i], rows)
<1> DEFINE i == op[c].i
           p == invitation[i]
<1>1. /\ op[c].pc = "join" /\ p.status \notin NoRow /\ Open(p.org) /\ account[p.email] = NoAccount
      /\ account' = [account EXCEPT ![p.email] = [org |-> p.org, role |-> p.role]]
      /\ Commit(c, [pc |-> "mark", i |-> i], {<<"account", p.email>>, <<"admins", p.org>>})
      /\ UNCHANGED <<org, invitation, registration, demoted>>
  BY DEF join
<1>2. i \in Invitations
  BY <1>1, OpFields, StepFields DEF MemberInv, HandlersTyped
<1>3. p.email \in Emails /\ p.org \in Organisations /\ p.role \in Role
  BY <1>1, <1>2 DEF MemberInv, InvitationsTyped, InvitationNamed, InvitationRows
<1>4. [pc |-> "mark", i |-> i] \in Ops
  BY <1>2, OpsMade
<1> HIDE DEF i, p
<1>5. /\ OrganisationsTyped' /\ account'[p.email] = [org |-> p.org, role |-> p.role]
      /\ \A f \in Emails \ {p.email} : account'[f] = account[f]
  BY <1>1, <1>3, AccountTyped DEF MemberInv
<1>6. account'[p.email].org = p.org /\ account'[p.email] # NoAccount
  BY <1>3, <1>5, AccountsMade
<1>7. MemberInv'
  BY <1>1, <1>4, <1>5, InvitationsStay, RegistrationsStay, HandlersCommit DEF MemberInv
<1>8. \E rows : <<"account", p.email>> \in rows /\ Commit(c, [pc |-> "mark", i |-> i], rows)
  BY <1>1
<1> QED
  BY <1>1, <1>2, <1>3, <1>5, <1>6, <1>7, <1>8 DEF i, p

LEMMA WritesStatus ==
    ASSUME MemberInv, NEW c \in Clients, mark(c) \/ cancel(c)
    PROVE  /\ MemberInv'
           /\ UNCHANGED <<org, account, registration, demoted>>
           /\ op[c].i \in Invitations /\ invitation[op[c].i].status \notin NoRow
           /\ \/ op[c].pc = "mark" /\ invitation'[op[c].i].status = "ACCEPTED"
              \/ op[c].pc = "cancel" /\ invitation'[op[c].i].status = "CANCELLED"
           /\ invitation'[op[c].i].email = invitation[op[c].i].email
           /\ invitation'[op[c].i].org = invitation[op[c].i].org
           /\ \A j \in Invitations \ {op[c].i} : invitation'[j] = invitation[j]
           /\ \E rows : Commit(c, Idle, rows)
<1> DEFINE i == op[c].i
<1>1. PICK st \in InvitationStatus :
         /\ \/ op[c].pc = "mark" /\ st = "ACCEPTED"
            \/ op[c].pc = "cancel" /\ st = "CANCELLED"
         /\ invitation[i].status \notin NoRow
         /\ invitation' = [invitation EXCEPT ![i].status = st]
         /\ UNCHANGED <<org, account, registration, demoted>>
         /\ \E rows : Commit(c, Idle, rows)
  <2>1. "ACCEPTED" \in InvitationStatus /\ "CANCELLED" \in InvitationStatus
    BY DEF InvitationStatus
  <2>2. CASE mark(c)
    BY <2>1, <2>2 DEF mark
  <2>3. CASE cancel(c)
    BY <2>1, <2>3 DEF cancel
  <2> QED
    BY <2>2, <2>3
<1>2. i \in Invitations
  BY <1>1, OpFields, StepFields DEF MemberInv, HandlersTyped
<1> HIDE DEF i
<1>3. /\ InvitationsTyped' /\ invitation'[i].status = st
      /\ invitation'[i].email = invitation[i].email /\ invitation'[i].org = invitation[i].org
      /\ \A j \in Invitations \ {i} : invitation'[j] = invitation[j]
  BY <1>1, <1>2, StatusTyped DEF MemberInv
<1>4. MemberInv'
  BY <1>1, <1>3, OpsMade, OrganisationsStay, RegistrationsStay, HandlersCommit DEF MemberInv
<1> QED
  BY <1>1, <1>2, <1>3, <1>4 DEF i

LEMMA WritesRole ==
    ASSUME MemberInv, NEW c \in Clients, updateMemberRole(c)
    PROVE  /\ MemberInv'
           /\ op[c].pc = "role"
           /\ op[c].m \in Emails /\ account[op[c].m] # NoAccount
           /\ account'[op[c].m] = [org |-> account[op[c].m].org, role |-> op[c].role]
           /\ \A f \in Emails \ {op[c].m} : account'[f] = account[f]
           /\ UNCHANGED <<org, invitation, registration>>
           /\ \E rows : /\ <<"account", op[c].m>> \in rows /\ <<"admins", op[c].o>> \in rows
                        /\ Commit(c, Idle, rows)
<1> DEFINE s == op[c]
<1>1. /\ s.pc = "role" /\ account[s.m] # NoAccount
      /\ account' = [account EXCEPT ![s.m].role = s.role]
      /\ demoted' \in {demoted, demoted \cup {s.m}}
      /\ Commit(c, Idle, {<<"account", s.m>>, <<"admins", s.o>>})
      /\ UNCHANGED <<org, invitation, registration>>
  BY DEF updateMemberRole
<1>2. s.m \in Emails /\ s.role \in Role
  BY <1>1, OpFields, StepFields DEF MemberInv, HandlersTyped
<1> HIDE DEF s
<1>3. demoted' \subseteq demoted \cup {s.m}
  BY <1>1
<1>4. /\ OrganisationsTyped'
      /\ account'[s.m] = [org |-> account[s.m].org, role |-> s.role]
      /\ \A f \in Emails \ {s.m} : account'[f] = account[f]
  BY <1>1, <1>2, <1>3, RoleTyped DEF MemberInv
<1>5. MemberInv'
  BY <1>1, <1>4, OpsMade, InvitationsStay, RegistrationsStay, HandlersCommit DEF MemberInv
<1>6. \E rows : /\ <<"account", s.m>> \in rows /\ <<"admins", s.o>> \in rows
                /\ Commit(c, Idle, rows)
  BY <1>1
<1> QED
  BY <1>1, <1>2, <1>4, <1>5, <1>6 DEF s

LEMMA WritesDeletion ==
    ASSUME MemberInv, NEW c \in Clients, deleteOrganisation(c)
    PROVE  /\ MemberInv'
           /\ UNCHANGED registration
           /\ org' = [org EXCEPT ![op[c].o] = NewOrganisation("deleted")]
           /\ \E rows : /\ \A e \in Members(op[c].o) : <<"account", e>> \in rows
                        /\ Commit(c, Idle, rows)
<1> DEFINE o == op[c].o
           rows == {<<"name", o>>, <<"admins", o>>}
                   \cup {<<"account", e>> : e \in Members(o)}
                   \cup {<<"invitation", i>> : i \in {j \in Invitations : invitation[j].org = o}}
<1>1. /\ UNCHANGED registration /\ org' = [org EXCEPT ![o] = NewOrganisation("deleted")]
      /\ Commit(c, Idle, rows)
  BY DEF deleteOrganisation
<1>2. \A e \in Members(o) : <<"account", e>> \in rows
  OBVIOUS
<1> HIDE DEF rows, o
<1>3. MemberInv'
  BY <1>1, OpsMade, DeleteTyped, RegistrationsStay, HandlersCommit DEF MemberInv
<1> QED
  BY <1>1, <1>2, <1>3 DEF o

LEMMA Abandons ==
    ASSUME MemberInv, NEW c \in Clients, Abandon(c)
    PROVE  MemberInv' /\ UNCHANGED memberTables /\ op' = [op EXCEPT ![c] = Idle]
<1>1. UNCHANGED memberTables
  BY DEF Abandon
<1> QED
  BY <1>1, HandlersAbandon, TablesStay DEF MemberInv

\* A step of no handler: no more than registrations, overdue marks and demotions.
Unattended == cleanup \/ RegistrationLapses \/ InvitationLapses \/ TokenExpires

LEMMA WritesUnattended ==
    ASSUME MemberInv, Unattended
    PROVE  /\ MemberInv' /\ UNCHANGED <<org, account, op, memberHistory>>
           /\ \A j \in Invitations : /\ invitation'[j].status = invitation[j].status
                                     /\ invitation'[j].email = invitation[j].email
                                     /\ invitation'[j].org = invitation[j].org
<1>1. UNCHANGED <<org, account, op, memberHistory>>
  BY DEF Unattended, cleanup, RegistrationLapses, InvitationLapses, TokenExpires
<1>2. HandlersTyped'
  BY <1>1 DEF MemberInv, HandlersTyped, memberHistory
<1>3. OrganisationsTyped'
  <2>1. demoted' \subseteq demoted
    BY DEF Unattended, cleanup, RegistrationLapses, InvitationLapses, TokenExpires
  <2> QED
    BY <1>1, <2>1 DEF MemberInv, OrganisationsTyped, Open
<1>4. RegistrationsTyped'
  <2>1. CASE cleanup
    BY <2>1, PurgedTyped DEF cleanup, MemberInv
  <2>2. CASE RegistrationLapses
    <3>1. PICK r \in Registrations : registration' = [registration EXCEPT ![r].overdue = TRUE]
      BY <2>2 DEF RegistrationLapses, InTime, Waiting
    <3> QED
      BY <3>1, OverdueTyped DEF MemberInv
  <2>3. CASE InvitationLapses \/ TokenExpires
    BY <2>3, RegistrationsStay DEF InvitationLapses, TokenExpires, MemberInv
  <2> QED
    BY <2>1, <2>2, <2>3 DEF Unattended
<1>5. /\ InvitationsTyped'
      /\ \A j \in Invitations : /\ invitation'[j].status = invitation[j].status
                                /\ invitation'[j].email = invitation[j].email
                                /\ invitation'[j].org = invitation[j].org
  <2>1. CASE InvitationLapses
    BY <2>1, LapseTyped DEF MemberInv
  <2>2. CASE cleanup \/ RegistrationLapses \/ TokenExpires
    <3>1. UNCHANGED <<org, invitation>>
      BY <2>2 DEF cleanup, RegistrationLapses, TokenExpires
    <3> QED
      BY <3>1, InvitationsStay DEF MemberInv
  <2> QED
    BY <2>1, <2>2 DEF Unattended
<1> QED
  BY <1>1, <1>2, <1>3, <1>4, <1>5 DEF MemberInv

\* The platform opens an organisation.
LEMMA WritesOpening ==
    ASSUME MemberInv, createOrganisation
    PROVE  /\ MemberInv' /\ UNCHANGED <<account, invitation, demoted, op, staleCommit>>
           /\ ~staleCommit => overtaken \subseteq overtaken'
           /\ \E o \in Organisations :
                 /\ org[o].state = "none" /\ byPlatform' = byPlatform \cup {o}
                 /\ org' = [org EXCEPT ![o] = NewOrganisation("open")]
                 /\ \A q \in Organisations : /\ q # o => org'[q] = org[q]
                                             /\ Open(q)' <=> Open(q) \/ q = o
<1>1. PICK o \in Organisations :
         /\ org[o].state = "none" /\ byPlatform' = byPlatform \cup {o}
         /\ org' = [org EXCEPT ![o] = NewOrganisation("open")]
         /\ budget > 0 /\ budget' = budget - 1
         /\ overtaken' = IF staleCommit THEN {}
                         ELSE overtaken \cup {d \in InFlight : <<"name", o>> \in RowsRead(op[d])}
  BY DEF createOrganisation
<1>2. UNCHANGED <<account, invitation, registration, demoted, op, staleCommit>>
  BY DEF createOrganisation
<1>3. /\ org' \in [Organisations -> OrganisationRows]
      /\ \A q \in Organisations : /\ q # o => org'[q] = org[q]
                                  /\ Open(q)' <=> Open(q) \/ q = o
  BY <1>1, OrganisationsMade DEF MemberInv, OrganisationsTyped, Open
<1>4. OrganisationsTyped'
  <2>1. ASSUME NEW e \in Emails, account[e] # NoAccount PROVE org'[account[e].org].state = "open"
    <3>1. account[e].org \in Organisations /\ Open(account[e].org)
      BY <2>1, AccountsMade DEF MemberInv, OrganisationsTyped
    <3> QED
      BY <1>3, <3>1 DEF Open
  <2> QED
    BY <1>2, <1>3, <2>1 DEF MemberInv, OrganisationsTyped, Open
<1>5. InvitationsTyped'
  BY <1>2, <1>3, InvitationsOpenStill DEF MemberInv
<1>6. RegistrationsTyped'
  BY <1>2, RegistrationsStay DEF MemberInv
<1>7. HandlersTyped'
  <2>1. overtaken' \subseteq Clients /\ budget' \in Nat
    BY <1>1 DEF MemberInv, HandlersTyped, InFlight
  <2> QED
    BY <1>2, <2>1 DEF MemberInv, HandlersTyped
<1> QED
  BY <1>1, <1>2, <1>3, <1>4, <1>5, <1>6, <1>7 DEF MemberInv

\* The steps of membership.
MemberStep(c) == \/ RegistrationStep(c) \/ foundOrganisation(c) \/ lapse(c) \/ invite(c) \/ join(c)
                 \/ (mark(c) \/ cancel(c)) \/ updateMemberRole(c) \/ deleteOrganisation(c)

LEMMA StepsOfMembership ==
    ASSUME MembershipNext
    PROVE  \/ createOrganisation
           \/ /\ UNCHANGED byPlatform
              /\ \/ Unattended
                 \/ \E c \in Clients : MembershipRequest(c) \/ MemberStep(c) \/ Abandon(c)
BY DEF MembershipNext, MembershipContinue, MemberStep, RegistrationStep, WriteFails, Crash, Unattended

LEMMA BeginningStays ==
    ASSUME MemberInv, NEW c \in Clients, NEW s \in Ops, BeginsWell(c, s)
    PROVE  MemberInv' /\ op[c] = Idle /\ op' = [op EXCEPT ![c] = s]
<1>1. HandlersTyped' /\ op[c] = Idle /\ op' = [op EXCEPT ![c] = s]
  BY HandlersBegin DEF MemberInv, BeginsWell
<1>2. RegistrationsTyped'
  BY PurgedTyped, RegistrationsStay DEF MemberInv, BeginsWell
<1>3. OrganisationsTyped' /\ InvitationsTyped'
  BY OrganisationsStay, InvitationsStay DEF MemberInv, BeginsWell
<1> QED
  BY <1>1, <1>2, <1>3 DEF MemberInv

LEMMA MemberInvNext == ASSUME MemberInv, MembershipNext PROVE MemberInv'
<1>1. CASE Unattended
  BY <1>1, WritesUnattended
<1>2. ASSUME NEW c \in Clients, MembershipRequest(c) PROVE MemberInv'
  BY <1>2, ReadsTheTruth, BeginningStays
<1>3. ASSUME NEW c \in Clients, MemberStep(c) PROVE MemberInv'
  BY <1>3, WritesRegistration, WritesOrganisation, WritesExpired, WritesInvitation, WritesAccount,
     WritesStatus, WritesRole, WritesDeletion DEF MemberStep
<1>4. ASSUME NEW c \in Clients, Abandon(c) PROVE MemberInv'
  BY <1>4, Abandons
<1>5. CASE createOrganisation
  BY <1>5, WritesOpening
<1> QED
  BY <1>1, <1>5, <1>2, <1>3, <1>4, StepsOfMembership

(***************************************************************************)
(* Who has accepted is a member, however handlers overlap, fail or die.    *)
(***************************************************************************)
\* A member leaves only with the organisation, which does not come back.
LEMMA MembersStay ==
    ASSUME MemberInv, MembershipNext
    PROVE  /\ \A e \in Emails, o \in Organisations :
                 account[e].org = o /\ Open(o)' =>
                    /\ account'[e].org = o
                    /\ \/ account'[e] = account[e]
                       \/ \E c \in Clients : updateMemberRole(c) /\ op[c].m = e
           /\ \A o \in Organisations : Open(o)' =>
                 \/ Open(o)
                 \/ /\ org[o].state = "none"
                    /\ \/ o \in byPlatform'
                       \/ \E e \in Emails : account'[e] = [org |-> o, role |-> "ADMIN"]
<1>1. CASE Unattended
  BY <1>1, WritesUnattended DEF Open
<1>2. ASSUME NEW c \in Clients, MembershipRequest(c) \/ Abandon(c)
      PROVE  UNCHANGED <<org, account>>
  BY <1>2, ReadsTheTruth, Abandons DEF BeginsWell, memberTables
<1>3. ASSUME NEW c \in Clients, RegistrationStep(c) \/ lapse(c) \/ invite(c) \/ mark(c) \/ cancel(c)
      PROVE  UNCHANGED <<org, account>>
  BY <1>3, WritesRegistration, WritesExpired, WritesInvitation, WritesStatus
<1>4. ASSUME NEW c \in Clients, foundOrganisation(c)
      PROVE  /\ \A e \in Emails, o \in Organisations :
                   account[e].org = o /\ Open(o)' => account'[e] = account[e]
             /\ \A o \in Organisations : Open(o)' =>
                   \/ Open(o)
                   \/ /\ org[o].state = "none"
                      /\ \E e \in Emails : account'[e] = [org |-> o, role |-> "ADMIN"]
  <2>1. account[op[c].e].org = "nowhere"
    BY <1>4, WritesOrganisation, AccountsMade
  <2>2. \A e \in Emails \ {op[c].e} : account'[e] = account[e]
    BY <1>4, WritesOrganisation
  <2>3. \A o \in Organisations : Open(o)' => Open(o) \/ o = op[c].o
    BY <1>4, WritesOrganisation
  <2>4. /\ op[c].e \in Emails /\ org[op[c].o].state = "none"
        /\ account'[op[c].e] = [org |-> op[c].o, role |-> "ADMIN"]
    BY <1>4, WritesOrganisation
  <2> QED
    BY <2>1, <2>2, <2>3, <2>4, TenantsAssumption
<1>5. ASSUME NEW c \in Clients, join(c)
      PROVE  /\ \A e \in Emails, o \in Organisations :
                   account[e].org = o /\ Open(o)' => account'[e] = account[e]
             /\ UNCHANGED org
  <2>1. account[invitation[op[c].i].email].org = "nowhere"
    BY <1>5, WritesAccount, AccountsMade
  <2> QED
    BY <1>5, <2>1, WritesAccount, TenantsAssumption
<1>6. ASSUME NEW c \in Clients, updateMemberRole(c)
      PROVE  /\ \A e \in Emails : /\ account'[e].org = account[e].org
                                  /\ account'[e] = account[e] \/ op[c].m = e
             /\ UNCHANGED org
  <2>1. /\ UNCHANGED org /\ op[c].m \in Emails
        /\ account'[op[c].m] = [org |-> account[op[c].m].org, role |-> op[c].role]
        /\ \A f \in Emails \ {op[c].m} : account'[f] = account[f]
    BY <1>6, WritesRole
  <2>2. account'[op[c].m].org = account[op[c].m].org
    BY <2>1
  <2> QED
    BY <2>1, <2>2
<1>7. ASSUME NEW c \in Clients, deleteOrganisation(c)
      PROVE  /\ \A e \in Emails, o \in Organisations :
                   account[e].org = o /\ Open(o)' => account'[e] = account[e]
             /\ \A o \in Organisations : Open(o)' => Open(o)
  BY <1>7, DeleteTyped
<1>8. CASE createOrganisation
  BY <1>8, WritesOpening
<1> QED
  BY <1>1, <1>8, <1>2, <1>3, <1>4, <1>5, <1>6, <1>7, StepsOfMembership DEF MemberStep, Open

\* A row is created once and deleted once, and names the same person and place
\* all the time.
LEMMA FateOfInvitations ==
    ASSUME MemberInv, MembershipNext, NEW i \in Invitations
    PROVE  /\ invitation[i].status = "DELETED" => invitation'[i].status = "DELETED"
           /\ invitation[i].status \notin NoRow =>
                 \/ invitation'[i].status = "DELETED"
                 \/ /\ invitation'[i].status \notin NoRow
                    /\ invitation'[i].email = invitation[i].email
                    /\ invitation'[i].org = invitation[i].org
           /\ invitation'[i].status = "ACCEPTED" =>
                 \/ invitation[i].status = "ACCEPTED"
                 \/ \E c \in Clients : op[c].pc = "mark" /\ op[c].i = i
<1> DEFINE Fate == /\ invitation[i].status = "DELETED" => invitation'[i].status = "DELETED"
                   /\ invitation[i].status \notin NoRow =>
                         \/ invitation'[i].status = "DELETED"
                         \/ /\ invitation'[i].status \notin NoRow
                            /\ invitation'[i].email = invitation[i].email
                            /\ invitation'[i].org = invitation[i].org
                   /\ invitation'[i].status = "ACCEPTED" =>
                         \/ invitation[i].status = "ACCEPTED"
                         \/ \E c \in Clients : op[c].pc = "mark" /\ op[c].i = i
<1>1. CASE Unattended
  BY <1>1, WritesUnattended
<1>2. ASSUME NEW c \in Clients,
             \/ MembershipRequest(c) \/ Abandon(c) \/ RegistrationStep(c)
             \/ foundOrganisation(c) \/ join(c) \/ updateMemberRole(c)
      PROVE  UNCHANGED invitation
  BY <1>2, ReadsTheTruth, Abandons, WritesRegistration, WritesOrganisation, WritesAccount, WritesRole
     DEF BeginsWell, memberTables
<1>3. ASSUME NEW c \in Clients, lapse(c) PROVE Fate
  <2>1. PICK j \in Invitations :
           /\ invitation[j].status \notin NoRow
           /\ invitation' = [invitation EXCEPT ![j].status = "EXPIRED"] /\ UNCHANGED org
    BY <1>3, OpFields DEF lapse, MemberInv, HandlersTyped
  <2>2. "EXPIRED" \in InvitationStatus
    BY DEF InvitationStatus
  <2>3. /\ invitation'[j].status = "EXPIRED"
        /\ invitation'[j].email = invitation[j].email /\ invitation'[j].org = invitation[j].org
        /\ \A k \in Invitations \ {j} : invitation'[k] = invitation[k]
    BY <2>1, <2>2, StatusTyped DEF MemberInv
  <2> QED
    BY <2>1, <2>3 DEF NoRow
<1>4. ASSUME NEW c \in Clients, invite(c) PROVE Fate
  <2>1. PICK j \in Invitations :
           /\ invitation[j].status = "NEW" /\ invitation'[j] = InvitedRow(op[c])
           /\ \A k \in Invitations \ {j} : invitation'[k] = invitation[k]
    BY <1>4, WritesInvitation
  <2>2. InvitedRow(op[c]).status = "PENDING"
    BY DEF InvitedRow
  <2> QED
    BY <2>1, <2>2 DEF NoRow
<1>5. ASSUME NEW c \in Clients, mark(c) \/ cancel(c) PROVE Fate
  BY <1>5, WritesStatus DEF NoRow
<1>6. ASSUME NEW c \in Clients, deleteOrganisation(c) PROVE Fate
  <2>1. NoInvitation("DELETED").status = "DELETED"
    BY DEF NoInvitation
  <2> QED
    BY <1>6, <2>1, DeleteTyped
<1>7. CASE createOrganisation
  BY <1>7, WritesOpening
<1> QED
  BY <1>1, <1>7, <1>2, <1>3, <1>4, <1>5, <1>6, StepsOfMembership DEF MemberStep

AcceptedInv == AcceptedMeansMember /\ \A c \in Clients : MarksMember(op[c])

\* What a handler that stays where it is goes on knowing.
LEMMA MarksStill ==
    ASSUME MemberInv, MemberInv', MembershipNext, NEW d \in Clients, op'[d] = op[d],
           MarksMember(op[d])
    PROVE  MarksMember(op[d])'
<1> DEFINE s == op[d]
<1>1. s \in Ops /\ op'[d] = s
  BY DEF MemberInv, HandlersTyped
<1>2. SUFFICES ASSUME s.pc = "mark", invitation'[s.i].status # "DELETED"
               PROVE  /\ invitation'[s.i].status # "NEW"
                      /\ account'[invitation'[s.i].email].org = invitation'[s.i].org
  BY DEF MarksMember
<1>3. s.i \in Invitations
  BY <1>1, <1>2, OpFields, StepFields
<1>4. invitation[s.i].status # "DELETED"
  BY <1>2, <1>3, FateOfInvitations
<1>5. /\ invitation[s.i].status \notin NoRow
      /\ account[invitation[s.i].email].org = invitation[s.i].org
  BY <1>2, <1>4 DEF MarksMember, NoRow
<1> HIDE DEF s
<1>6. /\ invitation'[s.i].status \notin NoRow
      /\ invitation'[s.i].email = invitation[s.i].email
      /\ invitation'[s.i].org = invitation[s.i].org
  BY <1>2, <1>3, <1>5, FateOfInvitations
<1>7. InvitationNamed(s.i) /\ \A i \in Invitations : InvitationNamed(i)'
  BY <1>3 DEF MemberInv, InvitationsTyped
<1>8. /\ invitation[s.i].email \in Emails /\ invitation[s.i].org \in Organisations
      /\ org'[invitation[s.i].org].state = "open"
  BY <1>3, <1>5, <1>6, <1>7 DEF InvitationNamed, Open
<1> QED
  BY <1>5, <1>6, <1>8, MembersStay DEF NoRow, Open

LEMMA AcceptedStill ==
    ASSUME MemberInv, MemberInv', MembershipNext, AcceptedInv
    PROVE  AcceptedMeansMember'
<1> SUFFICES ASSUME NEW i \in Invitations, invitation'[i].status = "ACCEPTED"
             PROVE  account'[invitation'[i].email].org = invitation'[i].org
  BY DEF AcceptedMeansMember
<1>1. /\ invitation[i].status # "DELETED"
      /\ \/ invitation[i].status = "ACCEPTED"
         \/ \E c \in Clients : op[c].pc = "mark" /\ op[c].i = i
  BY FateOfInvitations
<1>2. /\ invitation[i].status \notin NoRow
      /\ account[invitation[i].email].org = invitation[i].org
  BY <1>1 DEF AcceptedInv, AcceptedMeansMember, MarksMember, NoRow
<1>3. /\ invitation'[i].email = invitation[i].email
      /\ invitation'[i].org = invitation[i].org
  BY <1>1, <1>2, FateOfInvitations
<1>4. InvitationNamed(i) /\ InvitationNamed(i)'
  BY DEF MemberInv, InvitationsTyped
<1>5. /\ invitation[i].email \in Emails /\ invitation[i].org \in Organisations
      /\ org'[invitation[i].org].state = "open"
  BY <1>2, <1>3, <1>4 DEF InvitationNamed, Open, NoRow
<1> QED
  BY <1>2, <1>3, <1>5, MembersStay DEF Open

LEMMA AcceptedNext ==
    ASSUME MemberInv, MemberInv', MembershipNext, AcceptedInv
    PROVE  AcceptedInv'
<1>0. op \in [Clients -> Ops] /\ MarksMember(Idle)
  BY DEF MemberInv, HandlersTyped, MarksMember, Idle
<1>1. CASE Unattended
  <2>1. \A d \in Clients : op'[d] = op[d]
    BY <1>1, WritesUnattended
  <2> QED
    BY <2>1, MarksStill, AcceptedStill DEF AcceptedInv
<1>2. ASSUME NEW c \in Clients, MembershipRequest(c) \/ MemberStep(c) \/ Abandon(c)
      PROVE  \E s : op' = [op EXCEPT ![c] = s] /\ MarksMember(op[c])'
  <2>1. ASSUME NEW s, op' = [op EXCEPT ![c] = s], s.pc \notin {"mark", "lapse"}
        PROVE  MarksMember(op[c])'
    BY <1>0, <2>1 DEF MarksMember
  <2>2. Idle.pc = "idle"
    BY DEF Idle
  <2>3. CASE MembershipRequest(c)
    <3>1. PICK s \in Ops : BeginsWell(c, s)
      BY <2>3, ReadsTheTruth
    <3>2. op' = [op EXCEPT ![c] = s] /\ op'[c] = s
      BY <1>0, <3>1 DEF BeginsWell, Begin
    <3> QED
      BY <3>1, <3>2 DEF BeginsWell, MarksMember
  <2>4. CASE Abandon(c)
    BY <2>1, <2>2, <2>4 DEF Abandon
  <2>5. CASE \/ RegistrationStep(c) \/ foundOrganisation(c) \/ invite(c) \/ mark(c) \/ cancel(c)
             \/ updateMemberRole(c) \/ deleteOrganisation(c)
    <3>1. \E rows : Commit(c, Idle, rows)
      BY <2>5, WritesRegistration, WritesOrganisation, WritesInvitation, WritesStatus, WritesRole,
         WritesDeletion
    <3>2. op' = [op EXCEPT ![c] = Idle]
      BY <3>1 DEF Commit
    <3> QED
      BY <2>1, <2>2, <3>2
  <2>6. CASE lapse(c)
    <3>1. PICK s \in Ops :
             /\ op' = [op EXCEPT ![c] = s] /\ op[c].pc = "lapse"
             /\ s.pc \notin {"mark", "role"} \/ s = op[c].then
             /\ s.pc = "lapse" => s.then = op[c].then
      BY <2>6, WritesExpired DEF Commit
    <3>2. op[c].then.pc \notin {"mark", "role"}
      BY <3>1 DEF AcceptedInv, MarksMember
    <3>3. op'[c] = s /\ s.pc # "mark" /\ (s.pc = "lapse" => s.then.pc \notin {"mark", "role"})
      BY <1>0, <3>1, <3>2
    <3> QED
      BY <3>1, <3>3 DEF MarksMember
  <2>7. CASE join(c)
    <3>1. /\ op' = [op EXCEPT ![c] = [pc |-> "mark", i |-> op[c].i]]
          /\ invitation' = invitation /\ invitation[op[c].i].status \notin NoRow
          /\ account'[invitation[op[c].i].email].org = invitation[op[c].i].org
      BY <2>7, WritesAccount DEF Commit
    <3>2. op'[c] = [pc |-> "mark", i |-> op[c].i]
      BY <1>0, <3>1
    <3>3. op'[c].pc = "mark" /\ op'[c].i = op[c].i
      BY <3>2
    <3> QED
      BY <3>1, <3>3 DEF MarksMember, NoRow
  <2> QED
    BY <1>2, <2>3, <2>4, <2>5, <2>6, <2>7 DEF MemberStep
<1>3. ASSUME NEW c \in Clients, MembershipRequest(c) \/ MemberStep(c) \/ Abandon(c)
      PROVE  AcceptedInv'
  <2>1. \A d \in Clients \ {c} : op'[d] = op[d]
    BY <1>0, <1>2, <1>3
  <2>2. \A d \in Clients \ {c} : MarksMember(op[d])'
    BY <2>1, MarksStill DEF AcceptedInv
  <2>3. MarksMember(op[c])'
    BY <1>2, <1>3
  <2> QED
    BY <2>2, <2>3, AcceptedStill DEF AcceptedInv
<1>4. CASE createOrganisation
  <2>1. \A d \in Clients : op'[d] = op[d]
    BY <1>4, WritesOpening
  <2> QED
    BY <2>1, MarksStill, AcceptedStill DEF AcceptedInv
<1> QED
  BY <1>1, <1>3, <1>4, StepsOfMembership

(***************************************************************************)
(* As long as nobody writes on an overtaken read: one invitation pending   *)
(* for a person and a place, and an administrator in every organisation    *)
(* that was registered.                                                    *)
(***************************************************************************)
\* What AdminRemains says of an organisation that was registered.
Administered(o) == Members(o) # {} /\ (~staleCommit => Admins(o) # {})

MemberTrueInv == /\ \A o \in Organisations : Open(o) /\ o \notin byPlatform => Administered(o)
                 /\ ~staleCommit => /\ OnePending
                                    /\ \A c \in Clients \ overtaken : MemberTruth(op[c])

\* What another's write leaves to a handler that it does not overtake.
LEMMA NotOvertaken ==
    ASSUME HandlersTyped, NEW c \in Clients, NEW s, NEW rows, Commit(c, s, rows), ~staleCommit'
    PROVE  /\ ~staleCommit /\ c \notin overtaken /\ op'[c] = s
           /\ \A d \in Clients \ {c} :
                 /\ op'[d] = op[d]
                 /\ d \notin overtaken' =>
                       /\ d \notin overtaken
                       /\ op[d] # Idle => RowsRead(op[d]) \cap rows = {}
<1>1. /\ op \in [Clients -> Ops] /\ op' = [op EXCEPT ![c] = s]
      /\ ~staleCommit /\ c \notin overtaken
      /\ overtaken' = (overtaken \cup {d \in InFlight \ {c} : RowsRead(op[d]) \cap rows # {}})
                      \ (IF s = Idle THEN {c} ELSE {})
  BY DEF HandlersTyped, Commit
<1>2. ASSUME NEW d \in Clients \ {c}, d \notin overtaken'
      PROVE  d \notin overtaken /\ (op[d] # Idle => RowsRead(op[d]) \cap rows = {})
  BY <1>1, <1>2 DEF InFlight
<1> QED
  BY <1>1, <1>2

\* The person of whose invitations s has read.
Heeds(s, e) == \/ s.pc = "invite" /\ s.e = e
               \/ s.pc = "lapse" /\ s.then.pc = "invite" /\ s.then.e = e

LEMMA RowsReadOf ==
    /\ \A s : s.pc = "role" => /\ s # Idle
                               /\ <<"account", s.m>> \in RowsRead(s)
                               /\ <<"admins", s.o>> \in RowsRead(s)
    /\ \A s, e : Heeds(s, e) => s # Idle /\ <<"invited", e>> \in RowsRead(s)
<1>1. ASSUME NEW s, s.pc = "role"
      PROVE  s # Idle /\ RowsRead(s) = {<<"account", s.m>>, <<"admins", s.o>>}
  BY <1>1 DEF RowsRead, RowsReadBy, Idle
<1>2. ASSUME NEW s, s.pc = "invite" PROVE s # Idle /\ <<"invited", s.e>> \in RowsReadBy(s)
  BY <1>2 DEF RowsReadBy, Idle
<1>3. ASSUME NEW s, NEW e, Heeds(s, e) PROVE s # Idle /\ <<"invited", e>> \in RowsRead(s)
  <2>1. CASE s.pc = "invite" /\ s.e = e
    BY <1>2, <2>1 DEF RowsRead
  <2>2. CASE s.pc = "lapse" /\ s.then.pc = "invite" /\ s.then.e = e
    <3>1. <<"invited", e>> \in RowsReadBy(s.then)
      BY <1>2, <2>2
    <3> QED
      BY <2>2, <3>1 DEF RowsRead, Idle
  <2> QED
    BY <1>3, <2>1, <2>2 DEF Heeds
<1> QED
  BY <1>1, <1>3

LEMMA MemberTruthStays ==
    ASSUME NEW d \in Clients, op'[d] = op[d], MemberTruth(op[d]),
           op[d].pc = "role" =>
              /\ account'[op[d].m] = account[op[d].m]
              /\ \A e \in Admins(op[d].o) : e = op[d].m \/ account'[e] = account[e],
           \A e, o : Heeds(op[d], e) => Pending(e, o)' \subseteq Pending(e, o)
    PROVE  MemberTruth(op[d])'
<1> DEFINE s == op[d]
<1>1. ASSUME s.pc = "role", OtherAdmin(s.m, s.o)
      PROVE  \E e \in Emails : e # s.m /\ account'[e].org = s.o /\ account'[e].role = "ADMIN"
  BY <1>1 DEF OtherAdmin, Admins, Members
<1>2. ASSUME s.pc = "role", account'[s.m].role = "ADMIN", s.role # "ADMIN"
      PROVE  OtherAdmin(op[d].m, op[d].o)'
  <2>1. OtherAdmin(s.m, s.o)
    BY <1>2 DEF MemberTruth
  <2> QED
    BY <1>1, <1>2, <2>1 DEF OtherAdmin, Admins, Members
<1>3. s.pc = "role" => account'[s.m].org = s.o
  BY DEF MemberTruth
<1>4. ASSUME s.pc = "invite" PROVE Pending(op[d].e, op[d].o)' = {}
  <2>1. Heeds(s, s.e) /\ Pending(s.e, s.o) = {}
    BY <1>4 DEF Heeds, MemberTruth
  <2> DEFINE e == s.e
             o == s.o
  <2>2. \A i \in Invitations : ~(/\ invitation'[i].status = "PENDING"
                                 /\ invitation'[i].email = e /\ invitation'[i].org = o)
    BY <2>1 DEF Pending
  <2> QED
    BY <2>2 DEF Pending
<1>5. ASSUME s.pc = "lapse", s.then.pc = "invite"
      PROVE  Pending(op[d].then.e, op[d].then.o)' \subseteq s.rest
  <2>1. Heeds(s, s.then.e) /\ Pending(s.then.e, s.then.o) \subseteq s.rest
    BY <1>5 DEF Heeds, MemberTruth
  <2> DEFINE e == s.then.e
             o == s.then.o
  <2>2. \A i \in Invitations : (/\ invitation'[i].status = "PENDING"
                                /\ invitation'[i].email = e /\ invitation'[i].org = o)
                               => i \in s.rest
    BY <2>1 DEF Pending
  <2> QED
    BY <2>2 DEF Pending
<1> QED
  BY <1>2, <1>3, <1>4, <1>5 DEF MemberTruth

\* Only invite makes an invitation pending.
PendingAsBefore == \A i \in Invitations : invitation'[i].status = "PENDING" =>
                      /\ invitation[i].status = "PENDING"
                      /\ invitation[i].email = invitation'[i].email
                      /\ invitation[i].org = invitation'[i].org

LEMMA PendingShrinks ==
    ASSUME MemberInv,
           \/ Unattended \/ createOrganisation
           \/ \E c \in Clients : \/ MembershipRequest(c) \/ Abandon(c) \/ RegistrationStep(c)
                                 \/ foundOrganisation(c) \/ lapse(c) \/ join(c)
                                 \/ mark(c) \/ cancel(c) \/ updateMemberRole(c)
                                 \/ deleteOrganisation(c)
    PROVE  PendingAsBefore
<1>1. CASE Unattended
  BY <1>1, WritesUnattended DEF PendingAsBefore
<1>2. ASSUME NEW c \in Clients,
             \/ MembershipRequest(c) \/ Abandon(c) \/ RegistrationStep(c)
             \/ foundOrganisation(c) \/ join(c) \/ updateMemberRole(c)
      PROVE  UNCHANGED invitation
  BY <1>2, ReadsTheTruth, Abandons, WritesRegistration, WritesOrganisation, WritesAccount, WritesRole
     DEF BeginsWell, memberTables
<1>3. ASSUME NEW c \in Clients, lapse(c) PROVE PendingAsBefore
  <2>1. PICK i \in Invitations : /\ invitation'[i].status = "EXPIRED"
                                 /\ \A j \in Invitations \ {i} : invitation'[j] = invitation[j]
    BY <1>3, WritesExpired
  <2> QED
    BY <2>1 DEF PendingAsBefore
<1>4. ASSUME NEW c \in Clients, mark(c) \/ cancel(c) PROVE PendingAsBefore
  BY <1>4, WritesStatus DEF PendingAsBefore
<1>5. ASSUME NEW c \in Clients, deleteOrganisation(c) PROVE PendingAsBefore
  <2>1. NoInvitation("DELETED").status = "DELETED"
    BY DEF NoInvitation
  <2> QED
    BY <1>5, <2>1, DeleteTyped DEF PendingAsBefore
<1>6. CASE createOrganisation
  BY <1>6, WritesOpening DEF PendingAsBefore
<1> QED
  BY <1>1, <1>6, <1>2, <1>3, <1>4, <1>5 DEF PendingAsBefore

LEMMA OnePendingStays == OnePending /\ PendingAsBefore => OnePending'
BY DEF OnePending, PendingAsBefore

LEMMA PendingStays ==
    ASSUME PendingAsBefore PROVE \A e, o : Pending(e, o)' \subseteq Pending(e, o)
BY DEF PendingAsBefore, Pending

\* Members and administrators stay with what is there.
LEMMA AdminsStay ==
    ASSUME MemberInv, MemberInv', MembershipNext, MemberTrueInv,
           \A c \in Clients : updateMemberRole(c) /\ ~staleCommit' => ~staleCommit /\ c \notin overtaken,
           staleCommit => staleCommit'
    PROVE  \A o \in Organisations : (Open(o) /\ o \notin byPlatform => Administered(o))'
<1> SUFFICES ASSUME NEW o \in Organisations, org'[o].state = "open", o \notin byPlatform'
             PROVE  /\ \E e \in Emails : account'[e].org = o
                    /\ ~staleCommit' =>
                          \E e \in Emails : account'[e].org = o /\ account'[e].role = "ADMIN"
  BY DEF Administered, Open, Members, Admins
<1>0. o \notin byPlatform
  BY StepsOfMembership, WritesOpening
<1>1. CASE ~Open(o)
  <2>1. PICK e \in Emails : account'[e] = [org |-> o, role |-> "ADMIN"]
    BY <1>1, MembersStay DEF Open
  <2> QED
    BY <2>1
<1>2. CASE Open(o)
  <2>1. \E e \in Emails : account'[e].org = o
    <3>1. PICK e \in Emails : account[e].org = o
      BY <1>0, <1>2 DEF MemberTrueInv, Administered, Members
    <3> QED
      BY <3>1, MembersStay DEF Open
  <2>2. ASSUME ~staleCommit'
        PROVE  \E e \in Emails : account'[e].org = o /\ account'[e].role = "ADMIN"
    <3>1. PICK a \in Emails : account[a].org = o /\ account[a].role = "ADMIN"
      BY <1>0, <1>2, <2>2 DEF MemberTrueInv, Administered, Members, Admins
    <3>2. CASE account'[a] = account[a]
      BY <3>1, <3>2
    <3>3. CASE \E c \in Clients : updateMemberRole(c) /\ op[c].m = a
      <4>1. PICK c \in Clients : updateMemberRole(c) /\ op[c].m = a
        BY <3>3
      <4>2. /\ op[c].pc = "role"
            /\ account'[a] = [org |-> account[a].org, role |-> op[c].role]
            /\ \A f \in Emails \ {a} : account'[f] = account[f]
        BY <4>1, WritesRole
      <4>3. MemberTruth(op[c])
        BY <2>2, <4>1 DEF MemberTrueInv
      <4>4. account[a].org = op[c].o
        BY <4>1, <4>2, <4>3 DEF MemberTruth
      <4>5. CASE op[c].role = "ADMIN"
        BY <3>1, <4>2, <4>5
      <4>6. CASE op[c].role # "ADMIN"
        <5>1. OtherAdmin(a, o)
          BY <3>1, <4>1, <4>2, <4>3, <4>4, <4>6 DEF MemberTruth
        <5> QED
          BY <4>2, <5>1 DEF OtherAdmin, Admins, Members
      <4> QED
        BY <4>5, <4>6
    <3> QED
      BY <3>1, <3>2, <3>3, MembersStay DEF Open
  <2> QED
    BY <2>1, <2>2
<1> QED
  BY <1>1, <1>2

\* What c has not overtaken is as true as it was, if accounts stay.
LEMMA TruthsStay ==
    ASSUME MemberTrueInv, NEW c \in Clients, NEW s, NEW rows, HandlersTyped, Commit(c, s, rows),
           ~staleCommit', UNCHANGED account, PendingAsBefore
    PROVE  \A d \in Clients \ {c} : d \notin overtaken' => MemberTruth(op[d])'
<1> SUFFICES ASSUME NEW d \in Clients \ {c}, d \notin overtaken' PROVE MemberTruth(op[d])'
  OBVIOUS
<1>1. op'[d] = op[d] /\ MemberTruth(op[d])
  BY NotOvertaken DEF MemberTrueInv
<1> QED
  BY <1>1, PendingStays, MemberTruthStays

\* And if somebody's account is new.
LEMMA TruthsStayBeside ==
    ASSUME MemberInv, MemberTrueInv, NEW c \in Clients, NEW s, NEW rows, Commit(c, s, rows),
           ~staleCommit', NEW e \in Emails, account[e] = NoAccount, <<"account", e>> \in rows,
           \A f \in Emails \ {e} : account'[f] = account[f],
           UNCHANGED invitation
    PROVE  \A d \in Clients \ {c} : d \notin overtaken' => MemberTruth(op[d])'
<1> SUFFICES ASSUME NEW d \in Clients \ {c}, d \notin overtaken' PROVE MemberTruth(op[d])'
  OBVIOUS
<1>1. /\ op'[d] = op[d] /\ MemberTruth(op[d]) /\ op[d] \in Ops
      /\ op[d] # Idle => RowsRead(op[d]) \cap rows = {}
  BY NotOvertaken DEF MemberTrueInv, MemberInv, HandlersTyped
<1>2. ASSUME op[d].pc = "role"
      PROVE  /\ account'[op[d].m] = account[op[d].m]
             /\ \A f \in Admins(op[d].o) : account'[f] = account[f]
  <2>1. op[d].m \in Emails /\ op[d].o \in Organisations
    BY <1>1, <1>2, OpFields, StepFields
  <2>2. <<"account", op[d].m>> \notin rows
    BY <1>1, <1>2, RowsReadOf
  <2>3. account[e].org = "nowhere"
    BY AccountsMade
  <2>4. e \notin Admins(op[d].o)
    BY <2>1, <2>3, TenantsAssumption DEF Admins, Members
  <2> QED
    BY <2>1, <2>2, <2>4 DEF Admins, Members
<1>3. PendingAsBefore
  BY DEF PendingAsBefore
<1> QED
  BY <1>1, <1>2, <1>3, PendingStays, MemberTruthStays

LEMMA TruthOfRole ==
    ASSUME MemberInv, MemberTrueInv, NEW c \in Clients, updateMemberRole(c), ~staleCommit'
    PROVE  \A d \in Clients \ {c} : d \notin overtaken' => MemberTruth(op[d])'
<1> SUFFICES ASSUME NEW d \in Clients \ {c}, d \notin overtaken' PROVE MemberTruth(op[d])'
  OBVIOUS
<1>1. PICK rows : /\ <<"account", op[c].m>> \in rows /\ <<"admins", op[c].o>> \in rows
                  /\ Commit(c, Idle, rows)
  BY WritesRole
<1>2. /\ op'[d] = op[d] /\ MemberTruth(op[d]) /\ MemberTruth(op[c])
      /\ op[d] # Idle => RowsRead(op[d]) \cap rows = {}
  BY <1>1, NotOvertaken DEF MemberTrueInv, MemberInv
<1>3. ASSUME op[d].pc = "role"
      PROVE  /\ account'[op[d].m] = account[op[d].m]
             /\ \A f \in Admins(op[d].o) : account'[f] = account[f]
  <2>1. <<"account", op[d].m>> \notin rows /\ <<"admins", op[d].o>> \notin rows
    BY <1>2, <1>3, RowsReadOf
  <2>2. op[d].m # op[c].m /\ op[d].o # op[c].o
    BY <1>1, <2>1
  <2>3. op[c].pc = "role" /\ \A f \in Emails \ {op[c].m} : account'[f] = account[f]
    BY WritesRole
  <2>4. account[op[c].m].org = op[c].o
    BY <1>2, <2>3 DEF MemberTruth
  <2>5. op[d].m \in Emails
    BY <1>3, OpFields, StepFields DEF MemberInv, HandlersTyped
  <2> QED
    BY <2>2, <2>3, <2>4, <2>5 DEF Admins, Members
<1>4. PendingAsBefore
  BY PendingShrinks
<1> QED
  BY <1>2, <1>3, <1>4, PendingStays, MemberTruthStays

LEMMA TruthOfDeletion ==
    ASSUME MemberInv, MemberTrueInv, NEW c \in Clients, deleteOrganisation(c), ~staleCommit'
    PROVE  \A d \in Clients \ {c} : d \notin overtaken' => MemberTruth(op[d])'
<1> SUFFICES ASSUME NEW d \in Clients \ {c}, d \notin overtaken' PROVE MemberTruth(op[d])'
  OBVIOUS
<1>1. PICK rows : /\ \A e \in Members(op[c].o) : <<"account", e>> \in rows
                  /\ Commit(c, Idle, rows)
  BY WritesDeletion
<1>2. /\ op'[d] = op[d] /\ MemberTruth(op[d])
      /\ op[d] # Idle => RowsRead(op[d]) \cap rows = {}
  BY <1>1, NotOvertaken DEF MemberTrueInv, MemberInv
<1>3. ASSUME op[d].pc = "role"
      PROVE  /\ account'[op[d].m] = account[op[d].m]
             /\ \A f \in Admins(op[d].o) : account'[f] = account[f]
  <2>1. <<"account", op[d].m>> \notin rows
    BY <1>2, <1>3, RowsReadOf
  <2>2. op[d].m \in Emails
    BY <1>3, OpFields, StepFields DEF MemberInv, HandlersTyped
  <2>3. account[op[d].m].org = op[d].o
    BY <1>2, <1>3 DEF MemberTruth
  <2>4. op[d].o # op[c].o
    BY <1>1, <2>1, <2>2, <2>3 DEF Members
  <2>5. \A e \in Emails : account[e].org # op[c].o => account'[e] = account[e]
    BY DeleteTyped
  <2> QED
    BY <2>2, <2>3, <2>4, <2>5 DEF Admins, Members
<1>4. PendingAsBefore
  BY PendingShrinks
<1> QED
  BY <1>2, <1>3, <1>4, PendingStays, MemberTruthStays

LEMMA TruthOfInvitation ==
    ASSUME MemberInv, MemberTrueInv, NEW c \in Clients, invite(c), ~staleCommit'
    PROVE  /\ OnePending'
           /\ \A d \in Clients \ {c} : d \notin overtaken' => MemberTruth(op[d])'
<1>1. /\ op[c].pc = "invite" /\ UNCHANGED account
      /\ \E rows : <<"invited", op[c].e>> \in rows /\ Commit(c, Idle, rows)
  BY WritesInvitation
<1>2. PICK i \in Invitations :
         /\ invitation[i].status = "NEW" /\ invitation'[i] = InvitedRow(op[c])
         /\ \A j \in Invitations \ {i} : invitation'[j] = invitation[j]
  BY WritesInvitation
<1>3. PICK rows : <<"invited", op[c].e>> \in rows /\ Commit(c, Idle, rows)
  BY <1>1
<1>4. /\ ~staleCommit /\ OnePending /\ MemberTruth(op[c])
      /\ \A d \in Clients \ {c} : /\ op'[d] = op[d]
                                  /\ d \notin overtaken' => MemberTruth(op[d])
  BY <1>3, NotOvertaken DEF MemberInv, MemberTrueInv
<1>5. invitation'[i].email = op[c].e /\ invitation'[i].org = op[c].o
  BY <1>2 DEF InvitedRow
<1>6. OnePending'
  <2>1. \A j \in Invitations : ~(/\ invitation[j].status = "PENDING"
                                 /\ invitation[j].email = op[c].e /\ invitation[j].org = op[c].o)
    BY <1>1, <1>4 DEF MemberTruth, Pending
  <2>2. ASSUME NEW j \in Invitations, NEW k \in Invitations,
               invitation'[j].status = "PENDING", invitation'[k].status = "PENDING",
               invitation'[j].email = invitation'[k].email, invitation'[j].org = invitation'[k].org
        PROVE  j = k
    <3>1. CASE j = i \/ k = i
      BY <1>2, <1>5, <2>1, <2>2, <3>1
    <3>2. CASE j # i /\ k # i
      BY <1>2, <1>4, <2>2, <3>2 DEF OnePending
    <3> QED
      BY <3>1, <3>2
  <2> QED
    BY <2>2 DEF OnePending
<1>7. ASSUME NEW d \in Clients \ {c}, d \notin overtaken' PROVE MemberTruth(op[d])'
  <2>1. op[d] # Idle => RowsRead(op[d]) \cap rows = {}
    BY <1>3, <1>7, NotOvertaken DEF MemberInv
  <2>2. ~Heeds(op[d], op[c].e)
    BY <1>3, <2>1, RowsReadOf
  <2>3. ASSUME NEW e, NEW o, Heeds(op[d], e) PROVE Pending(e, o)' \subseteq Pending(e, o)
    BY <1>2, <1>5, <2>2, <2>3 DEF Pending
  <2> QED
    BY <1>1, <1>4, <1>7, <2>3, MemberTruthStays
<1> QED
  BY <1>6, <1>7

LEMMA TruthOfExpiry ==
    ASSUME MemberInv, AcceptedInv, MemberTrueInv, NEW c \in Clients, lapse(c), ~staleCommit'
    PROVE  MemberTruth(op[c])'
<1>1. PICK i \in op[c].rest, s \in Ops :
         /\ \E rows : Commit(c, s, rows)
         /\ s.pc \notin {"mark", "role"} \/ s = op[c].then
         /\ s.pc = "invite" => s = op[c].then /\ op[c].rest = {i}
         /\ s.pc = "lapse" => s.then = op[c].then /\ s.rest = op[c].rest \ {i}
         /\ invitation'[i].status = "EXPIRED"
  BY WritesExpired
<1>2. op'[c] = s /\ MemberTruth(op[c]) /\ op[c].pc = "lapse"
  BY <1>1, WritesExpired, NotOvertaken DEF MemberInv, MemberTrueInv
<1>3. s.pc # "role"
  BY <1>1, <1>2 DEF AcceptedInv, MarksMember
<1>4. PendingAsBefore
  BY PendingShrinks
<1>5. ASSUME op[c].then.pc = "invite"
      PROVE  \A j \in Invitations :
                (/\ invitation'[j].status = "PENDING" /\ invitation'[j].email = op[c].then.e
                 /\ invitation'[j].org = op[c].then.o) => j \in op[c].rest \ {i}
  BY <1>1, <1>2, <1>4, <1>5 DEF MemberTruth, Pending, PendingAsBefore
<1>6. ASSUME s.pc = "invite" PROVE Pending(s.e, s.o)' = {}
  <2>1. \A j \in Invitations : ~(/\ invitation'[j].status = "PENDING" /\ invitation'[j].email = s.e
                                 /\ invitation'[j].org = s.o)
    BY <1>1, <1>5, <1>6
  <2> QED
    BY <2>1 DEF Pending
<1>7. ASSUME s.pc = "lapse", s.then.pc = "invite"
      PROVE  Pending(s.then.e, s.then.o)' \subseteq s.rest
  <2>1. \A j \in Invitations : (/\ invitation'[j].status = "PENDING"
                                /\ invitation'[j].email = s.then.e
                                /\ invitation'[j].org = s.then.o) => j \in s.rest
    BY <1>1, <1>5, <1>7
  <2> QED
    BY <2>1 DEF Pending
<1> QED
  BY <1>2, <1>3, <1>6, <1>7 DEF MemberTruth

LEMMA TruthOfIdle == \A s : s.pc \notin {"role", "invite", "lapse"} => MemberTruth(s)
BY DEF MemberTruth

\* What c goes on to is no promise: nothing to be true of.
LEMMA NoPromise ==
    ASSUME NEW c \in Clients, op'[c].pc \notin {"role", "invite", "lapse"}
    PROVE  MemberTruth(op[c])'
BY DEF MemberTruth

LEMMA StaleStays ==
    ASSUME MemberInv, MembershipNext PROVE staleCommit => staleCommit'
<1>1. CASE Unattended
  BY <1>1 DEF Unattended, cleanup, RegistrationLapses, InvitationLapses, TokenExpires, memberHistory
<1>2. ASSUME NEW c \in Clients, MembershipRequest(c) PROVE staleCommit' = staleCommit
  BY <1>2, ReadsTheTruth DEF BeginsWell, Begin
<1>3. ASSUME NEW c \in Clients, MemberStep(c) PROVE staleCommit => staleCommit'
  <2>1. \E s, rows : Commit(c, s, rows)
    BY <1>3, WritesRegistration, WritesOrganisation, WritesExpired, WritesInvitation, WritesAccount,
       WritesStatus, WritesRole, WritesDeletion DEF MemberStep
  <2> QED
    BY <2>1 DEF Commit
<1>4. ASSUME NEW c \in Clients, Abandon(c) PROVE staleCommit' = staleCommit
  BY <1>4 DEF Abandon
<1>5. CASE createOrganisation
  BY <1>5, WritesOpening
<1> QED
  BY <1>1, <1>5, <1>2, <1>3, <1>4, StepsOfMembership

LEMMA MemberTruthNext ==
    ASSUME MemberInv, MembershipNext, AcceptedInv, MemberTrueInv, ~staleCommit'
    PROVE  OnePending' /\ \A d \in Clients \ overtaken' : MemberTruth(op[d])'
<1>0. /\ ~staleCommit /\ OnePending /\ op \in [Clients -> Ops] /\ HandlersTyped
      /\ \A d \in Clients \ overtaken : MemberTruth(op[d])
  BY StaleStays DEF MemberTrueInv, MemberInv, HandlersTyped
<1>1. Idle.pc = "idle"
  BY DEF Idle
<1>2. ASSUME PendingAsBefore, UNCHANGED account
      PROVE  /\ OnePending'
             /\ \A d \in Clients : op'[d] = op[d] /\ MemberTruth(op[d]) => MemberTruth(op[d])'
  BY <1>0, <1>2, OnePendingStays, PendingStays, MemberTruthStays
<1>3. CASE Unattended
  <2>1. PendingAsBefore /\ UNCHANGED <<account, op, overtaken>>
    BY <1>3, PendingShrinks, WritesUnattended DEF memberHistory
  <2> QED
    BY <1>0, <1>2, <2>1
<1>4. ASSUME NEW c \in Clients, MembershipRequest(c)
      PROVE  OnePending' /\ \A d \in Clients \ overtaken' : MemberTruth(op[d])'
  <2>1. PICK s \in Ops : BeginsWell(c, s)
    BY <1>4, ReadsTheTruth
  <2>2. /\ UNCHANGED <<account, invitation, overtaken>> /\ MemberTruth(s)
        /\ op'[c] = s /\ \A d \in Clients \ {c} : op'[d] = op[d]
    BY <1>0, <2>1 DEF BeginsWell, Begin
  <2>3. PendingAsBefore
    BY <2>2 DEF PendingAsBefore
  <2>4. MemberTruth(op[c])'
    BY <2>2 DEF MemberTruth, OtherAdmin, Admins, Members, Pending
  <2> QED
    BY <1>0, <1>2, <2>2, <2>3, <2>4
<1>5. ASSUME NEW c \in Clients, Abandon(c)
      PROVE  OnePending' /\ \A d \in Clients \ overtaken' : MemberTruth(op[d])'
  <2>1. /\ UNCHANGED account /\ overtaken' = overtaken \ {c}
        /\ op'[c] = Idle /\ \A d \in Clients \ {c} : op'[d] = op[d]
    BY <1>0, <1>5 DEF Abandon, memberTables
  <2>2. PendingAsBefore
    BY <1>5, PendingShrinks
  <2>3. MemberTruth(op[c])'
    BY <1>1, <2>1, NoPromise
  <2> QED
    BY <1>0, <1>2, <2>1, <2>2, <2>3
<1>6. ASSUME NEW c \in Clients, RegistrationStep(c) \/ mark(c) \/ cancel(c)
      PROVE  OnePending' /\ \A d \in Clients \ overtaken' : MemberTruth(op[d])'
  <2>1. UNCHANGED account /\ PendingAsBefore /\ \E rows : Commit(c, Idle, rows)
    BY <1>6, WritesRegistration, WritesStatus, PendingShrinks
  <2>2. op'[c] = Idle
    BY <1>0, <2>1, NotOvertaken
  <2>3. MemberTruth(op[c])'
    BY <1>1, <2>2, NoPromise
  <2> QED
    BY <1>0, <1>2, <2>1, <2>3, TruthsStay
<1>7. ASSUME NEW c \in Clients, foundOrganisation(c)
      PROVE  OnePending' /\ \A d \in Clients \ overtaken' : MemberTruth(op[d])'
  <2>1. PICK rows : <<"account", op[c].e>> \in rows /\ Commit(c, Idle, rows)
    BY <1>7, WritesOrganisation
  <2>2. /\ op[c].e \in Emails /\ account[op[c].e] = NoAccount /\ UNCHANGED invitation
        /\ \A f \in Emails \ {op[c].e} : account'[f] = account[f]
    BY <1>7, WritesOrganisation
  <2>3. MemberTruth(op[c])'
    BY <1>0, <1>1, <2>1, NotOvertaken, NoPromise
  <2>4. OnePending'
    BY <1>0, <2>2 DEF OnePending
  <2> QED
    BY <2>1, <2>2, <2>3, <2>4, TruthsStayBeside
<1>8. ASSUME NEW c \in Clients, join(c)
      PROVE  OnePending' /\ \A d \in Clients \ overtaken' : MemberTruth(op[d])'
  <2> DEFINE e == invitation[op[c].i].email
             s == [pc |-> "mark", i |-> op[c].i]
  <2>1. PICK rows : <<"account", e>> \in rows /\ Commit(c, s, rows)
    BY <1>8, WritesAccount
  <2>2. /\ e \in Emails /\ account[e] = NoAccount /\ UNCHANGED invitation
        /\ \A f \in Emails \ {e} : account'[f] = account[f]
    BY <1>8, WritesAccount
  <2>3. s.pc = "mark"
    OBVIOUS
  <2> HIDE DEF e, s
  <2>4. MemberTruth(op[c])'
    BY <1>0, <2>1, <2>3, NotOvertaken, NoPromise
  <2>5. OnePending'
    BY <1>0, <2>2 DEF OnePending
  <2> QED
    BY <2>1, <2>2, <2>4, <2>5, TruthsStayBeside
<1>9. ASSUME NEW c \in Clients, lapse(c)
      PROVE  OnePending' /\ \A d \in Clients \ overtaken' : MemberTruth(op[d])'
  <2>1. UNCHANGED account /\ PendingAsBefore /\ \E s, rows : Commit(c, s, rows)
    BY <1>9, WritesExpired, PendingShrinks
  <2>2. MemberTruth(op[c])'
    BY <1>9, TruthOfExpiry
  <2> QED
    BY <1>0, <1>2, <2>1, <2>2, TruthsStay
<1>10. ASSUME NEW c \in Clients, invite(c)
       PROVE  OnePending' /\ \A d \in Clients \ overtaken' : MemberTruth(op[d])'
  <2>1. op'[c] = Idle
    BY <1>0, <1>10, WritesInvitation, NotOvertaken
  <2>2. MemberTruth(op[c])'
    BY <1>1, <2>1, NoPromise
  <2> QED
    BY <1>10, <2>2, TruthOfInvitation
<1>11. ASSUME NEW c \in Clients, updateMemberRole(c) \/ deleteOrganisation(c)
       PROVE  OnePending' /\ \A d \in Clients \ overtaken' : MemberTruth(op[d])'
  <2>1. PendingAsBefore /\ \E rows : Commit(c, Idle, rows)
    BY <1>11, WritesRole, WritesDeletion, PendingShrinks
  <2>2. op'[c] = Idle
    BY <1>0, <2>1, NotOvertaken
  <2>3. MemberTruth(op[c])' /\ OnePending'
    BY <1>0, <1>1, <2>1, <2>2, NoPromise, OnePendingStays
  <2> QED
    BY <1>11, <2>3, TruthOfRole, TruthOfDeletion
<1>12. CASE createOrganisation
  <2>1. PendingAsBefore /\ UNCHANGED <<account, op>> /\ overtaken \subseteq overtaken'
    BY <1>0, <1>12, PendingShrinks, WritesOpening
  <2> QED
    BY <1>0, <1>2, <2>1
<1> QED
  BY <1>3, <1>12, <1>4, <1>5, <1>6, <1>7, <1>8, <1>9, <1>10, <1>11, StepsOfMembership DEF MemberStep

LEMMA MemberTrueNext ==
    ASSUME MemberInv, MembershipNext, AcceptedInv, MemberTrueInv PROVE MemberTrueInv'
<1>1. MemberInv' /\ (staleCommit => staleCommit')
  BY MemberInvNext, StaleStays
<1>2. ASSUME NEW c \in Clients, updateMemberRole(c), ~staleCommit'
      PROVE  ~staleCommit /\ c \notin overtaken
  BY <1>2, WritesRole, NotOvertaken DEF MemberInv
<1>3. \A o \in Organisations : (Open(o) /\ o \notin byPlatform => Administered(o))'
  BY <1>1, <1>2, AdminsStay
<1> QED
  BY <1>3, MemberTruthNext DEF MemberTrueInv

(***************************************************************************)
(* Organisations that are not there yet, or that the platform opened, are  *)
(* strange to everybody: no member, no invitation, nobody who invites.     *)
(***************************************************************************)
LEMMA OrganisationsComeAndGo ==
    ASSUME MemberInv, MembershipNext, NEW o \in Organisations
    PROVE  \/ org'[o] = org[o]
           \/ org[o].state = "none" /\ org'[o] = NewOrganisation("open")
           \/ org'[o] = NewOrganisation("deleted")
<1>1. CASE Unattended
  BY <1>1, WritesUnattended
<1>2. ASSUME NEW c \in Clients, MembershipRequest(c) \/ Abandon(c) PROVE UNCHANGED org
  BY <1>2, ReadsTheTruth, Abandons DEF BeginsWell, memberTables
<1>3. ASSUME NEW c \in Clients, \/ RegistrationStep(c) \/ lapse(c) \/ invite(c) \/ join(c)
                                \/ mark(c) \/ cancel(c) \/ updateMemberRole(c)
      PROVE  UNCHANGED org
  BY <1>3, WritesRegistration, WritesExpired, WritesInvitation, WritesStatus, WritesAccount, WritesRole
<1>4. ASSUME NEW c \in Clients, foundOrganisation(c)
      PROVE  \/ org'[o] = org[o]
             \/ org[o].state = "none" /\ org'[o] = NewOrganisation("open")
  <2>1. /\ org[op[c].o].state = "none" /\ op[c].o \in Organisations
        /\ org' = [org EXCEPT ![op[c].o] = NewOrganisation("open")]
    BY <1>4, WritesOrganisation
  <2> QED
    BY <2>1 DEF MemberInv, OrganisationsTyped
<1>5. ASSUME NEW c \in Clients, deleteOrganisation(c)
      PROVE  org'[o] = org[o] \/ org'[o] = NewOrganisation("deleted")
  BY <1>5, WritesDeletion DEF MemberInv, OrganisationsTyped
<1>6. ASSUME createOrganisation
      PROVE  \/ org'[o] = org[o]
             \/ org[o].state = "none" /\ org'[o] = NewOrganisation("open")
  <2>1. PICK q \in Organisations : /\ org[q].state = "none"
                                   /\ org' = [org EXCEPT ![q] = NewOrganisation("open")]
    BY <1>6, WritesOpening
  <2> QED
    BY <2>1 DEF MemberInv, OrganisationsTyped
<1> QED
  BY <1>1, <1>6, <1>2, <1>3, <1>4, <1>5, StepsOfMembership DEF MemberStep

Strangers(o) == /\ \A e \in Emails : account[e].org # o
                /\ \A i \in Invitations : invitation[i].org # o
                /\ \A c \in Clients : ~Inviting(op[c], o)

PlatformInv == /\ byPlatform \subseteq Organisations
               /\ \A o \in byPlatform : org[o].state # "none"
               /\ \A o \in Organisations :
                     org[o].state = "none" \/ o \in byPlatform => Strangers(o)

LEMMA InvitesNobody == \A o : ~Inviting(Idle, o)
BY DEF Inviting, Idle

\* A handler that ends its work, or another's handler, invites nobody new.
LEMMA InvitersStay ==
    ASSUME MemberInv, NEW o, NEW c \in Clients, NEW s, Strangers(o),
           op' = [op EXCEPT ![c] = s], ~Inviting(s, o)
    PROVE  \A d \in Clients : ~Inviting(op[d], o)'
<1>1. \A d \in Clients : op'[d] = IF d = c THEN s ELSE op[d]
  BY DEF MemberInv, HandlersTyped
<1>2. \A d \in Clients : ~Inviting(op'[d], o)
  BY <1>1 DEF Strangers
<1> QED
  BY <1>2 DEF Inviting

\* Only the administrator with whom an organisation is founded enters it first.
LEMMA StrangersStay ==
    ASSUME MemberInv, MembershipNext, NEW o \in Organisations, Strangers(o),
           \A c \in Clients : foundOrganisation(c) => op[c].o # o
    PROVE  Strangers(o)'
<1>0. /\ op \in [Clients -> Ops]
      /\ \A c \in Clients : \A s, rows : Commit(c, s, rows) => op' = [op EXCEPT ![c] = s]
  BY DEF MemberInv, HandlersTyped, Commit
<1>1. CASE Unattended \/ createOrganisation
  <2>1. /\ UNCHANGED <<account, op>>
        /\ \A i \in Invitations : invitation'[i].org = invitation[i].org
    BY <1>1, WritesUnattended, WritesOpening
  <2> QED
    BY <2>1 DEF Strangers, Inviting
<1>2. ASSUME NEW c \in Clients, MembershipRequest(c) PROVE Strangers(o)'
  <2>1. PICK s \in Ops : BeginsWell(c, s)
    BY <1>2, ReadsTheTruth
  <2>2. ~Inviting(s, o) /\ op' = [op EXCEPT ![c] = s] /\ UNCHANGED <<account, invitation>>
    BY <2>1 DEF BeginsWell, ByMember, Strangers, Begin
  <2> QED
    BY <2>2, InvitersStay DEF Strangers
<1>3. ASSUME NEW c \in Clients, Abandon(c) \/ RegistrationStep(c) PROVE Strangers(o)'
  <2>1. op' = [op EXCEPT ![c] = Idle] /\ UNCHANGED <<account, invitation>>
    BY <1>0, <1>3, Abandons, WritesRegistration DEF memberTables
  <2> QED
    BY <2>1, InvitesNobody, InvitersStay DEF Strangers
<1>4. ASSUME NEW c \in Clients, foundOrganisation(c) PROVE Strangers(o)'
  <2>1. op' = [op EXCEPT ![c] = Idle] /\ UNCHANGED invitation
    BY <1>0, <1>4, WritesOrganisation
  <2>2. /\ op[c].o # o /\ account'[op[c].e] = [org |-> op[c].o, role |-> "ADMIN"]
        /\ \A f \in Emails \ {op[c].e} : account'[f] = account[f]
    BY <1>4, WritesOrganisation
  <2>3. \A e \in Emails : account'[e].org # o
    BY <2>2 DEF Strangers
  <2> QED
    BY <2>1, <2>3, InvitesNobody, InvitersStay DEF Strangers
<1>5. ASSUME NEW c \in Clients, lapse(c) PROVE Strangers(o)'
  <2>1. PICK i \in Invitations, s \in Ops :
           /\ op' = [op EXCEPT ![c] = s]
           /\ s.pc = "invite" => s = op[c].then
           /\ s.pc = "lapse" => s.then = op[c].then
           /\ invitation[i].status \notin NoRow /\ invitation'[i].status = "EXPIRED"
           /\ \A j \in Invitations \ {i} : invitation'[j] = invitation[j]
    <3>1. PICK rows : \E i \in op[c].rest, s \in Ops :
             /\ i \in Invitations /\ Commit(c, s, rows)
             /\ s.pc = "invite" => s = op[c].then
             /\ s.pc = "lapse" => s.then = op[c].then
             /\ invitation[i].status \notin NoRow /\ invitation'[i].status = "EXPIRED"
             /\ \A j \in Invitations \ {i} : invitation'[j] = invitation[j]
      BY <1>5, WritesExpired
    <3> QED
      BY <1>0, <3>1
  <2>2. UNCHANGED account /\ op[c].pc = "lapse"
    BY <1>5, WritesExpired
  <2>3. invitation'[i].org = invitation[i].org
    BY <2>1, FateOfInvitations
  <2>4. ~Inviting(s, o)
    BY <2>1, <2>2 DEF Strangers, Inviting
  <2>5. \A j \in Invitations : invitation'[j].org # o
    BY <2>1, <2>3 DEF Strangers
  <2> QED
    BY <2>1, <2>2, <2>4, <2>5, InvitersStay DEF Strangers
<1>6. ASSUME NEW c \in Clients, invite(c) PROVE Strangers(o)'
  <2>1. op' = [op EXCEPT ![c] = Idle] /\ UNCHANGED account /\ op[c].pc = "invite"
    BY <1>0, <1>6, WritesInvitation
  <2>2. PICK i \in Invitations : /\ invitation'[i] = InvitedRow(op[c])
                                 /\ \A j \in Invitations \ {i} : invitation'[j] = invitation[j]
    BY <1>6, WritesInvitation
  <2>3. invitation'[i].org # o
    BY <2>1, <2>2 DEF InvitedRow, Strangers, Inviting
  <2> QED
    BY <2>1, <2>2, <2>3, InvitesNobody, InvitersStay DEF Strangers
<1>7. ASSUME NEW c \in Clients, join(c) PROVE Strangers(o)'
  <2> DEFINE i == op[c].i
             s == [pc |-> "mark", i |-> i]
  <2>1. op' = [op EXCEPT ![c] = s] /\ UNCHANGED invitation /\ s.pc = "mark"
    BY <1>0, <1>7, WritesAccount
  <2>2. /\ i \in Invitations /\ account'[invitation[i].email].org = invitation[i].org
        /\ \A f \in Emails \ {invitation[i].email} : account'[f] = account[f]
    BY <1>7, WritesAccount
  <2> HIDE DEF i, s
  <2>3. \A e \in Emails : account'[e].org # o
    BY <2>2 DEF Strangers
  <2>4. ~Inviting(s, o)
    BY <2>1 DEF Inviting
  <2> QED
    BY <2>1, <2>3, <2>4, InvitersStay DEF Strangers
<1>8. ASSUME NEW c \in Clients, mark(c) \/ cancel(c) PROVE Strangers(o)'
  <2>1. op' = [op EXCEPT ![c] = Idle] /\ UNCHANGED account
    BY <1>0, <1>8, WritesStatus
  <2>2. \A j \in Invitations : invitation'[j].org = invitation[j].org
    BY <1>8, WritesStatus
  <2> QED
    BY <2>1, <2>2, InvitesNobody, InvitersStay DEF Strangers
<1>9. ASSUME NEW c \in Clients, updateMemberRole(c) PROVE Strangers(o)'
  <2>1. op' = [op EXCEPT ![c] = Idle] /\ UNCHANGED invitation
    BY <1>0, <1>9, WritesRole
  <2>2. /\ account'[op[c].m] = [org |-> account[op[c].m].org, role |-> op[c].role]
        /\ op[c].m \in Emails /\ \A f \in Emails \ {op[c].m} : account'[f] = account[f]
    BY <1>9, WritesRole
  <2>3. \A e \in Emails : account'[e].org # o
    BY <2>2 DEF Strangers
  <2> QED
    BY <2>1, <2>3, InvitesNobody, InvitersStay DEF Strangers
<1>10. ASSUME NEW c \in Clients, deleteOrganisation(c) PROVE Strangers(o)'
  <2>1. op' = [op EXCEPT ![c] = Idle]
    BY <1>0, <1>10, WritesDeletion
  <2>2. NoAccount.org # o /\ NoInvitation("DELETED").org # o
    BY TenantsAssumption DEF NoAccount, NoInvitation
  <2>3. /\ \A e \in Emails : account'[e].org # o
        /\ \A i \in Invitations : invitation'[i].org # o
    BY <1>10, <2>2, DeleteTyped DEF Strangers
  <2> QED
    BY <2>1, <2>3, InvitesNobody, InvitersStay DEF Strangers
<1> QED
  BY <1>1, <1>2, <1>3, <1>4, <1>5, <1>6, <1>7, <1>8, <1>9, <1>10, StepsOfMembership DEF MemberStep

LEMMA PlatformNext == ASSUME MemberInv, MembershipNext, PlatformInv PROVE PlatformInv'
<1>1. \A o \in Organisations : org[o].state # "none" => org'[o].state # "none"
  BY OrganisationsComeAndGo, OrganisationsMade
<1>2. /\ byPlatform' \subseteq Organisations
      /\ \A o \in byPlatform' : org'[o].state # "none"
      /\ \A o \in byPlatform' : org[o].state = "none" \/ o \in byPlatform
  <2>1. CASE createOrganisation
    <3>1. PICK q \in Organisations : /\ org[q].state = "none" /\ byPlatform' = byPlatform \cup {q}
                                     /\ Open(q)'
      BY <2>1, WritesOpening
    <3> QED
      BY <1>1, <3>1 DEF PlatformInv, Open
  <2>2. CASE UNCHANGED byPlatform
    BY <1>1, <2>2 DEF PlatformInv
  <2> QED
    BY <2>1, <2>2, StepsOfMembership
<1>3. ASSUME NEW o \in Organisations, org'[o].state = "none" \/ o \in byPlatform'
      PROVE  Strangers(o)'
  <2>1. Strangers(o)
    BY <1>1, <1>2, <1>3 DEF PlatformInv
  <2>2. ASSUME NEW c \in Clients, foundOrganisation(c) PROVE op[c].o # o
    <3> DEFINE e == op[c].e
               q == op[c].o
    <3>1. /\ e \in Emails /\ q \in Organisations /\ org[q].state = "none"
          /\ account[e] = NoAccount /\ account'[e] = [org |-> q, role |-> "ADMIN"]
          /\ \A p \in Organisations : Open(p)' <=> Open(p) \/ p = q
      BY <2>2, WritesOrganisation
    <3> HIDE DEF e, q
    <3>2. account'[e].org # account[e].org
      BY <3>1, TenantsAssumption DEF NoAccount
    <3>3. UNCHANGED byPlatform
      BY <3>2, StepsOfMembership, WritesOpening
    <3>4. org'[q].state = "open"
      BY <3>1 DEF Open
    <3>5. q # o
      BY <1>3, <3>1, <3>3, <3>4 DEF PlatformInv
    <3> QED
      BY <3>5 DEF q
  <2> QED
    BY <2>1, <2>2, StrangersStay
<1> QED
  BY <1>2, <1>3 DEF PlatformInv

LEMMA AdminRemainsFrom == MemberTrueInv /\ PlatformInv => AdminRemains
BY DEF MemberTrueInv, PlatformInv, AdminRemains, Administered, Strangers, Members

(***************************************************************************)
(* Membership when others step, and at first.                              *)
(***************************************************************************)
\* Billing writes rows of organisations, but founds and deletes none.
OrganisationsEndure == /\ org' \in [Organisations -> OrganisationRows]
                       /\ \A o \in Organisations : org'[o].state = org[o].state

LEMMA MembershipUndisturbed ==
    ASSUME MemberInv, AcceptedInv, MemberTrueInv, PlatformInv,
           UNCHANGED <<account, membershipOnly>>, OrganisationsEndure
    PROVE  MemberInv' /\ AcceptedInv' /\ MemberTrueInv' /\ PlatformInv'
<1>1. /\ UNCHANGED <<account, invitation, registration, demoted, op, overtaken, staleCommit, budget,
                   byPlatform>>
      /\ \A o \in Organisations : Open(o)' <=> Open(o)
  BY DEF membershipOnly, memberHistory, OrganisationsEndure, Open
<1>2. OrganisationsTyped'
  <2>1. ASSUME NEW e \in Emails, account[e] # NoAccount PROVE org'[account[e].org].state = "open"
    <3>1. account[e].org \in Organisations /\ Open(account[e].org)
      BY <2>1, AccountsMade DEF MemberInv, OrganisationsTyped
    <3> QED
      BY <3>1 DEF Open, OrganisationsEndure
  <2> QED
    BY <1>1, <2>1 DEF MemberInv, OrganisationsTyped, OrganisationsEndure, Open
<1>3. InvitationsTyped'
  BY <1>1, InvitationsOpenStill DEF MemberInv
<1>4. RegistrationsTyped' /\ HandlersTyped'
  BY <1>1 DEF MemberInv, RegistrationsTyped, RegistrationNamed, HandlersTyped
<1>5. AcceptedInv'
  BY <1>1 DEF AcceptedInv, AcceptedMeansMember, MarksMember
<1>6. \A o \in Organisations : (Open(o) /\ o \notin byPlatform => Administered(o))'
  BY <1>1 DEF MemberTrueInv, Administered, Members, Admins
<1>7. OnePending' <=> OnePending
  BY <1>1 DEF OnePending
<1>8. ASSUME NEW c \in Clients PROVE MemberTruth(op[c])' <=> MemberTruth(op[c])
  BY <1>1 DEF MemberTruth, OtherAdmin, Admins, Members, Pending
<1>9. MemberTrueInv'
  BY <1>1, <1>6, <1>7, <1>8 DEF MemberTrueInv
<1>10. PlatformInv'
  BY <1>1 DEF PlatformInv, Strangers, Inviting, OrganisationsEndure
<1> QED
  BY <1>10, <1>2, <1>3, <1>4, <1>5, <1>9 DEF MemberInv

LEMMA MembershipFirst == Init => MemberInv /\ AcceptedInv /\ MemberTrueInv /\ PlatformInv
<1> SUFFICES ASSUME Init PROVE MemberInv /\ AcceptedInv /\ MemberTrueInv /\ PlatformInv
  OBVIOUS
<1>1. PICK case \in Cases :
         /\ account = [e \in Emails |-> IF e \in DOMAIN case.roster
                                        THEN [org |-> Home, role |-> case.roster[e]]
                                        ELSE NoAccount]
         /\ budget = case.requests
  BY DEF Init
<1>2. /\ org = [o \in Organisations |-> NewOrganisation(IF o = Home THEN "open" ELSE "none")]
      /\ invitation = [i \in Invitations |-> NoInvitation("NEW")]
      /\ registration = [r \in Registrations |-> NoRegistration("NEW")]
      /\ demoted = {} /\ op = [c \in Clients |-> Idle] /\ overtaken = {} /\ staleCommit = FALSE
      /\ byPlatform = {}
  BY DEF Init, MembershipInit
<1>3. /\ Home \in Organisations /\ DOMAIN case.roster \subseteq Emails /\ case.requests \in Nat
      /\ \A e \in DOMAIN case.roster : case.roster[e] \in Role
      /\ \E e \in DOMAIN case.roster : case.roster[e] = "ADMIN"
  BY TenancyAssumption
<1>4. \A o \in Organisations : Open(o) <=> o = Home
  BY <1>2, OrganisationsMade DEF Open
<1>5. /\ org \in [Organisations -> OrganisationRows]
      /\ account \in [Emails -> Accounts]
      /\ \A e \in Emails : /\ e \in DOMAIN case.roster =>
                                 account[e] = [org |-> Home, role |-> case.roster[e]]
                           /\ e \notin DOMAIN case.roster => account[e] = NoAccount
  <2>1. org \in [Organisations -> OrganisationRows]
    BY <1>2, OrganisationsMade
  <2>2. NoAccount \in Accounts
    BY DEF Accounts
  <2>3. \A e \in DOMAIN case.roster : [org |-> Home, role |-> case.roster[e]] \in Accounts
    BY <1>3, AccountsMade
  <2> QED
    BY <1>1, <2>1, <2>2, <2>3
<1>6. OrganisationsTyped
  <2>1. \A e \in Emails : account[e] # NoAccount => account[e].org = Home
    BY <1>5
  <2> QED
    BY <1>2, <1>3, <1>4, <1>5, <2>1 DEF OrganisationsTyped
<1>7. /\ InvitationsTyped
      /\ \A i \in Invitations : invitation[i].status = "NEW"
  <2>1. /\ NoInvitation("NEW") \in InvitationRows /\ NoInvitation("NEW").status = "NEW"
    BY RowsMade DEF NoRow
  <2> QED
    BY <1>2, <2>1 DEF InvitationsTyped, InvitationNamed, NoRow
<1>8. RegistrationsTyped
  <2>1. NoRegistration("NEW") \in RegistrationRows /\ NoRegistration("NEW").status = "NEW"
    BY RowsMade DEF NoRow
  <2> QED
    BY <1>2, <2>1 DEF RegistrationsTyped, RegistrationNamed, NoRow
<1>9. HandlersTyped
  BY <1>1, <1>2, <1>3, OpsMade DEF HandlersTyped
<1>10. AcceptedInv
  BY <1>2, <1>7 DEF AcceptedInv, AcceptedMeansMember, MarksMember, Idle
<1>11. \A o \in Organisations : Open(o) => Administered(o)
  <2>1. PICK e \in DOMAIN case.roster : case.roster[e] = "ADMIN"
    BY <1>3
  <2>2. e \in Emails /\ account[e] = [org |-> Home, role |-> "ADMIN"]
    BY <1>3, <1>5, <2>1
  <2> QED
    BY <1>4, <2>2 DEF Administered, Members, Admins
<1>12. OnePending /\ \A c \in Clients : MemberTruth(op[c])
  BY <1>2, <1>7 DEF OnePending, MemberTruth, Idle
<1>13. PlatformInv
  <2>1. ASSUME NEW o \in Organisations, org[o].state = "none" PROVE Strangers(o)
    <3>1. o # Home
      BY <1>2, <2>1, OrganisationsMade
    <3>2. \A e \in Emails : account[e].org # o
      BY <1>5, <3>1, AccountsMade, TenantsAssumption
    <3>3. \A i \in Invitations : invitation[i].org # o
      BY <1>2, TenantsAssumption DEF NoInvitation
    <3> QED
      BY <1>2, <3>2, <3>3, InvitesNobody DEF Strangers
  <2> QED
    BY <1>2, <2>1 DEF PlatformInv
<1> QED
  BY <1>13, <1>6, <1>7, <1>8, <1>9, <1>10, <1>11, <1>12 DEF MemberInv, MemberTrueInv

(***************************************************************************)
(* Authentication: types.  A token that was issued names its session, and  *)
(* a call is about tokens there are.                                       *)
(***************************************************************************)
TokensKnown ==
    /\ \A t \in Issued : token[token[t].family].state # "new"
    /\ \A t, u \in Issued : token[t].family = token[u].family => token[t].e = token[u].e
    /\ \A f \in ended : token[f].state # "new"
CallKnown(s) ==
    /\ s.pc \in {"rotate", "reuse", "logout"} => s.t \in Issued /\ token[s.t].e = s.e
    /\ (s.pc = "issue" /\ s.family # NoFamily) =>
          \E u \in Issued : token[u].family = s.family /\ token[u].e = s.e
    /\ s.pc = "reset" => s.k \in Sent /\ link[s.k].e = s.e

AuthInv == AuthTypeOK /\ TokensKnown /\ \A w \in Callers : CallKnown(call[w])

LEMMA CallFields ==
    ASSUME NEW s \in Calls
    PROVE  /\ s.pc = "away" <=> s = Away
           /\ s # Away => s.e \in Emails
           /\ s.pc = "fail" => s.attempts \in Nat
           /\ s.pc \in {"clear", "issue"} => s.opened \in Nat
           /\ s.pc = "issue" => s.family \in RefreshTokens \cup {NoFamily}
           /\ s.pc \in {"rotate", "reuse", "logout"} => s.t \in RefreshTokens
           /\ s.pc = "reset" => s.k \in ResetLinks
<1>1. (s.pc = "away" <=> s = Away) /\ (s # Away => s.e \in Emails)
  BY DEF Calls, Away
<1>2. /\ s.pc = "fail" => s.attempts \in Nat
      /\ s.pc \in {"clear", "issue"} => s.opened \in Nat
      /\ s.pc = "issue" => s.family \in RefreshTokens \cup {NoFamily}
  BY DEF Calls, Away
<1>3. /\ s.pc \in {"rotate", "reuse", "logout"} => s.t \in RefreshTokens
      /\ s.pc = "reset" => s.k \in ResetLinks
  BY DEF Calls, Away
<1> QED
  BY <1>1, <1>2, <1>3

LEMMA CallsMade ==
    ASSUME NEW e \in Emails
    PROVE  /\ Away \in Calls
           /\ \A n \in Nat : /\ [pc |-> "fail", e |-> e, attempts |-> n] \in Calls
                             /\ [pc |-> "clear", e |-> e, opened |-> n] \in Calls
           /\ \A f \in RefreshTokens \cup {NoFamily}, n \in Nat :
                 [pc |-> "issue", e |-> e, family |-> f, opened |-> n] \in Calls
           /\ \A pc \in {"rotate", "reuse", "logout"}, t \in RefreshTokens :
                 [pc |-> pc, t |-> t, e |-> e] \in Calls
           /\ \A pc \in {"revokeAll", "revokeRest", "invalidate", "mail"} :
                 [pc |-> pc, e |-> e] \in Calls
           /\ \A k \in ResetLinks : [pc |-> "reset", k |-> k, e |-> e] \in Calls
<1>1. /\ Away \in Calls
      /\ \A n \in Nat : /\ [pc |-> "fail", e |-> e, attempts |-> n] \in Calls
                        /\ [pc |-> "clear", e |-> e, opened |-> n] \in Calls
  BY DEF Calls
<1>2. \A f \in RefreshTokens \cup {NoFamily}, n \in Nat :
         [pc |-> "issue", e |-> e, family |-> f, opened |-> n] \in Calls
  BY DEF Calls
<1>3. \A pc \in {"rotate", "reuse", "logout"}, t \in RefreshTokens :
         [pc |-> pc, t |-> t, e |-> e] \in Calls
  BY DEF Calls
<1>4. \A pc \in {"revokeAll", "revokeRest", "invalidate", "mail"} : [pc |-> pc, e |-> e] \in Calls
  BY DEF Calls
<1>5. \A k \in ResetLinks : [pc |-> "reset", k |-> k, e |-> e] \in Calls
  BY DEF Calls
<1> QED
  BY <1>1, <1>2, <1>3, <1>4, <1>5

\* A token's row.
TokenRow(st, e, f, n) == [state |-> st, e |-> e, family |-> f, opened |-> n]

LEMMA TokenFields ==
    ASSUME token \in [RefreshTokens -> TokenRows], NEW t \in Issued
    PROVE  /\ t \in RefreshTokens /\ token[t].e \in Emails /\ token[t].opened \in Nat
           /\ token[t].family \in RefreshTokens /\ token[t].family # NoFamily
           /\ token[t] = TokenRow(token[t].state, token[t].e, token[t].family, token[t].opened)
           /\ token[t].state \in {"live", "revoked"}
BY FamilyAssumption DEF Issued, TokenRows, TokenRow

LEMMA TokensMade ==
    /\ \A st \in {"live", "revoked"}, e \in Emails, f \in RefreshTokens, n \in Nat :
          TokenRow(st, e, f, n) \in TokenRows
    /\ \A st \in {"new", "gone"} : Without(st) \in TokenRows /\ Without(st) \in LinkRows
                                   /\ Without(st).state = st
    /\ \A e \in Emails, st \in {"open", "used"} : [state |-> st, e |-> e] \in LinkRows
BY DEF TokenRows, TokenRow, LinkRows, Without

LEMMA RevokedTokens ==
    ASSUME token \in [RefreshTokens -> TokenRows], NEW ts \in SUBSET Issued, token' = Revoked(ts)
    PROVE  /\ token' \in [RefreshTokens -> TokenRows]
           /\ Issued' = Issued
           /\ \A t \in Issued : /\ token'[t].e = token[t].e
                                /\ token'[t].family = token[t].family
                                /\ token'[t].opened = token[t].opened
                                /\ token'[t].state = IF t \in ts THEN "revoked" ELSE token[t].state
           /\ \A t \in RefreshTokens : t \notin ts => token'[t] = token[t]
<1>1. ASSUME NEW t \in ts
      PROVE  /\ t \in RefreshTokens
             /\ [token[t] EXCEPT !.state = "revoked"]
                = TokenRow("revoked", token[t].e, token[t].family, token[t].opened)
             /\ [token[t] EXCEPT !.state = "revoked"] \in TokenRows
  <2>1. /\ t \in RefreshTokens /\ token[t].e \in Emails /\ token[t].opened \in Nat
        /\ token[t].family \in RefreshTokens
        /\ token[t] = TokenRow(token[t].state, token[t].e, token[t].family, token[t].opened)
    BY <1>1, TokenFields
  <2>2. [token[t] EXCEPT !.state = "revoked"]
        = TokenRow("revoked", token[t].e, token[t].family, token[t].opened)
    BY <2>1 DEF TokenRow
  <2> QED
    BY <2>1, <2>2, TokensMade
<1>2. token' = [t \in RefreshTokens |-> IF t \in ts THEN [token[t] EXCEPT !.state = "revoked"]
                                        ELSE token[t]]
  BY DEF Revoked
<1>3. token' \in [RefreshTokens -> TokenRows]
  BY <1>1, <1>2
<1>4. \A t \in ts : token'[t] = TokenRow("revoked", token[t].e, token[t].family, token[t].opened)
  BY <1>1, <1>2
<1>5. \A t \in RefreshTokens : t \notin ts => token'[t] = token[t]
  BY <1>2
<1>6. \A t \in ts : /\ token'[t].e = token[t].e /\ token'[t].family = token[t].family
                    /\ token'[t].opened = token[t].opened /\ token'[t].state = "revoked"
  <2> SUFFICES ASSUME NEW t \in ts
               PROVE  /\ token'[t].e = token[t].e /\ token'[t].family = token[t].family
                      /\ token'[t].opened = token[t].opened /\ token'[t].state = "revoked"
    OBVIOUS
  <2>1. token'[t] = [state |-> "revoked", e |-> token[t].e, family |-> token[t].family,
                     opened |-> token[t].opened]
    BY <1>4 DEF TokenRow
  <2> QED
    BY <2>1
<1>7. Issued' = Issued
  <2>1. \A t \in RefreshTokens :
           token'[t].state \in {"live", "revoked"} <=> token[t].state \in {"live", "revoked"}
    <3>1. \A t \in ts : token[t].state \in {"live", "revoked"}
      BY DEF Issued
    <3> QED
      BY <1>5, <1>6, <3>1
  <2> QED
    BY <2>1 DEF Issued
<1> QED
  BY <1>3, <1>5, <1>6, <1>7 DEF Issued

\* w goes on as s, the others stay where they are.
LEMMA StoreTyped ==
    ASSUME AuthInv, NEW w \in Callers, NEW s \in Calls, NEW rows, Store(w, s, rows)
    PROVE  /\ call' = [call EXCEPT ![w] = s] /\ call' \in [Callers -> Calls]
           /\ call'[w] = s /\ \A v \in Callers \ {w} : call'[v] = call[v]
           /\ outdated' \subseteq Callers /\ staleCall' \in BOOLEAN
           /\ UNCHANGED <<cutOff, calls>>
<1>1. call \in [Callers -> Calls] /\ outdated \subseteq Callers /\ staleCall \in BOOLEAN
  BY DEF AuthInv, AuthTypeOK
<1>2. outdated' \subseteq Callers
  BY <1>1 DEF Store, Calling
<1> QED
  BY <1>1, <1>2 DEF Store

\* A step that leaves tokens and accounts alone, and of which w goes on as s.
LEMMA AuthStays ==
    ASSUME AuthInv, UNCHANGED <<account, token, ended>>, NEW w \in Callers, NEW s \in Calls,
           call' = [call EXCEPT ![w] = s], s # Away => HasAccount(s.e), CallKnown(s),
           password' \in [Emails -> Nat], login' \in [Emails -> LoginRows],
           link' \in [ResetLinks -> LinkRows], \A k \in Sent' : HasAccount(link'[k].e),
           \A k \in Sent : k \in Sent' /\ link'[k].e = link[k].e,
           outdated' \subseteq Callers, staleCall' \in BOOLEAN, cutOff' \in BOOLEAN, calls' \in Nat
    PROVE  AuthInv'
<1>1. /\ call \in [Callers -> Calls] /\ token \in [RefreshTokens -> TokenRows]
      /\ ended \subseteq RefreshTokens
      /\ \A t \in Issued : HasAccount(token[t].e)
      /\ \A v \in Calling : HasAccount(call[v].e)
      /\ TokensKnown /\ \A v \in Callers : CallKnown(call[v])
  BY DEF AuthInv, AuthTypeOK
<1>2. call' \in [Callers -> Calls] /\ call'[w] = s /\ \A v \in Callers \ {w} : call'[v] = call[v]
  BY <1>1
<1>3. Issued' = Issued /\ TokensKnown'
  BY <1>1 DEF Issued, TokensKnown
<1>4. \A t \in Issued' : account'[token'[t].e] # NoAccount
  BY <1>1, <1>3 DEF HasAccount
<1>5. \A v \in Callers : call'[v] # Away => account'[call'[v].e] # NoAccount
  BY <1>1, <1>2 DEF HasAccount, Calling
<1>6. \A v \in Callers : CallKnown(call[v])'
  BY <1>1, <1>2, <1>3 DEF CallKnown
<1>7. \A k \in Sent' : account'[link'[k].e] # NoAccount
  BY DEF HasAccount
<1> QED
  BY <1>1, <1>2, <1>3, <1>4, <1>5, <1>6, <1>7 DEF AuthInv, AuthTypeOK, HasAccount, Calling

\* A step that revokes tokens, which may end sessions.
LEMMA AuthRevokes ==
    ASSUME AuthInv, UNCHANGED <<account, password, login, link>>, NEW w \in Callers,
           NEW s \in Calls, NEW ts \in SUBSET Issued, token' = Revoked(ts),
           NEW rows, Store(w, s, rows), s # Away => HasAccount(s.e), CallKnown(s),
           NEW fs, ended' = ended \cup fs, \A f \in fs : \E t \in Issued : token[t].family = f
    PROVE  AuthInv'
<1>1. /\ call \in [Callers -> Calls] /\ token \in [RefreshTokens -> TokenRows]
      /\ ended \subseteq RefreshTokens
      /\ \A t \in Issued : HasAccount(token[t].e)
      /\ \A v \in Calling : HasAccount(call[v].e)
      /\ TokensKnown /\ \A v \in Callers : CallKnown(call[v])
  BY DEF AuthInv, AuthTypeOK
<1>2. /\ token' \in [RefreshTokens -> TokenRows] /\ Issued' = Issued
      /\ \A t \in Issued : /\ token'[t].e = token[t].e
                           /\ token'[t].family = token[t].family
      /\ \A t \in RefreshTokens : t \notin ts => token'[t] = token[t]
  BY <1>1, RevokedTokens
<1>3. /\ call' \in [Callers -> Calls] /\ call'[w] = s /\ \A v \in Callers \ {w} : call'[v] = call[v]
      /\ outdated' \subseteq Callers /\ staleCall' \in BOOLEAN /\ UNCHANGED <<cutOff, calls>>
  BY StoreTyped
<1>4. \A f \in RefreshTokens : token'[f].state = "new" => token[f].state = "new"
  <2>1. \A f \in ts : token'[f].state # "new"
    BY <1>2 DEF Issued
  <2> QED
    BY <1>2, <2>1
<1>5. \A f \in fs : f \in RefreshTokens /\ token[f].state # "new"
  BY <1>1, TokenFields DEF TokensKnown
<1>6. TokensKnown'
  <2>1. \A t \in Issued : token[t].family \in RefreshTokens
    BY <1>1, TokenFields
  <2>2. \A t \in Issued : token'[token'[t].family].state # "new"
    BY <1>1, <1>2, <1>4, <2>1 DEF TokensKnown
  <2>3. \A t, u \in Issued : token'[t].family = token'[u].family => token'[t].e = token'[u].e
    BY <1>1, <1>2 DEF TokensKnown
  <2>4. \A f \in ended' : token'[f].state # "new"
    BY <1>1, <1>4, <1>5 DEF TokensKnown
  <2> QED
    BY <1>2, <2>2, <2>3, <2>4 DEF TokensKnown
<1>7. ASSUME NEW t, CallKnown(t)
      PROVE  /\ t.pc \in {"rotate", "reuse", "logout"} => t.t \in Issued' /\ token'[t.t].e = t.e
             /\ (t.pc = "issue" /\ t.family # NoFamily) =>
                   \E u \in Issued' : token'[u].family = t.family /\ token'[u].e = t.e
             /\ t.pc = "reset" => t.k \in Sent' /\ link'[t.k].e = t.e
  BY <1>2, <1>7 DEF CallKnown, Sent
<1>8. \A v \in Callers : CallKnown(call[v])'
  <2> SUFFICES ASSUME NEW v \in Callers PROVE CallKnown(call[v])'
    OBVIOUS
  <2>1. CallKnown(call'[v])
    <3>1. CASE v = w
      BY <1>3, <3>1
    <3>2. CASE v # w
      BY <1>1, <1>3, <3>2
    <3> QED
      BY <3>1, <3>2
  <2> DEFINE t == call'[v]
  <2>2. /\ t.pc \in {"rotate", "reuse", "logout"} => t.t \in Issued' /\ token'[t.t].e = t.e
        /\ (t.pc = "issue" /\ t.family # NoFamily) =>
              \E u \in Issued' : token'[u].family = t.family /\ token'[u].e = t.e
        /\ t.pc = "reset" => t.k \in Sent' /\ link'[t.k].e = t.e
    BY <1>7, <2>1
  <2> QED
    BY <2>2 DEF CallKnown
<1>9. \A t \in Issued' : account'[token'[t].e] # NoAccount
  BY <1>1, <1>2 DEF HasAccount
<1>10. \A v \in Callers : call'[v] # Away => account'[call'[v].e] # NoAccount
  BY <1>1, <1>3 DEF HasAccount, Calling
<1>11. ended' \subseteq RefreshTokens
  BY <1>1, <1>5
<1>12. /\ password' \in [Emails -> Nat] /\ login' \in [Emails -> LoginRows]
       /\ link' \in [ResetLinks -> LinkRows] /\ \A k \in Sent' : account'[link'[k].e] # NoAccount
       /\ cutOff' \in BOOLEAN /\ calls' \in Nat
  BY <1>3 DEF AuthInv, AuthTypeOK, Sent, HasAccount
<1> QED
  BY <1>2, <1>3, <1>6, <1>8, <1>9, <1>10, <1>11, <1>12 DEF AuthInv, AuthTypeOK, HasAccount, Calling

(***************************************************************************)
(* What a call goes by is true as long as nobody has overtaken it.         *)
(***************************************************************************)
Resetting(e) == \E w \in Callers : call[w] = [pc |-> "revokeRest", e |-> e]
PasswordOf(e, n) == ~cutOff /\ ~Resetting(e) => n = password[e]
Renews(s) == s.pc = "issue" /\ s.family # NoFamily

CallTruth(s) ==
    /\ s.pc = "clear" => s.opened = password[s.e]
    /\ (s.pc = "issue" /\ s.family = NoFamily) => s.opened = password[s.e]
    /\ Renews(s) => /\ s.family \notin ended
                    /\ \A u \in LiveTokens : token[u].family # s.family
                    /\ PasswordOf(s.e, s.opened)
    /\ s.pc \in {"rotate", "logout"} => token[s.t].state = "live"

\* Of two calls that renew one session one is outdated.
OneRenews == \A v, w \in Callers \ outdated :
                (/\ Renews(call[v]) /\ Renews(call[w])
                 /\ call[v].family = call[w].family) => v = w

SessionsTrue ==
    /\ \A t \in LiveTokens : token[t].family \notin ended
    /\ \A t, u \in LiveTokens : token[t].family = token[u].family => t = u
    /\ \A t \in LiveTokens : PasswordOf(token[t].e, token[t].opened)
CallsTrue == (\A w \in Callers \ outdated : CallTruth(call[w])) /\ OneRenews

AuthTrueInv == ~staleCall => SessionsTrue /\ CallsTrue

LEMMA EndedFromTruth == AuthTrueInv => EndedStaysEnded
<1> SUFFICES ASSUME AuthTrueInv, ~staleCall
             PROVE  /\ \A t \in LiveTokens : /\ token[t].family \notin ended
                                             /\ LiveIn(token[t].family) = {t}
                    /\ \A e \in Emails :
                          ~cutOff /\ (\A w \in Callers : call[w] # [pc |-> "revokeRest", e |-> e])
                          => \A t \in LiveOf(e) : token[t].opened = password[e]
  BY DEF EndedStaysEnded
<1>1. SessionsTrue
  BY DEF AuthTrueInv
<1>2. \A t \in LiveTokens : token[t].family \notin ended /\ LiveIn(token[t].family) = {t}
  BY <1>1 DEF SessionsTrue, LiveIn
<1>3. \A e \in Emails : ~cutOff /\ ~Resetting(e) => \A t \in LiveOf(e) : token[t].opened = password[e]
  BY <1>1 DEF SessionsTrue, LiveOf, PasswordOf
<1> QED
  BY <1>2, <1>3 DEF Resetting

\* A request notes what is so.
LEMMA AsksTheTruth ==
    ASSUME AuthInv, NEW w \in Callers, AuthRequest(w)
    PROVE  \E s \in Calls : /\ Request(w, s) /\ s # Away /\ HasAccount(s.e)
                            /\ CallKnown(s) /\ CallTruth(s)
                            /\ s.pc \notin {"issue", "revokeRest"}
<1>1. ASSUME NEW s \in Calls, Request(w, s), s # Away, HasAccount(s.e),
             s.pc \notin {"issue", "revokeRest", "clear", "rotate", "reuse", "logout", "reset"}
      PROVE  \E c \in Calls : /\ Request(w, c) /\ c # Away /\ HasAccount(c.e)
                              /\ CallKnown(c) /\ CallTruth(c)
                              /\ c.pc \notin {"issue", "revokeRest"}
  BY <1>1 DEF CallKnown, CallTruth, Renews
<1>2. ASSUME NEW t \in Issued, NEW pc \in {"rotate", "reuse", "logout"},
             Request(w, [pc |-> pc, t |-> t, e |-> token[t].e]),
             pc \in {"rotate", "logout"} => token[t].state = "live"
      PROVE  \E c \in Calls : /\ Request(w, c) /\ c # Away /\ HasAccount(c.e)
                              /\ CallKnown(c) /\ CallTruth(c)
                              /\ c.pc \notin {"issue", "revokeRest"}
  <2> DEFINE c == [pc |-> pc, t |-> t, e |-> token[t].e]
  <2>1. t \in RefreshTokens /\ token[t].e \in Emails /\ HasAccount(token[t].e)
    BY <1>2, TokenFields DEF AuthInv, AuthTypeOK
  <2>2. c \in Calls /\ c # Away
    BY <1>2, <2>1, CallsMade DEF Away
  <2>3. CallKnown(c) /\ CallTruth(c)
    BY <1>2 DEF CallKnown, CallTruth, Renews
  <2> QED
    BY <1>2, <2>1, <2>2, <2>3
<1>3. CASE loginRead(w)
  <2>1. PICK e \in Emails :
           /\ HasAccount(e)
           /\ \/ Request(w, [pc |-> "fail", e |-> e, attempts |-> login[e].attempts + 1])
              \/ Request(w, [pc |-> "clear", e |-> e, opened |-> password[e]])
    BY <1>3 DEF loginRead
  <2>2. login[e].attempts + 1 \in Nat /\ password[e] \in Nat
    BY DEF AuthInv, AuthTypeOK, LoginRows
  <2>3. CASE Request(w, [pc |-> "fail", e |-> e, attempts |-> login[e].attempts + 1])
    BY <1>1, <2>1, <2>2, <2>3, CallsMade DEF Away
  <2>4. CASE Request(w, [pc |-> "clear", e |-> e, opened |-> password[e]])
    <3> DEFINE c == [pc |-> "clear", e |-> e, opened |-> password[e]]
    <3>1. c \in Calls /\ c # Away
      BY <2>2, CallsMade DEF Away
    <3>2. CallKnown(c) /\ CallTruth(c)
      BY DEF CallKnown, CallTruth, Renews
    <3> QED
      BY <2>1, <2>4, <3>1, <3>2
  <2> QED
    BY <2>1, <2>3, <2>4
<1>4. CASE refreshRead(w)
  <2>1. PICK t \in Issued :
           Request(w, [pc |-> IF token[t].state = "live" THEN "rotate" ELSE "reuse",
                       t |-> t, e |-> token[t].e])
    BY <1>4 DEF refreshRead
  <2> QED
    BY <1>2, <2>1
<1>5. CASE logoutRead(w)
  BY <1>2, <1>5 DEF logoutRead, LiveTokens
<1>6. CASE revokeAllSessions(w) \/ forgotPassword(w)
  <2>1. PICK e \in Emails, pc \in {"revokeAll", "invalidate"} :
           HasAccount(e) /\ Request(w, [pc |-> pc, e |-> e])
    BY <1>6 DEF revokeAllSessions, forgotPassword
  <2>2. [pc |-> pc, e |-> e] \in Calls /\ [pc |-> pc, e |-> e] # Away
    BY CallsMade DEF Away
  <2> QED
    BY <1>1, <2>1, <2>2
<1>7. CASE resetRead(w)
  <2>1. PICK k \in Usable : Request(w, [pc |-> "reset", k |-> k, e |-> link[k].e])
    BY <1>7 DEF resetRead
  <2> DEFINE c == [pc |-> "reset", k |-> k, e |-> link[k].e]
  <2>2. k \in ResetLinks /\ k \in Sent /\ link[k].e \in Emails /\ HasAccount(link[k].e)
    BY DEF Usable, Sent, AuthInv, AuthTypeOK, LinkRows
  <2>3. c \in Calls /\ c # Away
    BY <2>2, CallsMade DEF Away
  <2>4. CallKnown(c) /\ CallTruth(c)
    BY <2>2 DEF CallKnown, CallTruth, Renews
  <2> QED
    BY <2>1, <2>2, <2>3, <2>4
<1> QED
  BY <1>3, <1>4, <1>5, <1>6, <1>7 DEF AuthRequest

(***************************************************************************)
(* What every step of a call that is under way writes.                     *)
(***************************************************************************)
\* Of one that touches neither tokens nor passwords.
QuietStep(w) == \/ handleFailedLogin(w) \/ clearFailures(w)
                \/ invalidateUserTokens(w) \/ sendResetLink(w)

LEMMA WritesQuietly ==
    ASSUME AuthInv, UNCHANGED account, NEW w \in Callers, QuietStep(w)
    PROVE  /\ AuthInv'
           /\ \E rows : \E s \in Calls :
                 /\ Store(w, s, rows) /\ UNCHANGED <<password, token, ended>>
                 /\ call[w].pc # "revokeRest" /\ s.pc # "revokeRest" /\ ~Renews(s)
                 /\ CallTruth(call[w]) => CallTruth(s)
<1> DEFINE s == call[w]
           Goal(c, rows) == /\ c \in Calls
                            /\ Store(w, c, rows) /\ UNCHANGED <<password, token, ended>>
                            /\ s.pc # "revokeRest" /\ c.pc # "revokeRest" /\ ~Renews(c)
                            /\ CallTruth(s) => CallTruth(c)
<1>1. /\ s \in Calls /\ AuthTypeOK
      /\ password \in [Emails -> Nat] /\ login \in [Emails -> LoginRows]
      /\ link \in [ResetLinks -> LinkRows] /\ \A k \in Sent : HasAccount(link[k].e)
      /\ cutOff \in BOOLEAN /\ calls \in Nat
  BY DEF AuthInv, AuthTypeOK
<1>2. s.pc \notin {"away"} => s # Away /\ s.e \in Emails /\ HasAccount(s.e)
  BY <1>1, CallFields DEF AuthTypeOK, Calling, Away
<1>3. ASSUME NEW c, NEW rows, Goal(c, rows), c # Away => HasAccount(c.e), CallKnown(c),
             login' \in [Emails -> LoginRows], link' \in [ResetLinks -> LinkRows],
             \A k \in Sent' : HasAccount(link'[k].e),
             \A k \in Sent : k \in Sent' /\ link'[k].e = link[k].e
      PROVE  AuthInv'
  <2>1. /\ call' = [call EXCEPT ![w] = c] /\ outdated' \subseteq Callers /\ staleCall' \in BOOLEAN
        /\ cutOff' \in BOOLEAN /\ calls' \in Nat
    BY <1>1, <1>3, StoreTyped
  <2>2. password' \in [Emails -> Nat] /\ UNCHANGED <<account, token, ended>>
    BY <1>1, <1>3
  <2> QED
    BY <1>3, <2>1, <2>2, AuthStays
<1>4. Away \in Calls /\ CallKnown(Away) /\ CallTruth(Away) /\ ~Renews(Away) /\ Away.pc = "away"
  BY DEF Calls, CallKnown, CallTruth, Renews, Away
<1>5. CASE handleFailedLogin(w)
  <2>1. /\ s.pc = "fail" /\ Store(w, Away, {})
        /\ UNCHANGED <<password, token, link, ended>>
        /\ login' = [login EXCEPT ![s.e] = [attempts |-> s.attempts,
                                            locked |-> @.locked \/ s.attempts >= Threshold]]
    BY <1>5 DEF handleFailedLogin
  <2>2. Goal(Away, {})
    BY <1>4, <2>1
  <2>3. s.attempts \in Nat /\ login[s.e].locked \in BOOLEAN /\ s.e \in Emails
    BY <1>1, <1>2, <2>1, CallFields DEF LoginRows
  <2>4. [attempts |-> s.attempts, locked |-> login[s.e].locked \/ s.attempts >= Threshold]
        \in LoginRows
    BY <2>3 DEF LoginRows
  <2>5. login' \in [Emails -> LoginRows]
    BY <1>1, <2>1, <2>4
  <2>6. AuthInv'
    BY <1>1, <1>3, <1>4, <2>1, <2>2, <2>5 DEF Sent
  <2> QED
    BY <2>2, <2>6
<1>6. CASE clearFailures(w)
  <2> DEFINE c == [pc |-> "issue", e |-> s.e, family |-> NoFamily, opened |-> s.opened]
  <2>1. /\ s.pc = "clear" /\ Store(w, c, {})
        /\ UNCHANGED <<password, token, link, ended>>
        /\ login' = [login EXCEPT ![s.e] = Unblemished]
    BY <1>6 DEF clearFailures
  <2>2. s.opened \in Nat /\ s.e \in Emails /\ HasAccount(s.e)
    BY <1>1, <1>2, <2>1, CallFields
  <2>3. c \in Calls
    BY <2>2, CallsMade
  <2>4. CallKnown(c) /\ ~Renews(c) /\ (CallTruth(s) => CallTruth(c))
    BY <2>1 DEF CallKnown, Renews, CallTruth
  <2>5. Goal(c, {})
    BY <2>1, <2>3, <2>4
  <2>6. login' \in [Emails -> LoginRows]
    BY <1>1, <2>1 DEF LoginRows, Unblemished
  <2>7. AuthInv'
    BY <1>1, <1>3, <2>1, <2>2, <2>4, <2>5, <2>6 DEF Sent
  <2> QED
    BY <2>5, <2>7
<1>7. CASE invalidateUserTokens(w)
  <2> DEFINE c == [pc |-> "mail", e |-> s.e]
             former == {k \in Usable : link[k].e = s.e}
             rows == {<<"link", k>> : k \in former}
  <2>1. /\ s.pc = "invalidate" /\ Store(w, c, rows)
        /\ UNCHANGED <<password, login, token, ended>>
        /\ link' = [k \in ResetLinks |-> IF k \in former THEN [link[k] EXCEPT !.state = "used"]
                                         ELSE link[k]]
    BY <1>7 DEF invalidateUserTokens
  <2>2. s.e \in Emails /\ HasAccount(s.e) /\ c \in Calls
    BY <1>2, <2>1, CallsMade
  <2>3. CallKnown(c) /\ ~Renews(c) /\ CallTruth(c)
    BY DEF CallKnown, Renews, CallTruth
  <2>4. Goal(c, rows)
    BY <2>1, <2>2, <2>3
  <2>5. \A k \in former : k \in ResetLinks /\ link[k] = [state |-> "open", e |-> link[k].e]
                          /\ link[k].e \in Emails
    BY <1>1 DEF Usable, Sent, LinkRows
  <2>6. \A k \in former : [link[k] EXCEPT !.state = "used"] = [state |-> "used", e |-> link[k].e]
    <3> SUFFICES ASSUME NEW k \in former
                 PROVE  [link[k] EXCEPT !.state = "used"] = [state |-> "used", e |-> link[k].e]
      OBVIOUS
    <3>1. PICK e \in Emails : link[k] = [state |-> "open", e |-> e]
      BY <2>5
    <3> QED
      BY <3>1
  <2>7. \A k \in former : link'[k] = [state |-> "used", e |-> link[k].e]
    BY <2>1, <2>5, <2>6
  <2>8. \A k \in ResetLinks \ former : link'[k] = link[k]
    BY <2>1
  <2>9. link' \in [ResetLinks -> LinkRows]
    BY <1>1, <2>1, <2>5, <2>6, TokensMade
  <2>12. \A k \in Sent : k \in Sent' /\ link'[k].e = link[k].e
    <3> SUFFICES ASSUME NEW k \in Sent PROVE k \in Sent' /\ link'[k].e = link[k].e
      OBVIOUS
    <3>1. CASE k \in former
      <4>1. PICK e : link'[k] = [state |-> "used", e |-> e] /\ e = link[k].e
        BY <2>7, <3>1
      <4>2. link'[k].e = link[k].e /\ link'[k].state = "used"
        BY <4>1
      <4> QED
        BY <4>2 DEF Sent
    <3>2. CASE k \notin former
      BY <2>8, <3>2 DEF Sent
    <3> QED
      BY <3>1, <3>2
  <2>10. \A k \in Sent' : HasAccount(link'[k].e)
    <3> SUFFICES ASSUME NEW k \in Sent' PROVE HasAccount(link'[k].e)
      OBVIOUS
    <3>1. CASE k \in former
      <4>1. PICK e : link'[k] = [state |-> "used", e |-> e] /\ e = link[k].e
        BY <2>7, <3>1
      <4>2. link'[k].e = link[k].e
        BY <4>1
      <4>3. k \in Sent
        BY <3>1 DEF Usable
      <4> QED
        BY <1>1, <4>2, <4>3 DEF HasAccount
    <3>2. CASE k \notin former
      BY <1>1, <2>8, <3>2 DEF Sent
    <3> QED
      BY <3>1, <3>2
  <2>11. AuthInv'
    BY <1>3, <2>1, <2>2, <2>3, <2>4, <2>9, <2>10, <2>12, <1>1
  <2> QED
    BY <2>4, <2>11
<1>8. CASE sendResetLink(w)
  <2> DEFINE n == CHOOSE k \in Unsent : TRUE
  <2>1. /\ s.pc = "mail" /\ n \in Unsent /\ Store(w, Away, {})
        /\ UNCHANGED <<password, login, token, ended>>
        /\ link' = [link EXCEPT ![n] = [state |-> "open", e |-> s.e]]
    BY <1>8 DEF sendResetLink
  <2>2. s.e \in Emails /\ HasAccount(s.e) /\ n \in ResetLinks
    BY <1>2, <2>1 DEF Unsent
  <2>3. Goal(Away, {})
    BY <1>4, <2>1
  <2>4. link' \in [ResetLinks -> LinkRows]
    BY <1>1, <2>1, <2>2, TokensMade
  <2>5. /\ \A k \in Sent' : HasAccount(link'[k].e)
        /\ \A k \in Sent : k \in Sent' /\ link'[k].e = link[k].e
    <3>1. link'[n].e = s.e /\ \A k \in ResetLinks \ {n} : link'[k] = link[k]
      BY <1>1, <2>1, <2>2
    <3> QED
      BY <1>1, <2>1, <2>2, <3>1 DEF Sent, Unsent
  <2>6. AuthInv'
    BY <1>1, <1>3, <1>4, <2>1, <2>3, <2>4, <2>5
  <2> QED
    BY <2>3, <2>6
<1> QED
  BY <1>5, <1>6, <1>7, <1>8 DEF QuietStep

\* Of one that sets a password.
LEMMA WritesPassword ==
    ASSUME AuthInv, UNCHANGED account, NEW w \in Callers, resetPassword(w)
    PROVE  /\ AuthInv'
           /\ call[w].pc = "reset" /\ call[w].e \in Emails
           /\ password' = [password EXCEPT ![call[w].e] = @ + 1]
           /\ UNCHANGED <<token, ended>>
           /\ \E rows : /\ <<"password", call[w].e>> \in rows
                        /\ Store(w, [pc |-> "revokeRest", e |-> call[w].e], rows)
<1> DEFINE e == call[w].e
           k == call[w].k
           c == [pc |-> "revokeRest", e |-> e]
           rows == {<<"password", e>>, <<"link", k>>}
<1>1. /\ call[w].pc = "reset"
      /\ password' = [password EXCEPT ![e] = @ + 1]
      /\ login' = [login EXCEPT ![e] = Unblemished]
      /\ link' = [link EXCEPT ![k].state = "used"]
      /\ Store(w, c, rows)
      /\ UNCHANGED <<token, ended>>
  BY DEF resetPassword, ResetWith
<1>2. /\ call[w] \in Calls
      /\ password \in [Emails -> Nat] /\ login \in [Emails -> LoginRows]
      /\ link \in [ResetLinks -> LinkRows] /\ \A l \in Sent : HasAccount(link[l].e)
      /\ cutOff \in BOOLEAN /\ calls \in Nat
  BY DEF AuthInv, AuthTypeOK
<1>3. e \in Emails /\ k \in Sent /\ link[k].e = e /\ HasAccount(e) /\ c \in Calls
  <2>1. e \in Emails /\ HasAccount(e)
    BY <1>1, <1>2, CallFields DEF Calling, Away, AuthInv, AuthTypeOK
  <2> QED
    BY <1>1, <2>1, CallsMade DEF AuthInv, CallKnown
<1>4. password' \in [Emails -> Nat] /\ login' \in [Emails -> LoginRows]
  BY <1>1, <1>2, <1>3 DEF LoginRows, Unblemished
<1>5. /\ link' \in [ResetLinks -> LinkRows] /\ \A l \in Sent' : HasAccount(link'[l].e)
      /\ \A l \in Sent : l \in Sent' /\ link'[l].e = link[l].e
  <2>1. PICK st \in {"open", "used"} : link[k] = [state |-> st, e |-> e]
    BY <1>2, <1>3 DEF Sent, LinkRows
  <2>2. [link[k] EXCEPT !.state = "used"] = [state |-> "used", e |-> e]
    BY <2>1
  <2>3. k \in ResetLinks /\ link' = [link EXCEPT ![k] = [state |-> "used", e |-> e]]
    BY <1>1, <1>3, <2>2 DEF Sent
  <2>4. link'[k] = [state |-> "used", e |-> e] /\ \A l \in ResetLinks \ {k} : link'[l] = link[l]
    BY <1>2, <2>3
  <2>5. link'[k].e = e /\ link'[k].state = "used"
    BY <2>4
  <2>6. link' \in [ResetLinks -> LinkRows]
    BY <1>2, <1>3, <2>3, TokensMade
  <2> QED
    BY <1>2, <1>3, <2>4, <2>5, <2>6 DEF Sent
<1>6. CallKnown(c)
  BY DEF CallKnown
<1>7. /\ call' = [call EXCEPT ![w] = c] /\ outdated' \subseteq Callers /\ staleCall' \in BOOLEAN
      /\ cutOff' \in BOOLEAN /\ calls' \in Nat
  BY <1>1, <1>2, <1>3, StoreTyped
<1>8. AuthInv'
  BY <1>1, <1>3, <1>4, <1>5, <1>6, <1>7, AuthStays
<1> QED
  BY <1>1, <1>3, <1>8

\* Of one that revokes the tokens ts, and ends the sessions fs.
RevokingStep(w) == revokeFamily(w) \/ rotate(w) \/ logout(w) \/ revokeAllForUser(w)
Successor(t) == [pc |-> "issue", e |-> token[t].e, family |-> token[t].family,
                 opened |-> token[t].opened]
Revokes(w, s, ts, fs, rows) ==
    /\ ts \subseteq Issued /\ token' = Revoked(ts) /\ ended' = ended \cup fs
    /\ UNCHANGED <<password, login, link>>
    /\ s \in Calls /\ Store(w, s, rows)
    /\ \A t \in ts : <<"token", t>> \in rows
    /\ \A f \in fs : <<"session", f>> \in rows
    /\ \A f \in fs : \E t \in Issued : token[t].family = f
    /\ \/ s = Away
       \/ /\ call[w].pc = "rotate" /\ s = Successor(call[w].t)
          /\ ts = {call[w].t} /\ fs = {}
    /\ SessionsTrue /\ CallTruth(call[w]) =>
          \A t \in LiveTokens : token[t].family \in fs => t \in ts
    /\ call[w].pc = "revokeRest" =>
          \A t \in Issued : token[t].e = call[w].e => token[t].family \in fs

LEMMA WritesRevoked ==
    ASSUME AuthInv, UNCHANGED account, NEW w \in Callers, RevokingStep(w)
    PROVE  AuthInv' /\ \E s, ts, fs, rows : Revokes(w, s, ts, fs, rows)
<1> DEFINE s == call[w]
           t == s.t
           f == token[t].family
<1>1. /\ s \in Calls /\ CallKnown(s) /\ TokensKnown /\ token \in [RefreshTokens -> TokenRows]
      /\ \A u \in Issued : HasAccount(token[u].e)
  BY DEF AuthInv, AuthTypeOK
<1>2. /\ Away \in Calls /\ CallKnown(Away)
      /\ LiveTokens = {u \in Issued : token[u].state = "live"}
  BY DEF Calls, CallKnown, Away, LiveTokens
<1>3. s.pc \in {"rotate", "reuse", "logout"} => t \in Issued
  BY <1>1 DEF CallKnown
<1>4. ASSUME NEW c, NEW ts, NEW fs, NEW rows, Revokes(w, c, ts, fs, rows),
             c # Away => HasAccount(c.e), CallKnown(c)
      PROVE  AuthInv'
  BY <1>4, AuthRevokes DEF Revokes
<1>5. CASE revokeFamily(w)
  <2> DEFINE rows == TokensOf(LiveIn(f), {f})
  <2>1. /\ s.pc = "reuse" /\ token' = Revoked(LiveIn(f)) /\ ended' = ended \cup {f}
        /\ Store(w, Away, rows) /\ UNCHANGED <<password, login, link>>
    BY <1>5 DEF revokeFamily
  <2>2. /\ LiveIn(f) \subseteq Issued
        /\ \A u \in LiveIn(f) : <<"token", u>> \in rows
        /\ <<"session", f>> \in rows
        /\ \A u \in LiveTokens : token[u].family \in {f} => u \in LiveIn(f)
    BY DEF TokensOf, LiveIn, LiveTokens
  <2>3. Revokes(w, Away, LiveIn(f), {f}, rows)
    BY <1>2, <1>3, <2>1, <2>2 DEF Revokes
  <2> QED
    BY <1>2, <1>4, <2>3
<1>6. CASE rotate(w)
  <2> DEFINE rows == TokensOf({t}, {})
             c == Successor(t)
  <2>1. /\ s.pc = "rotate" /\ token' = Revoked({t})
        /\ Store(w, c, rows) /\ UNCHANGED <<password, login, link, ended>>
    BY <1>6 DEF rotate, Successor
  <2>2. t \in Issued /\ <<"token", t>> \in rows /\ ended' = ended \cup {}
    BY <1>3, <2>1 DEF TokensOf
  <2>3. /\ token[t].e \in Emails /\ HasAccount(token[t].e) /\ token[t].opened \in Nat
        /\ token[t].family \in RefreshTokens
    BY <1>1, <2>2, TokenFields
  <2>4. c \in Calls /\ c.e = token[t].e /\ CallKnown(c)
    BY <2>2, <2>3, CallsMade DEF Successor, CallKnown
  <2>5. Revokes(w, c, {t}, {}, rows)
    BY <2>1, <2>2, <2>4 DEF Revokes
  <2> QED
    BY <1>4, <2>3, <2>4, <2>5
<1>7. CASE logout(w)
  <2> DEFINE rows == TokensOf({t}, {f})
  <2>1. /\ s.pc = "logout" /\ token' = Revoked({t}) /\ ended' = ended \cup {f}
        /\ Store(w, Away, rows) /\ UNCHANGED <<password, login, link>>
    BY <1>7 DEF logout
  <2>2. /\ t \in Issued /\ <<"token", t>> \in rows /\ <<"session", f>> \in rows
    BY <1>3, <2>1 DEF TokensOf
  <2>3. (SessionsTrue /\ CallTruth(s)) => \A u \in LiveTokens : token[u].family \in {f} => u \in {t}
    BY <1>2, <2>1, <2>2 DEF SessionsTrue, CallTruth
  <2>4. Revokes(w, Away, {t}, {f}, rows)
    BY <1>2, <2>1, <2>2, <2>3 DEF Revokes
  <2> QED
    BY <1>2, <1>4, <2>4
<1>8. CASE revokeAllForUser(w)
  <2> DEFINE e == s.e
             rows == TokensOf(LiveOf(e), Families(e))
  <2>1. /\ s.pc \in {"revokeAll", "revokeRest"}
        /\ token' = Revoked(LiveOf(e)) /\ ended' = ended \cup Families(e)
        /\ Store(w, Away, rows) /\ UNCHANGED <<password, login, link>>
    BY <1>8 DEF revokeAllForUser
  <2>2. /\ LiveOf(e) \subseteq Issued
        /\ \A u \in LiveOf(e) : <<"token", u>> \in rows
        /\ \A g \in Families(e) : <<"session", g>> \in rows
        /\ \A g \in Families(e) : \E u \in Issued : token[u].e = e /\ token[u].family = g
        /\ \A u \in Issued : token[u].e = e => token[u].family \in Families(e)
    BY DEF TokensOf, LiveOf, LiveTokens, Families
  <2>3. \A u \in LiveTokens : token[u].family \in Families(e) => u \in LiveOf(e)
    BY <1>1, <1>2, <2>2 DEF TokensKnown, LiveOf
  <2>4. Revokes(w, Away, LiveOf(e), Families(e), rows)
    BY <1>2, <2>1, <2>2, <2>3 DEF Revokes
  <2> QED
    BY <1>2, <1>4, <2>4
<1> QED
  BY <1>5, <1>6, <1>7, <1>8 DEF RevokingStep

\* Of one that issues a token: the first of a session or its next.
IssuedBy(s, t) == TokenRow("live", s.e, IF s.family = NoFamily THEN t ELSE s.family, s.opened)

LEMMA WritesToken ==
    ASSUME AuthInv, UNCHANGED account, NEW w \in Callers, createTokenPair(w)
    PROVE  /\ AuthInv'
           /\ call[w].pc = "issue"
           /\ \E t \in RefreshTokens : /\ token[t].state = "new"
                                       /\ token'[t] = IssuedBy(call[w], t)
                                       /\ \A u \in RefreshTokens \ {t} : token'[u] = token[u]
           /\ UNCHANGED <<password, ended>>
           /\ Store(w, Away, {})
<1> DEFINE s == call[w]
           t == CHOOSE u \in Unissued : TRUE
           f == IF s.family = NoFamily THEN t ELSE s.family
<1>1. /\ s.pc = "issue" /\ t \in Unissued
      /\ token' = [token EXCEPT ![t] = IssuedBy(s, t)]
      /\ Store(w, Away, {})
      /\ UNCHANGED <<password, login, link, ended>>
  BY DEF createTokenPair, IssuedBy, TokenRow
<1>2. /\ s \in Calls /\ CallKnown(s) /\ TokensKnown /\ token \in [RefreshTokens -> TokenRows]
      /\ \A u \in Issued : HasAccount(token[u].e)
      /\ call \in [Callers -> Calls]
      /\ \A v \in Calling : HasAccount(call[v].e)
      /\ \A v \in Callers : CallKnown(call[v])
  BY DEF AuthInv, AuthTypeOK
<1>3. /\ t \in RefreshTokens /\ token[t].state = "new" /\ t \notin Issued
      /\ s.e \in Emails /\ HasAccount(s.e) /\ s.opened \in Nat /\ f \in RefreshTokens
  <2>1. t \in RefreshTokens /\ token[t].state = "new" /\ t \notin Issued
    BY <1>1 DEF Unissued, Issued
  <2>2. /\ s.e \in Emails /\ HasAccount(s.e) /\ s.opened \in Nat
        /\ s.family \in RefreshTokens \cup {NoFamily}
    BY <1>1, <1>2, CallFields DEF Calling, Away
  <2> QED
    BY <2>1, <2>2
<1>4. IssuedBy(s, t) = TokenRow("live", s.e, f, s.opened)
  BY DEF IssuedBy
<1>5. IssuedBy(s, t) \in TokenRows /\ IssuedBy(s, t).state = "live" /\ IssuedBy(s, t).e = s.e
      /\ IssuedBy(s, t).family = f
  <2>1. TokenRow("live", s.e, f, s.opened) \in TokenRows
    BY <1>3, TokensMade
  <2>2. TokenRow("live", s.e, f, s.opened)
        = [state |-> "live", e |-> s.e, family |-> f, opened |-> s.opened]
    BY DEF TokenRow
  <2> HIDE DEF f, s, t
  <2>3. /\ TokenRow("live", s.e, f, s.opened).state = "live"
        /\ TokenRow("live", s.e, f, s.opened).e = s.e
        /\ TokenRow("live", s.e, f, s.opened).family = f
    BY <2>2
  <2> QED
    BY <1>4, <2>1, <2>3
<1> HIDE DEF t, f
<1>6. /\ token' \in [RefreshTokens -> TokenRows]
      /\ token'[t] = IssuedBy(s, t) /\ \A u \in RefreshTokens \ {t} : token'[u] = token[u]
  BY <1>1, <1>2, <1>3, <1>5
<1>7. Issued' = Issued \cup {t}
  BY <1>3, <1>5, <1>6 DEF Issued
<1>8. /\ call' = [call EXCEPT ![w] = Away] /\ call' \in [Callers -> Calls]
      /\ call'[w] = Away /\ \A v \in Callers \ {w} : call'[v] = call[v]
      /\ outdated' \subseteq Callers /\ staleCall' \in BOOLEAN
      /\ UNCHANGED <<cutOff, calls>>
  BY <1>1, StoreTyped, CallsMade, <1>3
<1>9. \A u \in Issued : u # t /\ token'[u] = token[u]
  BY <1>3, <1>6 DEF Issued
<1>10. \A u \in Issued : token[u].family = f => token[u].e = s.e
  <2>1. CASE s.family = NoFamily
    BY <1>2, <1>3, <2>1 DEF TokensKnown, f
  <2>2. CASE s.family # NoFamily
    <3>1. PICK u \in Issued : token[u].family = s.family /\ token[u].e = s.e
      BY <1>1, <1>2, <2>2 DEF CallKnown
    <3> QED
      BY <1>2, <2>2, <3>1 DEF TokensKnown, f
  <2> QED
    BY <2>1, <2>2
<1>11. token'[f].state # "new"
  <2>1. CASE s.family = NoFamily
    BY <1>5, <1>6, <2>1 DEF f
  <2>2. CASE s.family # NoFamily
    <3>1. PICK u \in Issued : token[u].family = s.family
      BY <1>1, <1>2, <2>2 DEF CallKnown
    <3>2. token[f].state # "new" /\ f # t
      BY <1>2, <1>3, <2>2, <3>1 DEF TokensKnown, f
    <3> QED
      BY <1>3, <1>6, <3>2
  <2> QED
    BY <2>1, <2>2
<1>12. TokensKnown'
  <2>1. \A g \in RefreshTokens : token[g].state # "new" => token'[g].state # "new"
    BY <1>3, <1>6
  <2>2. \A u \in Issued : token[u].family \in RefreshTokens
    BY <1>2, TokenFields
  <2>3. \A u \in Issued' : token'[token'[u].family].state # "new"
    <3>1. token'[token'[t].family].state # "new"
      BY <1>5, <1>6, <1>11
    <3>2. \A u \in Issued : token'[token'[u].family].state # "new"
      BY <1>2, <1>9, <2>1, <2>2 DEF TokensKnown
    <3> QED
      BY <1>7, <3>1, <3>2
  <2>4. \A u, v \in Issued' : token'[u].family = token'[v].family => token'[u].e = token'[v].e
    <3>1. token'[t].family = f /\ token'[t].e = s.e
      BY <1>5, <1>6
    <3> QED
      BY <1>2, <1>7, <1>9, <1>10, <3>1 DEF TokensKnown
  <2>5. \A g \in ended' : token'[g].state # "new"
    BY <1>1, <1>2, <2>1 DEF TokensKnown, AuthInv, AuthTypeOK
  <2> QED
    BY <2>3, <2>4, <2>5 DEF TokensKnown
<1>13. \A v \in Callers : CallKnown(call[v])'
  <2> SUFFICES ASSUME NEW v \in Callers PROVE CallKnown(call[v])'
    OBVIOUS
  <2>1. CASE v = w
    BY <1>8, <2>1 DEF CallKnown, Away
  <2>2. CASE v # w
    BY <1>1, <1>2, <1>7, <1>8, <1>9, <2>2 DEF CallKnown, Sent
  <2> QED
    BY <2>1, <2>2
<1>14. \A u \in Issued' : account'[token'[u].e] # NoAccount
  BY <1>2, <1>3, <1>5, <1>6, <1>7, <1>9 DEF HasAccount
<1>15. \A v \in Callers : call'[v] # Away => account'[call'[v].e] # NoAccount
  BY <1>2, <1>8 DEF HasAccount, Calling
<1>16. /\ password' \in [Emails -> Nat] /\ login' \in [Emails -> LoginRows]
       /\ link' \in [ResetLinks -> LinkRows] /\ \A k \in Sent' : account'[link'[k].e] # NoAccount
       /\ ended' \subseteq RefreshTokens /\ cutOff' \in BOOLEAN /\ calls' \in Nat
  BY <1>1, <1>8 DEF AuthInv, AuthTypeOK, Sent, HasAccount
<1>17. AuthInv'
  BY <1>6, <1>8, <1>12, <1>13, <1>14, <1>15, <1>16 DEF AuthInv, AuthTypeOK, HasAccount, Calling
<1> QED
  BY <1>1, <1>3, <1>6, <1>17


\* Of no call: a lock or a link that expires, a call that dies.
LEMMA ExpiresQuietly ==
    ASSUME AuthInv, UNCHANGED account, LockExpires \/ LinkExpires
    PROVE  AuthInv' /\ UNCHANGED <<password, token, call, authHistory>>
<1>1. /\ password \in [Emails -> Nat] /\ login \in [Emails -> LoginRows]
      /\ link \in [ResetLinks -> LinkRows] /\ \A l \in Sent : HasAccount(link[l].e)
      /\ UNCHANGED <<password, token, call, ended, outdated, staleCall, cutOff, calls>>
  BY DEF AuthInv, AuthTypeOK, LockExpires, LinkExpires, authHistory
<1>2. login' \in [Emails -> LoginRows]
  <2>1. CASE LockExpires
    <3>1. PICK e \in Emails : login' = [login EXCEPT ![e].locked = FALSE]
      BY <2>1 DEF LockExpires
    <3>2. [login[e] EXCEPT !.locked = FALSE] \in LoginRows
      BY <1>1 DEF LoginRows
    <3> QED
      BY <1>1, <3>1, <3>2
  <2>2. CASE LinkExpires
    BY <1>1, <2>2 DEF LinkExpires
  <2> QED
    BY <2>1, <2>2
<1>3. /\ link' \in [ResetLinks -> LinkRows] /\ \A l \in Sent' : HasAccount(link'[l].e)
      /\ \A l \in Sent : l \in Sent' /\ link'[l].e = link[l].e
  <2>1. CASE LockExpires
    BY <1>1, <2>1 DEF LockExpires, Sent
  <2>2. CASE LinkExpires
    <3>1. PICK k \in Usable : link' = [link EXCEPT ![k].state = "used"]
      BY <2>2 DEF LinkExpires
    <3>2. k \in ResetLinks /\ k \in Sent /\ link[k] \in LinkRows /\ link[k].state = "open"
      BY <1>1 DEF Usable, Sent
    <3>3. PICK e \in Emails : link[k] = [state |-> "open", e |-> e]
      BY <3>2 DEF LinkRows
    <3>4. [link[k] EXCEPT !.state = "used"] = [state |-> "used", e |-> e] /\ link[k].e = e
      BY <3>3
    <3>5. link' = [link EXCEPT ![k] = [state |-> "used", e |-> e]]
      BY <3>1, <3>4
    <3>6. link'[k] = [state |-> "used", e |-> e] /\ \A l \in ResetLinks \ {k} : link'[l] = link[l]
      BY <1>1, <3>2, <3>5
    <3>7. link'[k].state = "used" /\ link'[k].e = e
      BY <3>6
    <3>8. link' \in [ResetLinks -> LinkRows]
      BY <1>1, <3>2, <3>5, TokensMade
    <3> QED
      BY <1>1, <3>2, <3>4, <3>6, <3>7, <3>8 DEF Sent
  <2> QED
    BY <2>1, <2>2
<1>4. TokensKnown' /\ Issued' = Issued
  BY <1>1 DEF AuthInv, TokensKnown, Issued
<1>5. \A v \in Callers : CallKnown(call[v])'
  BY <1>1, <1>3, <1>4 DEF AuthInv, CallKnown
<1>6. /\ \A t \in Issued' : account'[token'[t].e] # NoAccount
      /\ \A v \in Callers : call'[v] # Away => account'[call'[v].e] # NoAccount
      /\ \A l \in Sent' : account'[link'[l].e] # NoAccount
  BY <1>1, <1>3, <1>4 DEF AuthInv, AuthTypeOK, HasAccount, Calling
<1> QED
  BY <1>1, <1>2, <1>3, <1>4, <1>5, <1>6 DEF AuthInv, AuthTypeOK, HasAccount, Calling, authHistory

LEMMA DiesQuietly ==
    ASSUME AuthInv, UNCHANGED account, NEW w \in Callers, CallDies(w)
    PROVE  /\ AuthInv' /\ UNCHANGED <<password, token, ended, staleCall>>
           /\ call' = [call EXCEPT ![w] = Away]
           /\ cutOff' = (cutOff \/ call[w].pc = "revokeRest")
           /\ outdated' = outdated \ {w}
<1>1. /\ UNCHANGED <<password, login, token, link, ended, staleCall, calls>>
      /\ call' = [call EXCEPT ![w] = Away]
      /\ cutOff' = (cutOff \/ call[w].pc = "revokeRest")
      /\ outdated' = outdated \ {w}
  BY DEF CallDies, authTables
<1>2. Away \in Calls /\ CallKnown(Away)
  BY DEF Calls, CallKnown, Away
<1>3. /\ password' \in [Emails -> Nat] /\ login' \in [Emails -> LoginRows]
      /\ link' \in [ResetLinks -> LinkRows] /\ \A k \in Sent' : HasAccount(link'[k].e)
      /\ \A k \in Sent : k \in Sent' /\ link'[k].e = link[k].e
      /\ outdated' \subseteq Callers /\ staleCall' \in BOOLEAN /\ calls' \in Nat
  BY <1>1 DEF AuthInv, AuthTypeOK, Sent
<1>4. cutOff' \in BOOLEAN
  <2>1. cutOff \in BOOLEAN
    BY DEF AuthInv, AuthTypeOK
  <2> QED
    BY <1>1, <2>1
<1>5. AuthInv'
  BY <1>1, <1>2, <1>3, <1>4, AuthStays
<1> QED
  BY <1>1, <1>5

(***************************************************************************)
(* Accounts that go take their tokens, links and calls with them.          *)
(***************************************************************************)
Kept(e) == account[e] # NoAccount => account'[e] # NoAccount

LEMMA GoneKept ==
    ASSUME NEW e \in Emails, e \notin Gone PROVE Kept(e)
BY DEF Kept, Gone

LEMMA WritesGone ==
    ASSUME AuthInv, AccountsGo(Gone)
    PROVE  /\ AuthInv' /\ UNCHANGED <<password, ended, staleCall, cutOff>>
           /\ \A t \in RefreshTokens :
                 IF t \in Issued /\ token[t].e \in Gone THEN token'[t] = Without("gone")
                 ELSE token'[t] = token[t]
           /\ \A v \in Callers : IF call[v] # Away /\ call[v].e \in Gone THEN call'[v] = Away
                                 ELSE call'[v] = call[v] /\ (v \in outdated => v \in outdated')
<1>1. /\ login' = [e \in Emails |-> IF e \in Gone THEN Unblemished ELSE login[e]]
      /\ token' = [t \in RefreshTokens |-> IF t \in Issued /\ token[t].e \in Gone
                                           THEN Without("gone") ELSE token[t]]
      /\ link' = [k \in ResetLinks |-> IF k \in Sent /\ link[k].e \in Gone
                                       THEN Without("gone") ELSE link[k]]
      /\ call' = [w \in Callers |-> IF w \in Calling /\ call[w].e \in Gone THEN Away ELSE call[w]]
      /\ outdated' = {w \in outdated : ~(w \in Calling /\ call[w].e \in Gone)}
      /\ UNCHANGED <<password, ended, staleCall, cutOff, calls>>
  BY DEF AccountsGo
<1>2. /\ password \in [Emails -> Nat] /\ login \in [Emails -> LoginRows]
      /\ token \in [RefreshTokens -> TokenRows] /\ link \in [ResetLinks -> LinkRows]
      /\ call \in [Callers -> Calls]
      /\ ended \subseteq RefreshTokens /\ outdated \subseteq Callers
      /\ staleCall \in BOOLEAN /\ cutOff \in BOOLEAN /\ calls \in Nat
      /\ \A t \in Issued : HasAccount(token[t].e)
      /\ \A k \in Sent : HasAccount(link[k].e)
      /\ \A w \in Calling : HasAccount(call[w].e)
      /\ TokensKnown /\ \A v \in Callers : CallKnown(call[v])
  BY DEF AuthInv, AuthTypeOK
<1>3. /\ \A t \in RefreshTokens :
            IF t \in Issued /\ token[t].e \in Gone THEN token'[t] = Without("gone")
            ELSE token'[t] = token[t]
      /\ \A k \in ResetLinks :
            IF k \in Sent /\ link[k].e \in Gone THEN link'[k] = Without("gone")
            ELSE link'[k] = link[k]
      /\ \A v \in Callers : IF call[v] # Away /\ call[v].e \in Gone THEN call'[v] = Away
                            ELSE call'[v] = call[v] /\ (v \in outdated => v \in outdated')
  BY <1>1 DEF Calling
<1>4. /\ login' \in [Emails -> LoginRows] /\ token' \in [RefreshTokens -> TokenRows]
      /\ link' \in [ResetLinks -> LinkRows] /\ call' \in [Callers -> Calls]
  <2>1. Unblemished \in LoginRows
    BY DEF Unblemished, LoginRows
  <2>2. Away \in Calls
    BY DEF Calls
  <2>3. Without("gone") \in TokenRows /\ Without("gone") \in LinkRows
    BY TokensMade
  <2> QED
    BY <1>1, <1>2, <2>1, <2>2, <2>3
<1>5. Issued' = {t \in Issued : token[t].e \notin Gone}
  BY <1>3, TokensMade DEF Issued
<1>6. Sent' = {k \in Sent : link[k].e \notin Gone}
  <2>1. Without("gone").state = "gone"
    BY TokensMade
  <2> QED
    BY <1>3, <2>1 DEF Sent
<1>7. \A t \in Issued' : token'[t] = token[t]
  BY <1>3, <1>5 DEF Issued
<1>8. \A k \in Sent' : link'[k] = link[k]
  BY <1>3, <1>6 DEF Sent
<1>9. \A t \in Issued' : account'[token'[t].e] # NoAccount
  BY <1>2, <1>5, <1>7, TokenFields, GoneKept DEF HasAccount, Kept
<1>10. \A k \in Sent' : account'[link'[k].e] # NoAccount
  <2> SUFFICES ASSUME NEW k \in Sent' PROVE account'[link[k].e] # NoAccount
    BY <1>8
  <2>1. k \in Sent /\ link[k].e \notin Gone /\ link[k].e \in Emails
    BY <1>2, <1>6 DEF Sent, LinkRows
  <2> QED
    BY <1>2, <2>1, GoneKept DEF HasAccount, Kept
<1>11. \A v \in Callers : call'[v] # Away => account'[call'[v].e] # NoAccount
  <2> SUFFICES ASSUME NEW v \in Callers, call'[v] # Away PROVE account'[call[v].e] # NoAccount
    BY <1>3
  <2>1. call[v] # Away /\ call[v].e \notin Gone /\ call[v].e \in Emails
    BY <1>2, <1>3, CallFields
  <2> QED
    BY <1>2, <2>1, GoneKept DEF HasAccount, Kept, Calling
<1>12. TokensKnown'
  <2>1. Without("gone").state = "gone"
    BY TokensMade
  <2>2. \A f \in RefreshTokens : token[f].state # "new" => token'[f].state # "new"
    BY <1>3, <2>1
  <2>3. \A t \in Issued : token[t].family \in RefreshTokens
    BY <1>2, TokenFields
  <2>4. \A t \in Issued' : token'[token'[t].family].state # "new"
    BY <1>2, <1>5, <1>7, <2>2, <2>3 DEF TokensKnown
  <2>5. \A t, u \in Issued' : token'[t].family = token'[u].family => token'[t].e = token'[u].e
    BY <1>2, <1>5, <1>7 DEF TokensKnown
  <2>6. \A f \in ended' : token'[f].state # "new"
    BY <1>1, <1>2, <2>2 DEF TokensKnown
  <2> QED
    BY <2>4, <2>5, <2>6 DEF TokensKnown
<1>13. \A v \in Callers : CallKnown(call[v])'
  <2> SUFFICES ASSUME NEW v \in Callers PROVE CallKnown(call[v])'
    OBVIOUS
  <2>1. CASE call'[v] = Away
    BY <2>1 DEF CallKnown, Away
  <2>2. CASE call'[v] # Away
    <3>1. call'[v] = call[v] /\ call[v] # Away /\ call[v].e \notin Gone
      BY <1>3, <2>2
    <3> QED
      BY <1>2, <1>5, <1>6, <1>7, <1>8, <3>1 DEF CallKnown
  <2> QED
    BY <2>1, <2>2
<1>14. /\ password' \in [Emails -> Nat] /\ ended' \subseteq RefreshTokens
       /\ outdated' \subseteq Callers
       /\ staleCall' \in BOOLEAN /\ cutOff' \in BOOLEAN /\ calls' \in Nat
  BY <1>1, <1>2
<1>15. AuthInv'
  BY <1>4, <1>9, <1>10, <1>11, <1>12, <1>13, <1>14 DEF AuthInv, AuthTypeOK, HasAccount, Calling
<1> QED
  BY <1>1, <1>3, <1>15

(***************************************************************************)
(* Sessions that ended stay ended.                                         *)
(***************************************************************************)
LEMMA NotOutdated ==
    ASSUME NEW w \in Callers, NEW s, NEW rows, Store(w, s, rows), ~staleCall',
           call \in [Callers -> Calls]
    PROVE  /\ ~staleCall /\ w \notin outdated
           /\ call'[w] = s
           /\ \A v \in Callers \ {w} :
                 /\ call'[v] = call[v]
                 /\ v \notin outdated' => /\ v \notin outdated
                                          /\ call[v] = Away \/ GoesBy(call[v]) \cap rows = {}
<1>1. /\ call' = [call EXCEPT ![w] = s]
      /\ staleCall' = (staleCall \/ w \in outdated)
      /\ outdated' = IF staleCall' THEN {}
                     ELSE (outdated \cup {v \in Calling \ {w} : GoesBy(call[v]) \cap rows # {}})
                          \ (IF s = Away THEN {w} ELSE {})
  BY DEF Store
<1> QED
  BY <1>1 DEF Calling

LEMMA GoesByWhat ==
    ASSUME NEW s
    PROVE  /\ s.pc = "clear" => <<"password", s.e>> \in GoesBy(s)
           /\ s.pc = "issue" => /\ <<"password", s.e>> \in GoesBy(s)
                                /\ <<"session", s.family>> \in GoesBy(s)
           /\ s.pc \in {"rotate", "logout"} => <<"token", s.t>> \in GoesBy(s)
BY DEF GoesBy

\* A step that touches neither tokens nor passwords.
LEMMA TruthStays ==
    ASSUME AuthTrueInv, UNCHANGED <<password, token, ended>>, ~staleCall' => ~staleCall,
           cutOff => cutOff', \A e : Resetting(e) => cutOff' \/ Resetting(e)',
           \A v \in Callers : /\ v \notin outdated' /\ ~staleCall'
                              => \/ v \notin outdated /\ call'[v] = call[v]
                                 \/ ~Renews(call'[v]) /\ CallTruth(call'[v])
    PROVE  AuthTrueInv'
<1> SUFFICES ASSUME ~staleCall' PROVE SessionsTrue' /\ CallsTrue'
  BY DEF AuthTrueInv
<1>1. ~staleCall /\ SessionsTrue /\ CallsTrue
  BY DEF AuthTrueInv
<1>2. LiveTokens' = LiveTokens
  BY DEF LiveTokens, Issued
<1>3. ASSUME NEW e, NEW n, PasswordOf(e, n)
      PROVE  ~cutOff' /\ (\A w \in Callers : call'[w] # [pc |-> "revokeRest", e |-> e])
             => n = password'[e]
  BY <1>3 DEF PasswordOf, Resetting
<1>4. \A e : \A n : PasswordOf(e, n) =>
         (~cutOff' /\ (\A w \in Callers : call'[w] # [pc |-> "revokeRest", e |-> e])
          => n = password'[e])
  BY <1>3
<1>5. SessionsTrue'
  <2>1. \A t \in LiveTokens :
           ~cutOff' /\ (\A w \in Callers : call'[w] # [pc |-> "revokeRest", e |-> token[t].e])
           => token[t].opened = password'[token[t].e]
    BY <1>1, <1>4 DEF SessionsTrue
  <2>2. \A t \in LiveTokens : PasswordOf(token[t].e, token[t].opened)'
    BY <2>1 DEF PasswordOf, Resetting
  <2> QED
    BY <1>1, <1>2, <2>2 DEF SessionsTrue
<1>6. ASSUME NEW v \in Callers, v \notin outdated', CallTruth(call'[v])
      PROVE  CallTruth(call[v])'
  <2>1. Renews(call'[v]) =>
           (~cutOff' /\ (\A w \in Callers : call'[w] # [pc |-> "revokeRest", e |-> call'[v].e])
            => call'[v].opened = password'[call'[v].e])
    BY <1>4, <1>6 DEF CallTruth
  <2>2. Renews(call[v])' => PasswordOf(call[v].e, call[v].opened)'
    BY <2>1 DEF Renews, PasswordOf, Resetting
  <2> QED
    BY <1>2, <1>6, <2>2 DEF CallTruth, Renews
<1>7. \A v \in Callers \ outdated' : CallTruth(call[v])'
  BY <1>1, <1>6 DEF CallsTrue
<1>8. OneRenews'
  <2>1. \A v \in Callers : v \notin outdated' /\ Renews(call'[v])
                          => v \notin outdated /\ call'[v] = call[v]
    OBVIOUS
  <2>2. \A v, w \in Callers \ outdated' :
           (/\ Renews(call'[v]) /\ Renews(call'[w])
            /\ call'[v].family = call'[w].family) => v = w
    BY <1>1, <2>1 DEF CallsTrue, OneRenews
  <2> QED
    BY <2>2 DEF OneRenews, Renews
<1> QED
  BY <1>5, <1>7, <1>8 DEF CallsTrue

LEMMA TruthWhenGone ==
    ASSUME AuthInv, AuthTrueInv, AccountsGo(Gone)
    PROVE  AuthTrueInv'
<1> SUFFICES ASSUME ~staleCall' PROVE SessionsTrue' /\ CallsTrue'
  BY DEF AuthTrueInv
<1>1. /\ UNCHANGED <<password, ended, staleCall, cutOff>>
      /\ \A t \in RefreshTokens :
            IF t \in Issued /\ token[t].e \in Gone THEN token'[t] = Without("gone")
            ELSE token'[t] = token[t]
      /\ \A v \in Callers : IF call[v] # Away /\ call[v].e \in Gone THEN call'[v] = Away
                            ELSE call'[v] = call[v] /\ (v \in outdated => v \in outdated')
  BY WritesGone
<1>2. SessionsTrue /\ CallsTrue
  BY <1>1 DEF AuthTrueInv
<1>3. \A t \in LiveTokens' : t \in LiveTokens /\ token[t].e \notin Gone /\ token'[t] = token[t]
  <2>1. Without("gone").state = "gone"
    BY TokensMade
  <2> QED
    BY <1>1, <2>1 DEF LiveTokens, Issued
<1>4. ASSUME NEW e, e \notin Gone, NEW n, PasswordOf(e, n)
      PROVE  ~cutOff' /\ (\A w \in Callers : call'[w] # [pc |-> "revokeRest", e |-> e])
             => n = password'[e]
  <2>1. \A w \in Callers : call[w] = [pc |-> "revokeRest", e |-> e] => call'[w] = call[w]
    <3>1. [pc |-> "revokeRest", e |-> e].e = e
      OBVIOUS
    <3> QED
      BY <1>1, <1>4, <3>1
  <2> QED
    BY <1>1, <1>4, <2>1 DEF PasswordOf, Resetting
<1>5. \A e : e \notin Gone => \A n : PasswordOf(e, n) =>
         (~cutOff' /\ (\A w \in Callers : call'[w] # [pc |-> "revokeRest", e |-> e])
          => n = password'[e])
  BY <1>4
<1>6. SessionsTrue'
  <2>1. \A t \in LiveTokens' :
           ~cutOff' /\ (\A w \in Callers : call'[w] # [pc |-> "revokeRest", e |-> token[t].e])
           => token[t].opened = password'[token[t].e]
    BY <1>2, <1>3, <1>5 DEF SessionsTrue
  <2>2. \A t \in LiveTokens' : PasswordOf(token[t].e, token[t].opened)'
    BY <1>3, <2>1 DEF PasswordOf, Resetting
  <2>3. /\ \A t \in LiveTokens' : token'[t].family \notin ended'
        /\ \A t, u \in LiveTokens' : token'[t].family = token'[u].family => t = u
    BY <1>1, <1>2, <1>3 DEF SessionsTrue
  <2> QED
    BY <2>2, <2>3 DEF SessionsTrue
<1>7. ASSUME NEW v \in Callers, v \notin outdated' PROVE CallTruth(call[v])'
  <2>1. CASE call'[v] = Away
    BY <2>1 DEF CallTruth, Renews, Away
  <2>2. CASE call'[v] # Away
    <3>1. /\ call'[v] = call[v] /\ call[v].e \notin Gone /\ call[v] # Away /\ v \notin outdated
      BY <1>1, <1>7, <2>2
    <3>2. CallTruth(call[v]) /\ CallKnown(call[v])
      BY <1>2, <3>1 DEF CallsTrue, AuthInv
    <3>3. Renews(call[v]) =>
             (~cutOff' /\ (\A w \in Callers : call'[w] # [pc |-> "revokeRest", e |-> call[v].e])
              => call[v].opened = password'[call[v].e])
      BY <1>5, <3>1, <3>2 DEF CallTruth
    <3>4. Renews(call[v])' => PasswordOf(call[v].e, call[v].opened)'
      BY <3>1, <3>3 DEF Renews, PasswordOf, Resetting
    <3>5. call[v].pc \in {"rotate", "logout"} => token'[call[v].t].state = "live"
      <4>1. call[v].pc \in {"rotate", "logout"} => /\ call[v].t \in Issued
                                                   /\ token[call[v].t].e \notin Gone
        BY <3>1, <3>2 DEF CallKnown
      <4> QED
        BY <1>1, <3>2, <4>1 DEF CallTruth, Issued
    <3> QED
      BY <1>1, <1>3, <3>1, <3>2, <3>4, <3>5 DEF CallTruth, Renews
  <2> QED
    BY <2>1, <2>2
<1>8. OneRenews'
  <2>1. \A v \in Callers : v \notin outdated' /\ Renews(call'[v])
                          => v \notin outdated /\ call'[v] = call[v]
    BY <1>1 DEF Renews, Away
  <2>2. \A v, w \in Callers \ outdated' :
           (/\ Renews(call'[v]) /\ Renews(call'[w])
            /\ call'[v].family = call'[w].family) => v = w
    BY <1>2, <2>1 DEF CallsTrue, OneRenews
  <2> QED
    BY <2>2 DEF OneRenews, Renews
<1> QED
  BY <1>6, <1>7, <1>8 DEF CallsTrue

LEMMA TruthOfPasswords ==
    ASSUME AuthInv, AuthTrueInv, UNCHANGED account, NEW w \in Callers, resetPassword(w)
    PROVE  AuthTrueInv'
<1> SUFFICES ASSUME ~staleCall' PROVE SessionsTrue' /\ CallsTrue'
  BY DEF AuthTrueInv
<1> DEFINE e == call[w].e
           c == [pc |-> "revokeRest", e |-> e]
<1>1. PICK rows : <<"password", e>> \in rows /\ Store(w, c, rows)
  BY WritesPassword
<1>2. /\ call[w].pc = "reset" /\ e \in Emails /\ UNCHANGED <<token, ended>>
      /\ password' = [password EXCEPT ![e] = @ + 1]
      /\ call \in [Callers -> Calls] /\ password \in [Emails -> Nat]
  BY WritesPassword DEF AuthInv, AuthTypeOK
<1>3. /\ ~staleCall /\ w \notin outdated
      /\ call'[w] = c
      /\ \A v \in Callers \ {w} :
            /\ call'[v] = call[v]
            /\ v \notin outdated' => /\ v \notin outdated
                                     /\ call[v] = Away \/ GoesBy(call[v]) \cap rows = {}
      /\ UNCHANGED cutOff
  <2>1. UNCHANGED cutOff
    BY <1>1 DEF Store
  <2> HIDE DEF c
  <2> QED
    BY <1>1, <1>2, <2>1, NotOutdated
<1>4. SessionsTrue /\ CallsTrue /\ LiveTokens' = LiveTokens
  BY <1>2, <1>3 DEF AuthTrueInv, LiveTokens, Issued
<1>5. \A f \in Emails : f # e => password'[f] = password[f]
  BY <1>2
<1> HIDE DEF e
<1>6. ASSUME NEW f \in Emails, NEW n, PasswordOf(f, n)
      PROVE  ~cutOff' /\ (\A v \in Callers : call'[v] # [pc |-> "revokeRest", e |-> f])
             => n = password'[f]
  <2>1. CASE f = e
    BY <1>3, <2>1
  <2>2. CASE f # e
    <3>1. \A v \in Callers : call[v] = [pc |-> "revokeRest", e |-> f] => call'[v] = call[v]
      <4>1. call[w] # [pc |-> "revokeRest", e |-> f]
        BY <1>2
      <4> QED
        BY <1>3, <4>1
    <3> QED
      BY <1>3, <1>5, <1>6, <2>2, <3>1 DEF PasswordOf, Resetting
  <2> QED
    BY <2>1, <2>2
<1>7. \A f \in Emails : \A n : PasswordOf(f, n) =>
         (~cutOff' /\ (\A v \in Callers : call'[v] # [pc |-> "revokeRest", e |-> f])
          => n = password'[f])
  BY <1>6
<1>8. SessionsTrue'
  <2>1. \A t \in LiveTokens : token[t].e \in Emails
    BY TokenFields DEF AuthInv, AuthTypeOK, LiveTokens
  <2>2. \A t \in LiveTokens :
           ~cutOff' /\ (\A v \in Callers : call'[v] # [pc |-> "revokeRest", e |-> token[t].e])
           => token[t].opened = password'[token[t].e]
    BY <1>4, <1>7, <2>1 DEF SessionsTrue
  <2>3. \A t \in LiveTokens' : PasswordOf(token[t].e, token[t].opened)'
    BY <1>2, <1>4, <2>2 DEF PasswordOf, Resetting
  <2> QED
    BY <1>2, <1>4, <2>3 DEF SessionsTrue
<1>9. ASSUME NEW v \in Callers, v \notin outdated' PROVE CallTruth(call[v])'
  <2>1. CASE v = w
    BY <1>3, <2>1 DEF CallTruth, Renews
  <2>2. CASE v # w /\ call[v] = Away
    BY <1>3, <2>2 DEF CallTruth, Renews, Away
  <2>3. CASE v # w /\ call[v] # Away
    <3>1. /\ call'[v] = call[v] /\ v \notin outdated /\ GoesBy(call[v]) \cap rows = {}
      BY <1>3, <1>9, <2>3
    <3>2. CallTruth(call[v]) /\ call[v].e \in Emails
      BY <1>2, <1>4, <2>3, <3>1, CallFields DEF CallsTrue
    <3>3. call[v].pc \in {"clear", "issue"} => call[v].e # e
      BY <1>1, <3>1, GoesByWhat
    <3>4. call[v].pc \in {"clear", "issue"} => password'[call[v].e] = password[call[v].e]
      BY <1>5, <3>2, <3>3
    <3>5. Renews(call[v]) =>
             (~cutOff' /\ (\A u \in Callers : call'[u] # [pc |-> "revokeRest", e |-> call[v].e])
              => call[v].opened = password'[call[v].e])
      BY <1>7, <3>2 DEF CallTruth
    <3>6. Renews(call[v])' => PasswordOf(call[v].e, call[v].opened)'
      BY <3>1, <3>5 DEF Renews, PasswordOf, Resetting
    <3> QED
      BY <1>2, <1>4, <3>1, <3>2, <3>4, <3>6 DEF CallTruth, Renews
  <2> QED
    BY <2>1, <2>2, <2>3
<1>10. OneRenews'
  <2>1. \A v \in Callers : v \notin outdated' /\ Renews(call'[v])
                          => v \notin outdated /\ call'[v] = call[v]
    BY <1>3 DEF Renews
  <2>2. \A v, u \in Callers \ outdated' :
           (/\ Renews(call'[v]) /\ Renews(call'[u])
            /\ call'[v].family = call'[u].family) => v = u
    BY <1>4, <2>1 DEF CallsTrue, OneRenews
  <2> QED
    BY <2>2 DEF OneRenews, Renews
<1> QED
  BY <1>8, <1>9, <1>10 DEF CallsTrue

LEMMA TruthOfRevocations ==
    ASSUME AuthInv, AuthTrueInv, UNCHANGED account, NEW w \in Callers, RevokingStep(w)
    PROVE  AuthTrueInv'
<1> SUFFICES ASSUME ~staleCall' PROVE SessionsTrue' /\ CallsTrue'
  BY DEF AuthTrueInv
<1>1. PICK s, ts, fs, rows : Revokes(w, s, ts, fs, rows)
  BY WritesRevoked
<1>2. /\ ts \subseteq Issued /\ token' = Revoked(ts) /\ ended' = ended \cup fs
      /\ UNCHANGED <<password, cutOff>>
      /\ s \in Calls /\ Store(w, s, rows)
      /\ call \in [Callers -> Calls] /\ token \in [RefreshTokens -> TokenRows]
  BY <1>1 DEF Revokes, AuthInv, AuthTypeOK, Store
<1>3. /\ ~staleCall /\ w \notin outdated
      /\ call'[w] = s
      /\ \A v \in Callers \ {w} :
            /\ call'[v] = call[v]
            /\ v \notin outdated' => /\ v \notin outdated
                                     /\ call[v] = Away \/ GoesBy(call[v]) \cap rows = {}
  BY <1>2, NotOutdated
<1>4. SessionsTrue /\ CallsTrue /\ CallTruth(call[w])
  BY <1>3 DEF AuthTrueInv, CallsTrue
<1>5. \A t \in LiveTokens' : t \in LiveTokens /\ t \notin ts /\ token'[t] = token[t]
  <2>1. /\ Issued' = Issued
        /\ \A t \in Issued : token'[t].state = IF t \in ts THEN "revoked" ELSE token[t].state
        /\ \A t \in RefreshTokens : t \notin ts => token'[t] = token[t]
    BY <1>2, RevokedTokens
  <2> QED
    BY <2>1 DEF LiveTokens, Issued
<1>6. ASSUME NEW e, NEW n, PasswordOf(e, n), \/ call[w].pc # "revokeRest" \/ call[w].e # e
      PROVE  ~cutOff' /\ (\A v \in Callers : call'[v] # [pc |-> "revokeRest", e |-> e])
             => n = password'[e]
  <2>1. \A v \in Callers : call[v] = [pc |-> "revokeRest", e |-> e] => call'[v] = call[v]
    <3>1. call[w] # [pc |-> "revokeRest", e |-> e]
      BY <1>6
    <3> QED
      BY <1>3, <3>1
  <2> QED
    BY <1>2, <1>6, <2>1 DEF PasswordOf, Resetting
<1>7. \A e : (call[w].pc # "revokeRest" \/ call[w].e # e) => \A n : PasswordOf(e, n) =>
         (~cutOff' /\ (\A v \in Callers : call'[v] # [pc |-> "revokeRest", e |-> e])
          => n = password'[e])
  BY <1>6
<1>8. \A t \in LiveTokens' : token[t].family \notin fs
  BY <1>1, <1>4, <1>5 DEF Revokes
<1>9. SessionsTrue'
  <2>1. \A t \in LiveTokens' :
           ~cutOff' /\ (\A v \in Callers : call'[v] # [pc |-> "revokeRest", e |-> token[t].e])
           => token[t].opened = password'[token[t].e]
    <3> SUFFICES ASSUME NEW t \in LiveTokens'
                 PROVE  ~cutOff' /\ (\A v \in Callers : call'[v] # [pc |-> "revokeRest", e |-> token[t].e])
                        => token[t].opened = password'[token[t].e]
      OBVIOUS
    <3>1. t \in Issued /\ t \in LiveTokens
      BY <1>5 DEF LiveTokens
    <3>2. call[w].pc # "revokeRest" \/ call[w].e # token[t].e
      BY <1>1, <1>8, <3>1 DEF Revokes
    <3>3. PasswordOf(token[t].e, token[t].opened)
      BY <1>4, <3>1 DEF SessionsTrue
    <3> QED
      BY <1>7, <3>2, <3>3
  <2>2. \A t \in LiveTokens' : PasswordOf(token[t].e, token[t].opened)'
    BY <1>5, <2>1 DEF PasswordOf, Resetting
  <2>3. /\ \A t \in LiveTokens' : token'[t].family \notin ended'
        /\ \A t, u \in LiveTokens' : token'[t].family = token'[u].family => t = u
    BY <1>2, <1>4, <1>5, <1>8 DEF SessionsTrue
  <2> QED
    BY <2>2, <2>3 DEF SessionsTrue
\* Whoever renews a session that goes on keeps its password.
<1>10. ASSUME NEW v \in Callers \ {w}, v \notin outdated' PROVE CallTruth(call[v])'
  <2>1. CASE call[v] = Away
    BY <1>3, <2>1 DEF CallTruth, Renews, Away
  <2>2. CASE call[v] # Away
    <3>1. /\ call'[v] = call[v] /\ v \notin outdated /\ GoesBy(call[v]) \cap rows = {}
      BY <1>3, <1>10, <2>2
    <3>2. CallTruth(call[v]) /\ CallKnown(call[v])
      BY <1>4, <3>1 DEF CallsTrue, AuthInv
    <3>3. call[v].pc = "issue" => call[v].family \notin fs
      BY <1>1, <3>1, GoesByWhat DEF Revokes
    <3>4. Renews(call[v]) => call[w].pc # "revokeRest" \/ call[w].e # call[v].e
      BY <1>1, <3>2, <3>3 DEF Revokes, CallKnown, Renews
    <3>5. Renews(call[v]) =>
             (~cutOff' /\ (\A u \in Callers : call'[u] # [pc |-> "revokeRest", e |-> call[v].e])
              => call[v].opened = password'[call[v].e])
      BY <1>7, <3>2, <3>4 DEF CallTruth
    <3>6. Renews(call[v])' => PasswordOf(call[v].e, call[v].opened)'
      BY <3>1, <3>5 DEF Renews, PasswordOf, Resetting
    <3>7. call[v].pc \in {"rotate", "logout"} => token'[call[v].t].state = "live"
      <4>1. call[v].pc \in {"rotate", "logout"} => call[v].t \in Issued /\ call[v].t \notin ts
        BY <1>1, <3>1, <3>2, GoesByWhat DEF CallKnown, Revokes
      <4>2. \A t \in Issued : t \notin ts => token'[t] = token[t]
        BY <1>2, RevokedTokens DEF Issued
      <4> QED
        BY <3>2, <4>1, <4>2 DEF CallTruth
    <3> QED
      BY <1>2, <1>5, <3>1, <3>2, <3>3, <3>6, <3>7 DEF CallTruth, Renews
  <2> QED
    BY <2>1, <2>2
<1>11. CASE s = Away
  <2>1. CallTruth(call[w])'
    BY <1>3, <1>11 DEF CallTruth, Renews, Away
  <2>2. \A v \in Callers : v \notin outdated' /\ Renews(call'[v])
                          => v \notin outdated /\ call'[v] = call[v]
    BY <1>3, <1>11 DEF Renews, Away
  <2>3. \A v, u \in Callers \ outdated' :
           (/\ Renews(call'[v]) /\ Renews(call'[u])
            /\ call'[v].family = call'[u].family) => v = u
    BY <1>4, <2>2 DEF CallsTrue, OneRenews
  <2>4. OneRenews'
    BY <2>3 DEF OneRenews, Renews
  <2> QED
    BY <1>9, <1>10, <2>1, <2>4 DEF CallsTrue
<1>12. CASE s # Away
  <2> DEFINE t == call[w].t
  <2>1. call[w].pc = "rotate" /\ s = Successor(t) /\ ts = {t} /\ fs = {}
    BY <1>1, <1>12 DEF Revokes
  <2>2. t \in LiveTokens /\ t \in Issued
    BY <1>4, <2>1 DEF CallTruth, AuthInv, CallKnown, LiveTokens
  <2>3. /\ s.pc = "issue" /\ s.e = token[t].e /\ s.family = token[t].family
        /\ s.opened = token[t].opened /\ s.family # NoFamily
    BY <1>2, <2>1, <2>2, TokenFields DEF Successor
  <2> HIDE DEF t
  <2>4. /\ s.family \notin ended' /\ PasswordOf(s.e, s.opened)
        /\ \A u \in LiveTokens' : token'[u].family # s.family
    <3>1. \A u \in LiveTokens' : u # t
      BY <1>5, <2>1
    <3> QED
      BY <1>2, <1>4, <1>5, <2>1, <2>2, <2>3, <3>1 DEF SessionsTrue
  <2>5. ~cutOff' /\ (\A u \in Callers : call'[u] # [pc |-> "revokeRest", e |-> s.e])
        => s.opened = password'[s.e]
    BY <1>7, <2>1, <2>4
  <2>6. PasswordOf(call[w].e, call[w].opened)'
    BY <1>3, <2>5 DEF PasswordOf, Resetting
  <2>7. CallTruth(call[w])'
    BY <1>3, <2>3, <2>4, <2>6 DEF CallTruth, Renews
  <2>8. \A v \in Callers \ {w} : v \notin outdated' /\ Renews(call'[v])
                          => /\ v \notin outdated /\ call'[v] = call[v]
                             /\ call[v].family # s.family
    BY <1>3, <1>4, <2>2, <2>3 DEF CallsTrue, CallTruth
  <2>9. \A v, u \in Callers \ outdated' :
           (/\ Renews(call'[v]) /\ Renews(call'[u])
            /\ call'[v].family = call'[u].family) => v = u
    BY <1>3, <1>4, <2>8 DEF CallsTrue, OneRenews
  <2>10. OneRenews'
    BY <2>9 DEF OneRenews, Renews
  <2> QED
    BY <1>9, <1>10, <2>7, <2>10 DEF CallsTrue
<1> QED
  BY <1>11, <1>12

LEMMA TruthOfTokens ==
    ASSUME AuthInv, AuthTrueInv, UNCHANGED account, NEW w \in Callers, createTokenPair(w)
    PROVE  AuthTrueInv'
<1> SUFFICES ASSUME ~staleCall' PROVE SessionsTrue' /\ CallsTrue'
  BY DEF AuthTrueInv
<1> DEFINE s == call[w]
<1>1. PICK t \in RefreshTokens : /\ token[t].state = "new"
                                 /\ token'[t] = IssuedBy(s, t)
                                 /\ \A u \in RefreshTokens \ {t} : token'[u] = token[u]
  BY WritesToken
<1> DEFINE f == IF s.family = NoFamily THEN t ELSE s.family
<1>2. /\ s.pc = "issue" /\ Store(w, Away, {}) /\ UNCHANGED <<password, ended, cutOff>>
      /\ call \in [Callers -> Calls] /\ token \in [RefreshTokens -> TokenRows]
      /\ TokensKnown /\ \A v \in Callers : CallKnown(call[v])
  BY WritesToken DEF AuthInv, AuthTypeOK, Store
<1>3. /\ ~staleCall /\ w \notin outdated
      /\ call'[w] = Away
      /\ \A v \in Callers \ {w} : call'[v] = call[v] /\ (v \notin outdated' => v \notin outdated)
  BY <1>2, NotOutdated
<1>4. SessionsTrue /\ CallsTrue /\ CallTruth(s)
  BY <1>3 DEF AuthTrueInv, CallsTrue
<1>5. /\ token'[t].state = "live" /\ token'[t].e = s.e /\ token'[t].family = f
      /\ token'[t].opened = s.opened
  <2>1. token'[t] = [state |-> "live", e |-> s.e, family |-> f, opened |-> s.opened]
    BY <1>1 DEF IssuedBy, TokenRow
  <2> HIDE DEF f, s
  <2> QED
    BY <2>1
<1>6. /\ \A u \in LiveTokens' : u # t => u \in LiveTokens /\ token'[u] = token[u]
      /\ t \notin Issued /\ t \notin LiveTokens
  BY <1>1 DEF LiveTokens, Issued
<1>7. f \notin ended /\ \A u \in LiveTokens : token[u].family # f
  <2>1. CASE s.family = NoFamily
    <3>1. \A u \in LiveTokens : u \in Issued
      BY DEF LiveTokens
    <3> QED
      BY <1>1, <1>2, <2>1, <3>1 DEF TokensKnown
  <2>2. CASE s.family # NoFamily
    BY <1>2, <1>4, <2>2 DEF CallTruth, Renews
  <2> QED
    BY <2>1, <2>2
<1>8. ASSUME NEW v \in Callers \ {w}, v \notin outdated', Renews(call[v]) PROVE call[v].family # f
  <2>1. CASE s.family = NoFamily
    <3>1. PICK u \in Issued : token[u].family = call[v].family
      BY <1>2, <1>8 DEF CallKnown, Renews
    <3>2. token[call[v].family].state # "new"
      BY <1>2, <3>1 DEF TokensKnown
    <3> QED
      BY <1>1, <2>1, <3>2
  <2>2. CASE s.family # NoFamily
    BY <1>2, <1>3, <1>4, <1>8, <2>2 DEF CallsTrue, OneRenews, Renews
  <2> QED
    BY <2>1, <2>2
<1> HIDE DEF f
<1>9. ASSUME NEW e, NEW n, PasswordOf(e, n)
      PROVE  ~cutOff' /\ (\A v \in Callers : call'[v] # [pc |-> "revokeRest", e |-> e])
             => n = password'[e]
  <2>1. \A v \in Callers : call[v] = [pc |-> "revokeRest", e |-> e] => call'[v] = call[v]
    BY <1>2, <1>3
  <2> QED
    BY <1>2, <1>9, <2>1 DEF PasswordOf, Resetting
<1>10. \A e : \A n : PasswordOf(e, n) =>
          (~cutOff' /\ (\A v \in Callers : call'[v] # [pc |-> "revokeRest", e |-> e])
           => n = password'[e])
  BY <1>9
<1>11. PasswordOf(s.e, s.opened)
  BY <1>2, <1>4 DEF CallTruth, Renews, PasswordOf
<1>12. SessionsTrue'
  <2>1. \A u \in LiveTokens' : PasswordOf(token'[u].e, token'[u].opened)
    BY <1>4, <1>5, <1>6, <1>11 DEF SessionsTrue
  <2>2. \A u \in LiveTokens' :
           ~cutOff' /\ (\A v \in Callers : call'[v] # [pc |-> "revokeRest", e |-> token'[u].e])
           => token'[u].opened = password'[token'[u].e]
    BY <1>10, <2>1
  <2>3. \A u \in LiveTokens' : PasswordOf(token[u].e, token[u].opened)'
    BY <2>2 DEF PasswordOf, Resetting
  <2>4. /\ \A u \in LiveTokens' : token'[u].family \notin ended'
        /\ \A u, v \in LiveTokens' : token'[u].family = token'[v].family => u = v
    BY <1>2, <1>4, <1>5, <1>6, <1>7 DEF SessionsTrue
  <2> QED
    BY <2>3, <2>4 DEF SessionsTrue
<1>13. ASSUME NEW v \in Callers, v \notin outdated' PROVE CallTruth(call[v])'
  <2>1. CASE v = w
    BY <1>3, <2>1 DEF CallTruth, Renews, Away
  <2>2. CASE v # w
    <3>1. /\ call'[v] = call[v] /\ CallTruth(call[v]) /\ CallKnown(call[v])
      BY <1>2, <1>3, <1>4, <1>13, <2>2 DEF CallsTrue
    <3>2. Renews(call[v]) =>
             (~cutOff' /\ (\A u \in Callers : call'[u] # [pc |-> "revokeRest", e |-> call[v].e])
              => call[v].opened = password'[call[v].e])
      BY <1>10, <3>1 DEF CallTruth
    <3>3. Renews(call[v])' => PasswordOf(call[v].e, call[v].opened)'
      BY <3>1, <3>2 DEF Renews, PasswordOf, Resetting
    <3>4. Renews(call[v]) => \A u \in LiveTokens' : token'[u].family # call[v].family
      BY <1>5, <1>6, <1>8, <1>13, <2>2, <3>1 DEF CallTruth
    <3>5. call[v].pc \in {"rotate", "logout"} => token'[call[v].t].state = "live"
      BY <1>1, <3>1 DEF CallTruth, CallKnown, Issued
    <3> QED
      BY <1>2, <3>1, <3>3, <3>4, <3>5 DEF CallTruth, Renews
  <2> QED
    BY <2>1, <2>2
<1>14. OneRenews'
  <2>1. \A v \in Callers : v \notin outdated' /\ Renews(call'[v])
                          => v \notin outdated /\ call'[v] = call[v]
    BY <1>3 DEF Renews, Away
  <2>2. \A v, u \in Callers \ outdated' :
           (/\ Renews(call'[v]) /\ Renews(call'[u])
            /\ call'[v].family = call'[u].family) => v = u
    BY <1>4, <2>1 DEF CallsTrue, OneRenews
  <2> QED
    BY <2>2 DEF OneRenews, Renews
<1> QED
  BY <1>12, <1>13, <1>14 DEF CallsTrue

LEMMA TruthOfRequests ==
    ASSUME AuthInv, AuthTrueInv, UNCHANGED account, NEW w \in Callers, AuthRequest(w)
    PROVE  AuthInv' /\ AuthTrueInv'
<1>1. PICK s \in Calls : /\ Request(w, s) /\ s # Away /\ HasAccount(s.e)
                         /\ CallKnown(s) /\ CallTruth(s)
                         /\ s.pc \notin {"issue", "revokeRest"}
  BY AsksTheTruth
<1>2. /\ call[w] = Away /\ call' = [call EXCEPT ![w] = s]
      /\ calls > 0 /\ calls' = calls - 1
      /\ UNCHANGED <<password, login, token, link, ended, outdated, staleCall, cutOff>>
  BY <1>1 DEF Request, authTables
<1>3. /\ password' \in [Emails -> Nat] /\ login' \in [Emails -> LoginRows]
      /\ link' \in [ResetLinks -> LinkRows] /\ \A k \in Sent' : HasAccount(link'[k].e)
      /\ \A k \in Sent : k \in Sent' /\ link'[k].e = link[k].e
      /\ outdated' \subseteq Callers /\ staleCall' \in BOOLEAN /\ cutOff' \in BOOLEAN
      /\ call \in [Callers -> Calls]
  BY <1>2 DEF AuthInv, AuthTypeOK, Sent
<1>4. calls' \in Nat
  <2>1. calls \in Nat
    BY DEF AuthInv, AuthTypeOK
  <2> QED
    BY <1>2, <2>1
<1>5. AuthInv'
  BY <1>1, <1>2, <1>3, <1>4, AuthStays
<1>6. call'[w] = s /\ \A v \in Callers \ {w} : call'[v] = call[v]
  BY <1>2, <1>3
<1>7. \A e : Resetting(e) => cutOff' \/ Resetting(e)'
  <2> SUFFICES ASSUME NEW e, NEW v \in Callers, call[v] = [pc |-> "revokeRest", e |-> e]
               PROVE  \E u \in Callers : call'[u] = [pc |-> "revokeRest", e |-> e]
    BY DEF Resetting
  <2>1. v # w
    BY <1>2 DEF Away
  <2> QED
    BY <1>6, <2>1
<1>8. AuthTrueInv'
  BY <1>1, <1>2, <1>6, <1>7, TruthStays DEF Renews
<1> QED
  BY <1>5, <1>8

LEMMA TruthOfQuietSteps ==
    ASSUME AuthInv, AuthTrueInv, UNCHANGED account, NEW w \in Callers, QuietStep(w)
    PROVE  AuthTrueInv'
<1>1. PICK rows : \E s \in Calls :
         /\ Store(w, s, rows) /\ UNCHANGED <<password, token, ended>>
         /\ call[w].pc # "revokeRest" /\ s.pc # "revokeRest" /\ ~Renews(s)
         /\ CallTruth(call[w]) => CallTruth(s)
  BY WritesQuietly
<1>2. PICK s \in Calls :
         /\ Store(w, s, rows) /\ UNCHANGED <<password, token, ended>>
         /\ call[w].pc # "revokeRest" /\ s.pc # "revokeRest" /\ ~Renews(s)
         /\ CallTruth(call[w]) => CallTruth(s)
  BY <1>1
<1>3. /\ call \in [Callers -> Calls] /\ call' = [call EXCEPT ![w] = s]
      /\ UNCHANGED cutOff /\ (staleCall => staleCall')
  BY <1>2 DEF AuthInv, AuthTypeOK, Store
<1>4. call'[w] = s /\ \A v \in Callers \ {w} : call'[v] = call[v]
  BY <1>3
<1>5. \A e : Resetting(e) => cutOff' \/ Resetting(e)'
  <2> SUFFICES ASSUME NEW e, NEW v \in Callers, call[v] = [pc |-> "revokeRest", e |-> e]
               PROVE  \E u \in Callers : call'[u] = [pc |-> "revokeRest", e |-> e]
    BY DEF Resetting
  <2>1. v # w
    BY <1>2
  <2> QED
    BY <1>4, <2>1
<1>6. ASSUME NEW v \in Callers, v \notin outdated', ~staleCall'
      PROVE  \/ v \notin outdated /\ call'[v] = call[v]
             \/ ~Renews(call'[v]) /\ CallTruth(call'[v])
  <2>1. /\ ~staleCall /\ w \notin outdated
        /\ \A u \in Callers \ {w} : u \notin outdated' => u \notin outdated
    BY <1>2, <1>3, <1>6, NotOutdated
  <2>2. CallTruth(call[w])
    BY <2>1 DEF AuthTrueInv, CallsTrue
  <2> QED
    BY <1>2, <1>4, <1>6, <2>1, <2>2
<1> QED
  BY <1>2, <1>3, <1>5, <1>6, TruthStays

LEMMA AuthNextKeeps ==
    ASSUME AuthInv, AuthTrueInv, UNCHANGED account, AuthNext
    PROVE  AuthInv' /\ AuthTrueInv'
<1>1. ASSUME NEW w \in Callers, AuthContinue(w) PROVE AuthInv' /\ AuthTrueInv'
  BY <1>1, WritesQuietly, WritesPassword, WritesRevoked, WritesToken, TruthOfQuietSteps,
     TruthOfPasswords, TruthOfRevocations, TruthOfTokens DEF AuthContinue, QuietStep, RevokingStep
<1>2. ASSUME NEW w \in Callers, CallDies(w) PROVE AuthInv' /\ AuthTrueInv'
  <2>1. /\ AuthInv' /\ UNCHANGED <<password, token, ended, staleCall>>
        /\ call' = [call EXCEPT ![w] = Away]
        /\ cutOff' = (cutOff \/ call[w].pc = "revokeRest")
        /\ outdated' = outdated \ {w}
        /\ call \in [Callers -> Calls]
    BY <1>2, DiesQuietly DEF AuthInv, AuthTypeOK
  <2>2. call'[w] = Away /\ \A v \in Callers \ {w} : call'[v] = call[v]
    BY <2>1
  <2>3. \A e : Resetting(e) => cutOff' \/ Resetting(e)'
    <3> SUFFICES ASSUME NEW e, NEW v \in Callers, call[v] = [pc |-> "revokeRest", e |-> e]
                 PROVE  cutOff' \/ \E u \in Callers : call'[u] = [pc |-> "revokeRest", e |-> e]
      BY DEF Resetting
    <3>1. CASE v = w
      <4>1. call[w].pc = "revokeRest"
        BY <3>1
      <4> QED
        BY <2>1, <4>1
    <3>2. CASE v # w
      BY <2>2, <3>2
    <3> QED
      BY <3>1, <3>2
  <2>4. ~Renews(Away) /\ CallTruth(Away)
    BY DEF Renews, CallTruth, Away
  <2> QED
    BY <2>1, <2>2, <2>3, <2>4, TruthStays
<1>3. CASE LockExpires \/ LinkExpires
  <2>1. AuthInv' /\ UNCHANGED <<password, token, call, ended, outdated, staleCall, cutOff>>
    BY <1>3, ExpiresQuietly DEF authHistory
  <2>2. \A e : Resetting(e) => cutOff' \/ Resetting(e)'
    BY <2>1 DEF Resetting
  <2> QED
    BY <2>1, <2>2, TruthStays
<1> QED
  BY <1>1, <1>2, <1>3, TruthOfRequests DEF AuthNext

LEMMA AuthUndisturbed ==
    ASSUME AuthInv, AuthTrueInv, UNCHANGED <<account, authOnly>> PROVE AuthInv' /\ AuthTrueInv'
<1>1. UNCHANGED <<account, password, login, token, link, call, ended, outdated, staleCall, cutOff, calls>>
  BY DEF authOnly, authTables, authHistory
<1>2. /\ Issued' = Issued /\ Sent' = Sent /\ Calling' = Calling /\ LiveTokens' = LiveTokens
  BY <1>1 DEF Issued, Sent, Calling, LiveTokens
<1>3. AuthInv'
  <2>1. AuthTypeOK'
    BY <1>1, <1>2 DEF AuthInv, AuthTypeOK, HasAccount
  <2>2. TokensKnown'
    BY <1>1, <1>2 DEF AuthInv, TokensKnown
  <2>3. \A w \in Callers : CallKnown(call[w])'
    BY <1>1, <1>2 DEF AuthInv, CallKnown
  <2> QED
    BY <2>1, <2>2, <2>3 DEF AuthInv
<1>4. \A e : Resetting(e) => cutOff' \/ Resetting(e)'
  BY <1>1 DEF Resetting
<1> QED
  BY <1>1, <1>3, <1>4, TruthStays

LEMMA AuthFirst == Init => AuthInv /\ AuthTrueInv
<1> SUFFICES ASSUME Init PROVE AuthInv /\ AuthTrueInv
  OBVIOUS
<1>1. /\ password = [e \in Emails |-> 0]
      /\ login = [e \in Emails |-> Unblemished]
      /\ token = [t \in RefreshTokens |-> Without("new")]
      /\ link = [k \in ResetLinks |-> Without("new")]
      /\ call = [w \in Callers |-> Away]
      /\ ended = {} /\ outdated = {} /\ staleCall = FALSE /\ cutOff = FALSE
  BY DEF Init, AuthInit
<1>2. calls \in Nat
  BY TenancyAssumption DEF Init
<1>3. /\ Unblemished \in LoginRows /\ Without("new") \in TokenRows /\ Without("new") \in LinkRows
      /\ Away \in Calls /\ Without("new").state = "new"
  BY TokensMade DEF Unblemished, LoginRows, Calls
<1>4. Issued = {} /\ Sent = {} /\ Calling = {} /\ LiveTokens = {}
  BY <1>1, <1>3 DEF Issued, Sent, Calling, LiveTokens
<1>5. AuthTypeOK
  BY <1>1, <1>2, <1>3, <1>4 DEF AuthTypeOK
<1>6. /\ \A w \in Callers : CallKnown(call[w]) /\ CallTruth(call[w]) /\ ~Renews(call[w])
      /\ TokensKnown
  BY <1>1, <1>4 DEF CallKnown, CallTruth, Renews, Away, TokensKnown
<1> QED
  BY <1>4, <1>5, <1>6 DEF AuthInv, AuthTrueInv, SessionsTrue, CallsTrue, OneRenews

(***************************************************************************)
(* Billing: what a step may do to subscriptions, and what stays true.      *)
(***************************************************************************)
Handles == {"charge", "syncOrg", "syncRow", "statusOrg", "statusRow"}
NoSecond(o) == \A q \in SoldTo(o) : ~sub[q].second
AllOpen == \A q \in Sold : Open(sub[q].sale.o)

\* An event is about a subscription that was sold; it tells no end that has not come.
EventKnown(ev) == /\ ev.s \in Sold /\ ev.n <= emitted
                  /\ ev.kind = "subscription.disable" => ~Live(ev.s)
\* Who buys for an organisation is a member as long as there is one.
SaleTrue(k) == org[k.o].state # "none" /\ (Open(k.o) => account[k.payer].org = k.o)
CodeTrue(o, c) == c # NoCode => c \in Sold /\ (AllOpen => sub[c].sale.o = o)

JobKnown(j) ==
    /\ j.pc \in {"customer", "checkout"} => SaleTrue(j.sale)
    /\ j.pc \in Handles => EventKnown(j.ev)
    /\ (j.pc \in {"statusOrg", "statusRow"} /\ j.status = "CANCELED") =>
          j.ev.kind = "subscription.disable"
    /\ j.pc = "disable" => CodeTrue(j.o, j.s)
    /\ j.pc \in {"syncOrg", "syncRow"} => CodeTrue(j.o, j.ev.s)

OrganisationPays(o) ==
    /\ (org[o].customer # Nobody /\ Open(o)) => account[org[o].customer].org = o
    /\ CodeTrue(o, org[o].code) /\ CodeTrue(o, subscription[o].code)
    /\ subscription[o] # NoSubscription => Open(o)
    /\ NoSecond(o) => \A p, q \in SoldTo(o) : Live(p) /\ Live(q) => p = q

\* The types of billing, but for the organisations the platform set the plan of:
\* no handler goes by those, and they are typed by ManagedTyped.
BillTyped ==
    /\ subscription \in [Organisations -> SubscriptionRows]
    /\ sub \in [Codes -> Subs]
    /\ checkouts \subseteq Checkouts
    /\ inbox \subseteq Events
    /\ emitted \in Nat /\ newest \in 0 .. emitted /\ orders \in Nat
    /\ job \in [Workers -> Jobs]
    /\ late \subseteq Workers /\ staleWrite \in BOOLEAN /\ disordered \in BOOLEAN
ManagedTyped == managed \subseteq Organisations

BillInv == /\ BillTyped
           /\ \A o \in Organisations : OrganisationPays(o)
           /\ \A k \in checkouts : SaleTrue(k)
           /\ \A s \in Sold : SaleTrue(sub[s].sale)
           /\ \A ev \in inbox : EventKnown(ev)
           /\ \A w \in Workers : JobKnown(job[w])

LEMMA JobFields ==
    ASSUME NEW j \in Jobs
    PROVE  /\ j.pc = "resting" <=> j = Resting
           /\ j.pc \in {"customer", "checkout"} => /\ j.sale \in Checkouts
                                                   /\ j = [pc |-> j.pc, sale |-> j.sale]
           /\ j.pc \in {"disable", "cancelOrg", "cancelRow"} =>
                 /\ j.o \in Organisations /\ j.s \in Codes /\ j.hadRow \in BOOLEAN
                 /\ j = [pc |-> j.pc, o |-> j.o, s |-> j.s, hadRow |-> j.hadRow]
           /\ j.pc \in Handles => j.ev \in Events
           /\ j.pc \in {"syncOrg", "syncRow"} =>
                 j.o \in Organisations /\ j = [pc |-> j.pc, ev |-> j.ev, o |-> j.o]
           /\ j.pc \in {"statusOrg", "statusRow"} =>
                 /\ j.o \in Organisations /\ j.status \in BillingStatus
                 /\ j = [pc |-> j.pc, ev |-> j.ev, o |-> j.o, status |-> j.status]
<1>1. /\ j.pc = "resting" <=> j = Resting
      /\ j.pc \in {"customer", "checkout"} => /\ j.sale \in Checkouts
                                              /\ j = [pc |-> j.pc, sale |-> j.sale]
  BY DEF Jobs, Resting
<1>2. j.pc \in {"disable", "cancelOrg", "cancelRow"} =>
         /\ j.o \in Organisations /\ j.s \in Codes /\ j.hadRow \in BOOLEAN
         /\ j = [pc |-> j.pc, o |-> j.o, s |-> j.s, hadRow |-> j.hadRow]
  BY DEF Jobs, Resting
<1>3. j.pc \in Handles => j.ev \in Events
  BY DEF Jobs, Resting, Handles
<1>4. j.pc \in {"syncOrg", "syncRow"} =>
         j.o \in Organisations /\ j = [pc |-> j.pc, ev |-> j.ev, o |-> j.o]
  BY DEF Jobs, Resting
<1>5. j.pc \in {"statusOrg", "statusRow"} =>
         /\ j.o \in Organisations /\ j.status \in BillingStatus
         /\ j = [pc |-> j.pc, ev |-> j.ev, o |-> j.o, status |-> j.status]
  BY DEF Jobs, Resting
<1> QED
  BY <1>1, <1>2, <1>3, <1>4, <1>5

LEMMA JobsMade ==
    /\ Resting \in Jobs
    /\ \A pc \in {"customer", "checkout"}, k \in Checkouts : [pc |-> pc, sale |-> k] \in Jobs
    /\ \A pc \in {"disable", "cancelOrg", "cancelRow"}, o \in Organisations, s \in Codes,
          b \in BOOLEAN : [pc |-> pc, o |-> o, s |-> s, hadRow |-> b] \in Jobs
    /\ \A ev \in Events : [pc |-> "charge", ev |-> ev] \in Jobs
    /\ \A pc \in {"syncOrg", "syncRow"}, ev \in Events, o \in Organisations :
          [pc |-> pc, ev |-> ev, o |-> o] \in Jobs
    /\ \A pc \in {"statusOrg", "statusRow"}, ev \in Events, o \in Organisations,
          st \in BillingStatus : [pc |-> pc, ev |-> ev, o |-> o, status |-> st] \in Jobs
<1>1. /\ Resting \in Jobs
      /\ \A pc \in {"customer", "checkout"}, k \in Checkouts : [pc |-> pc, sale |-> k] \in Jobs
  BY DEF Jobs
<1>2. \A pc \in {"disable", "cancelOrg", "cancelRow"}, o \in Organisations, s \in Codes,
         b \in BOOLEAN : [pc |-> pc, o |-> o, s |-> s, hadRow |-> b] \in Jobs
  BY DEF Jobs
<1>3. \A ev \in Events : [pc |-> "charge", ev |-> ev] \in Jobs
  BY DEF Jobs
<1>4. \A pc \in {"syncOrg", "syncRow"}, ev \in Events, o \in Organisations :
         [pc |-> pc, ev |-> ev, o |-> o] \in Jobs
  BY DEF Jobs
<1>5. \A pc \in {"statusOrg", "statusRow"}, ev \in Events, o \in Organisations,
         st \in BillingStatus : [pc |-> pc, ev |-> ev, o |-> o, status |-> st] \in Jobs
  BY DEF Jobs
<1> QED
  BY <1>1, <1>2, <1>3, <1>4, <1>5

LEMMA SubFields ==
    ASSUME sub \in [Codes -> Subs], NEW s \in Sold
    PROVE  /\ s \in Codes /\ sub[s].status \in SubStatus /\ sub[s].sale \in Checkouts
           /\ sub[s].since \in Nat /\ sub[s].second \in BOOLEAN
           /\ sub[s] = [status |-> sub[s].status, sale |-> sub[s].sale, since |-> sub[s].since,
                        second |-> sub[s].second]
           /\ sub[s].sale.o \in Organisations /\ sub[s].sale.plan \in PaidPlans
           /\ sub[s].sale.payer \in Emails
<1>1. /\ s \in Codes
      /\ sub[s] \in [status : SubStatus, sale : Checkouts, since : Nat, second : BOOLEAN]
  BY DEF Sold, Subs
<1>2. \A k \in Checkouts : k.o \in Organisations /\ k.plan \in PaidPlans /\ k.payer \in Emails
  BY DEF Checkouts
<1> QED
  BY <1>1, <1>2

LEMMA OrganisationFields ==
    ASSUME org \in [Organisations -> OrganisationRows], NEW o \in Organisations
    PROVE  /\ org[o] = [state |-> org[o].state, plan |-> org[o].plan, billing |-> org[o].billing,
                        customer |-> org[o].customer, code |-> org[o].code]
           /\ org[o].state \in {"none", "open", "deleted"} /\ org[o].plan \in SubscriptionPlan
           /\ org[o].billing \in BillingStatus /\ org[o].customer \in Emails \cup {Nobody}
           /\ org[o].code \in Codes \cup {NoCode}
BY DEF OrganisationRows

LEMMA SubscriptionFields ==
    /\ \A r \in SubscriptionRows :
          /\ r # NoSubscription => r.code \in Codes /\ r.plan \in PaidPlans /\ r.code # NoCode
          /\ r.status \in BillingStatus /\ r = [code |-> r.code, plan |-> r.plan, status |-> r.status]
    /\ \A c \in Codes, plan \in PaidPlans, st \in BillingStatus :
          [code |-> c, plan |-> plan, status |-> st] \in SubscriptionRows
    /\ NoSubscription \in SubscriptionRows /\ NoSubscription.code = NoCode
    /\ NoSubscription.status = "TRIALING"
<1>1. \A r \in SubscriptionRows :
          /\ r # NoSubscription => r.code \in Codes /\ r.plan \in PaidPlans /\ r.code # NoCode
          /\ r.status \in BillingStatus /\ r = [code |-> r.code, plan |-> r.plan, status |-> r.status]
  BY TenantsAssumption DEF SubscriptionRows, NoSubscription, BillingStatus
<1>2. /\ \A c \in Codes, plan \in PaidPlans, st \in BillingStatus :
          [code |-> c, plan |-> plan, status |-> st] \in SubscriptionRows
      /\ NoSubscription \in SubscriptionRows /\ NoSubscription.code = NoCode
      /\ NoSubscription.status = "TRIALING"
  BY DEF SubscriptionRows, NoSubscription
<1> QED
  BY <1>1, <1>2

(***************************************************************************)
(* Subscriptions that were sold stay sold, and never come to life again.   *)
(***************************************************************************)
SubsEndure == /\ \A s \in Sold : /\ s \in Sold' /\ sub'[s].sale = sub[s].sale
                                 /\ sub'[s].second = sub[s].second
                                 /\ sub[s].status = "disabled" => sub'[s].status = "disabled"
              /\ emitted' \in Nat /\ emitted <= emitted'
OrgsKeepMembers == \A o \in Organisations :
    /\ org[o].state # "none" => org'[o].state # "none"
    /\ (org[o].state # "none" /\ org'[o].state = "open") =>
          /\ org[o].state = "open"
          /\ \A e \in Emails : account[e].org = o => account'[e].org = o

LEMMA KnownStays ==
    ASSUME BillTyped, SubsEndure, OrgsKeepMembers
    PROVE  /\ \A s \in Sold : Live(s)' => Live(s)
           /\ \A o \in Organisations : \A s \in SoldTo(o) : s \in SoldTo(o)'
           /\ \A o \in Organisations : NoSecond(o)' => NoSecond(o)
           /\ \A k \in Checkouts : SaleTrue(k) => SaleTrue(k)'
           /\ \A ev \in Events : EventKnown(ev) => EventKnown(ev)'
<1>1. sub \in [Codes -> Subs] /\ emitted \in Nat
  BY DEF BillTyped
<1>2. \A s \in Sold : Live(s)' => Live(s)
  BY DEF SubsEndure, Live
<1>3. \A o \in Organisations : \A s \in SoldTo(o) : s \in SoldTo(o)' /\ s \in Sold
  BY DEF SubsEndure, SoldTo
<1>4. \A o \in Organisations : NoSecond(o)' => NoSecond(o)
  BY <1>3 DEF NoSecond, SubsEndure
<1>5. \A k \in Checkouts : SaleTrue(k) => SaleTrue(k)'
  BY DEF Checkouts, SaleTrue, OrgsKeepMembers, Open
<1>6. \A ev \in Events : EventKnown(ev) => EventKnown(ev)'
  <2> SUFFICES ASSUME NEW ev \in Events, EventKnown(ev) PROVE EventKnown(ev)'
    OBVIOUS
  <2>1. ev.n \in Nat /\ ev.s \in Sold /\ ev.n <= emitted
    BY DEF Events, EventKnown
  <2>2. ev.s \in Sold' /\ ev.n <= emitted'
    BY <1>1, <2>1 DEF SubsEndure
  <2>3. ev.kind = "subscription.disable" => ~Live(ev.s)'
    BY <1>2, <2>1 DEF EventKnown
  <2> QED
    BY <2>2, <2>3 DEF EventKnown
<1> QED
  BY <1>2, <1>3, <1>4, <1>5, <1>6

LEMMA CodesStay ==
    ASSUME BillInv, SubsEndure, OrgsKeepMembers
    PROVE  /\ AllOpen' => AllOpen
           /\ \A o \in Organisations : \A c : CodeTrue(o, c) => CodeTrue(o, c)'
           /\ \A j \in Jobs : JobKnown(j) => JobKnown(j)'
<1>1. sub \in [Codes -> Subs] /\ BillTyped
  BY DEF BillInv, BillTyped
<1>2. AllOpen' => AllOpen
  <2> SUFFICES ASSUME AllOpen', NEW s \in Sold PROVE Open(sub[s].sale.o)
    BY DEF AllOpen
  <2>1. /\ sub[s].sale.o \in Organisations /\ org[sub[s].sale.o].state # "none"
    BY <1>1, SubFields DEF BillInv, SaleTrue
  <2>2. org'[sub'[s].sale.o].state = "open" /\ sub'[s].sale = sub[s].sale
    BY DEF AllOpen, Open, SubsEndure
  <2> QED
    BY <2>1, <2>2 DEF OrgsKeepMembers, Open
<1>3. \A o \in Organisations : \A c : CodeTrue(o, c) => CodeTrue(o, c)'
  BY <1>2 DEF CodeTrue, SubsEndure
<1>4. ASSUME NEW j \in Jobs, JobKnown(j) PROVE JobKnown(j)'
  <2>1. j.pc \in {"customer", "checkout"} => SaleTrue(j.sale)'
    BY <1>1, <1>4, JobFields, KnownStays DEF JobKnown
  <2>2. j.pc \in Handles => EventKnown(j.ev)'
    BY <1>1, <1>4, JobFields, KnownStays DEF JobKnown
  <2>3. j.pc = "disable" => CodeTrue(j.o, j.s)'
    BY <1>3, <1>4, JobFields DEF JobKnown
  <2>4. j.pc \in {"syncOrg", "syncRow"} => CodeTrue(j.o, j.ev.s)'
    BY <1>3, <1>4, JobFields DEF JobKnown
  <2> QED
    BY <1>4, <2>1, <2>2, <2>3, <2>4 DEF JobKnown
<1> QED
  BY <1>2, <1>3, <1>4

(***************************************************************************)
(* A step of billing keeps what is known: it founds, deletes and forgets   *)
(* nothing.                                                                *)
(***************************************************************************)
OrgWritten(o) == /\ org'[o].customer = org[o].customer \/ account[org'[o].customer].org = o
                 /\ org'[o].code = org[o].code \/ CodeTrue(o, org'[o].code)
SubscriptionWritten(o) ==
    \/ subscription'[o] = subscription[o]
    \/ Open(o) /\ CodeTrue(o, subscription'[o].code)

BillDo == /\ UNCHANGED account /\ OrganisationsEndure /\ SubsEndure /\ BillTyped'
          /\ \A o \in Organisations : OrgWritten(o) /\ SubscriptionWritten(o)
          /\ (\A s \in Codes : s \in Sold' => s \in Sold) \/ Pay
          /\ \A k \in checkouts' : SaleTrue(k)
          /\ \A ev \in inbox' : EventKnown(ev) \/ EventKnown(ev)'
          /\ \A w \in Workers : job'[w] = job[w] \/ JobKnown(job'[w])

LEMMA OneLiveStays ==
    ASSUME BillInv, SubsEndure, OrgsKeepMembers, NEW o \in Organisations, NoSecond(o)',
           (\A s \in Codes : s \in Sold' => s \in Sold) \/ Pay
    PROVE  \A p, q \in SoldTo(o)' : Live(p)' /\ Live(q)' => p = q
<1>1. NoSecond(o) /\ \A s \in Sold : Live(s)' => Live(s)
  BY KnownStays DEF BillInv
<1>2. \A p, q \in SoldTo(o) : Live(p) /\ Live(q) => p = q
  BY <1>1 DEF BillInv, OrganisationPays
<1>3. \A s \in Sold' : s \in Codes
  BY DEF Sold
<1>4. \A s \in SoldTo(o)' : s \in Sold => s \in SoldTo(o)
  BY DEF SoldTo, SubsEndure
<1>5. CASE \A s \in Codes : s \in Sold' => s \in Sold
  BY <1>1, <1>2, <1>3, <1>4, <1>5 DEF SoldTo
<1>6. CASE Pay
  <2>1. PICK k \in checkouts, s \in Codes \ Sold :
           sub' = [sub EXCEPT ![s] = [status |-> "active", sale |-> k, since |-> emitted + 1,
                                      second |-> \E q \in SoldTo(k.o) : Live(q)]]
    BY <1>6 DEF Pay
  <2>2. sub \in [Codes -> Subs]
    BY DEF BillInv, BillTyped
  <2>3. /\ sub'[s].sale = k /\ sub'[s].second = (\E q \in SoldTo(k.o) : Live(q))
        /\ \A q \in Codes \ {s} : sub'[q] = sub[q]
    BY <2>1, <2>2
  <2>4. \A q \in SoldTo(o)' : q \in SoldTo(o) \/ (q = s /\ k.o = o)
    BY <1>3, <2>3 DEF SoldTo, Sold
  <2>5. s \in SoldTo(o)' => \A q \in SoldTo(o) : ~Live(q)
    <3>1. s \in SoldTo(o)' => k.o = o /\ ~sub'[s].second
      BY <2>3 DEF SoldTo, NoSecond
    <3> QED
      BY <2>3, <3>1
  <2>6. \A q \in SoldTo(o) : q \in Sold
    BY DEF SoldTo
  <2> QED
    BY <1>1, <1>2, <2>4, <2>5, <2>6
<1> QED
  BY <1>5, <1>6

LEMMA BillDoes ==
    ASSUME BillInv, OrganisationsTyped, BillDo
    PROVE  BillInv' /\ OrgsKeepMembers /\ (AllOpen' => AllOpen)
<1>1. OrgsKeepMembers
  <2>1. \A o \in Organisations : org[o].state \in {"none", "open", "deleted"}
    BY OrganisationFields DEF OrganisationsTyped
  <2> QED
    BY <2>1 DEF OrgsKeepMembers, BillDo, OrganisationsEndure
<1>2. SubsEndure /\ BillTyped /\ BillTyped'
  BY DEF BillDo, BillInv
<1>3. \A k \in checkouts' : SaleTrue(k)'
  <2>1. checkouts' \subseteq Checkouts
    BY <1>2 DEF BillTyped
  <2> QED
    BY <1>1, <1>2, <2>1, KnownStays DEF BillDo
<1>4. \A s \in Sold' : SaleTrue(sub[s].sale)'
  <2>1. \A s \in Sold : SaleTrue(sub[s].sale)'
    <3> SUFFICES ASSUME NEW s \in Sold PROVE SaleTrue(sub[s].sale)'
      OBVIOUS
    <3>1. PICK k \in Checkouts : sub[s].sale = k
      BY <1>2, SubFields DEF BillTyped
    <3>2. SaleTrue(k)'
      BY <1>1, <1>2, <3>1, KnownStays DEF BillInv
    <3>3. sub'[s].sale = k
      BY <1>2, <3>1 DEF SubsEndure
    <3> QED
      BY <3>2, <3>3
  <2>2. CASE Pay
    <3>1. PICK k \in checkouts, s \in Codes \ Sold :
             sub' = [sub EXCEPT ![s] = [status |-> "active", sale |-> k, since |-> emitted + 1,
                                        second |-> \E q \in SoldTo(k.o) : Live(q)]]
      BY <2>2 DEF Pay
    <3>2. /\ sub'[s].sale = k /\ \A q \in Codes \ {s} : sub'[q] = sub[q]
          /\ k \in Checkouts
      BY <1>2, <3>1 DEF BillTyped
    <3>3. SaleTrue(k)'
      BY <1>1, <1>2, <3>2, KnownStays DEF BillInv
    <3>4. \A q \in Sold' : q = s \/ q \in Sold
      BY <3>2 DEF Sold
    <3> QED
      BY <2>1, <3>2, <3>3, <3>4
  <2>3. CASE \A s \in Codes : s \in Sold' => s \in Sold
    BY <2>1, <2>3 DEF Sold
  <2> QED
    BY <2>2, <2>3 DEF BillDo
<1>5. \A ev \in inbox' : EventKnown(ev)'
  <2>1. inbox' \subseteq Events
    BY <1>2 DEF BillTyped
  <2> QED
    BY <1>1, <1>2, <2>1, KnownStays DEF BillDo
<1>6. \A w \in Workers : JobKnown(job[w])'
  <2> SUFFICES ASSUME NEW w \in Workers PROVE JobKnown(job[w])'
    OBVIOUS
  <2>1. PICK j \in Jobs : job'[w] = j
    BY <1>2 DEF BillTyped
  <2>2. JobKnown(j)
    BY <2>1 DEF BillDo, BillInv
  <2>3. JobKnown(j)'
    BY <1>1, <1>2, <2>2, CodesStay
  <2> QED
    BY <2>1, <2>3
<1>7. ASSUME NEW o \in Organisations PROVE OrganisationPays(o)'
  <2>1. OrganisationPays(o) /\ OrgWritten(o) /\ SubscriptionWritten(o)
    BY DEF BillInv, BillDo
  <2>2. (org'[o].customer # Nobody /\ org'[o].state = "open") => account'[org'[o].customer].org = o
    BY <2>1 DEF OrganisationPays, OrgWritten, BillDo, OrganisationsEndure, Open
  <2>3. CodeTrue(o, org[o].code)'
    <3>1. PICK c : org'[o].code = c
      OBVIOUS
    <3>2. CodeTrue(o, c)
      BY <2>1, <3>1 DEF OrganisationPays, OrgWritten
    <3>3. CodeTrue(o, c)'
      BY <1>1, <1>2, <3>2, CodesStay
    <3> QED
      BY <3>1, <3>3
  <2>4. CodeTrue(o, subscription[o].code)'
    <3>1. PICK c : subscription'[o].code = c
      OBVIOUS
    <3>2. CodeTrue(o, c)
      BY <2>1, <3>1 DEF OrganisationPays, SubscriptionWritten
    <3>3. CodeTrue(o, c)'
      BY <1>1, <1>2, <3>2, CodesStay
    <3> QED
      BY <3>1, <3>3
  <2>5. subscription'[o] # NoSubscription => org'[o].state = "open"
    BY <2>1 DEF OrganisationPays, SubscriptionWritten, BillDo, OrganisationsEndure, Open
  <2>6. NoSecond(o)' => \A p, q \in SoldTo(o)' : Live(p)' /\ Live(q)' => p = q
    BY <1>1, <1>2, OneLiveStays DEF BillDo
  <2> QED
    BY <2>2, <2>3, <2>4, <2>5, <2>6 DEF OrganisationPays, Open
<1> QED
  BY <1>1, <1>2, <1>3, <1>4, <1>5, <1>6, <1>7, CodesStay DEF BillInv

(***************************************************************************)
(* What a handler of billing goes by is true as long as nobody has         *)
(* overtaken it and no organisation that bought is gone.                   *)
(***************************************************************************)
JobTruth(j) ==
    /\ (j.pc \in {"cancelOrg", "cancelRow"} /\ NoSecond(j.o)) => ~Live(subscription[j.o].code)
    /\ j.pc \in {"statusOrg", "statusRow"} =>
          subscription[j.o] = NoSubscription \/ subscription[j.o].code = j.ev.s
CanceledTrue(o) ==
    (subscription[o].status = "CANCELED" /\ NoSecond(o)) => ~Live(subscription[o].code)
BillTrueInv == ~staleWrite /\ AllOpen => /\ \A o \in Organisations : CanceledTrue(o)
                                         /\ \A w \in Workers \ late : JobTruth(job[w])

LEMMA CanceledFromTruth == BillTrueInv => CanceledIsDisabled
<1> SUFFICES ASSUME BillTrueInv, ~staleWrite, \A q \in Sold : Open(sub[q].sale.o),
                    NEW o \in Organisations, subscription[o].status = "CANCELED",
                    \A q \in SoldTo(o) : ~sub[q].second
             PROVE  ~Live(subscription[o].code)
  BY DEF CanceledIsDisabled
<1>1. CanceledTrue(o)
  BY DEF BillTrueInv, AllOpen
<1> QED
  BY <1>1 DEF CanceledTrue, NoSecond

\* A step that writes no row a handler relies on, and cancels none that lives.
RowKept(j) == j.pc \in {"cancelOrg", "cancelRow", "statusOrg", "statusRow"} =>
                 subscription'[j.o] \in {subscription[j.o], NoSubscription}
TruthDo ==
    /\ staleWrite => staleWrite'
    /\ \A o \in Organisations : \/ subscription'[o] \in {subscription[o], NoSubscription}
                                \/ subscription'[o].status # "CANCELED"
                                \/ NoSecond(o) => ~Live(subscription'[o].code)
                                \/ staleWrite'
    /\ \A w \in Workers \ late' :
          \/ w \notin late /\ job'[w] = job[w] /\ RowKept(job[w])
          \/ JobTruth(job[w])'
          \/ staleWrite'

LEMMA DeadStays ==
    ASSUME BillTyped, SubsEndure, NEW c, c = NoCode \/ c \in Sold
    PROVE  ~Live(c) => ~Live(c)'
<1>1. CASE c = NoCode
  BY <1>1, TenantsAssumption DEF Live, Sold
<1>2. CASE c \in Sold
  BY <1>2 DEF SubsEndure, Live
<1> QED
  BY <1>1, <1>2

LEMMA TruthDoes ==
    ASSUME BillInv, BillInv', BillTrueInv, SubsEndure, OrgsKeepMembers, AllOpen' => AllOpen,
           ~staleWrite' /\ AllOpen' => TruthDo, staleWrite => staleWrite',
           \A o \in Organisations : \/ subscription'[o].code \in {subscription[o].code, NoCode}
                                    \/ subscription'[o].code \in Sold
    PROVE  BillTrueInv'
<1> SUFFICES ASSUME ~staleWrite', AllOpen'
             PROVE  /\ \A o \in Organisations : CanceledTrue(o)'
                    /\ \A w \in Workers : w \notin late' => JobTruth(job[w])'
  BY DEF BillTrueInv
<1>1. /\ TruthDo /\ \A o \in Organisations : CanceledTrue(o)
      /\ \A w \in Workers \ late : JobTruth(job[w])
      /\ BillTyped
  BY DEF BillTrueInv, BillInv
<1>2. /\ \A o \in Organisations : NoSecond(o)' => NoSecond(o)
      /\ NoSubscription.code = NoCode /\ NoSubscription.status = "TRIALING"
  BY <1>1, KnownStays, SubscriptionFields
<1>3. ASSUME NEW o \in Organisations, NEW c, c = subscription'[o].code, ~Live(c) PROVE ~Live(c)'
  <2>1. subscription[o].code = NoCode \/ subscription[o].code \in Sold
    BY DEF BillInv, OrganisationPays, CodeTrue
  <2>2. c = NoCode \/ c \in Sold
    BY <1>3, <2>1
  <2> QED
    BY <1>1, <1>3, <2>2, DeadStays
<1>4. ASSUME NEW o \in Organisations, NoSecond(o)', subscription'[o].status = "CANCELED"
      PROVE  ~Live(subscription[o].code)'
  <2>1. PICK c : c = subscription'[o].code
    OBVIOUS
  <2>2. ~Live(c)
    <3>1. CASE subscription'[o] = subscription[o]
      BY <1>1, <1>2, <1>4, <2>1, <3>1 DEF CanceledTrue
    <3>2. CASE subscription'[o] = NoSubscription
      BY <1>2, <1>4, <3>2
    <3>3. CASE NoSecond(o) => ~Live(subscription'[o].code)
      BY <1>2, <1>4, <2>1, <3>3
    <3> QED
      BY <1>1, <1>4, <3>1, <3>2, <3>3 DEF TruthDo
  <2>3. ~Live(c)'
    BY <1>3, <2>1, <2>2
  <2> QED
    BY <2>1, <2>3
<1>5. ASSUME NEW w \in Workers, w \notin late' PROVE JobTruth(job[w])'
  <2>1. CASE w \notin late /\ job'[w] = job[w] /\ RowKept(job[w])
    <3>1. PICK j \in Jobs : job[w] = j
      BY <1>1 DEF BillTyped
    <3>2. JobTruth(j) /\ RowKept(j)
      BY <1>1, <2>1, <3>1
    <3>3. ASSUME j.pc \in {"cancelOrg", "cancelRow"}, NoSecond(j.o)'
          PROVE  ~Live(subscription[j.o].code)'
      <4>1. j.o \in Organisations /\ NoSecond(j.o)
        BY <1>2, <3>3, JobFields
      <4>2. PICK c : c = subscription'[j.o].code
        OBVIOUS
      <4>3. ~Live(c)
        <5>1. CASE subscription'[j.o] = subscription[j.o]
          BY <3>2, <3>3, <4>1, <4>2, <5>1 DEF JobTruth
        <5>2. CASE subscription'[j.o] = NoSubscription
          BY <1>2, <4>2, <5>2, TenantsAssumption DEF Live, Sold
        <5> QED
          BY <3>2, <3>3, <5>1, <5>2 DEF RowKept
      <4>4. ~Live(c)'
        BY <1>3, <4>1, <4>2, <4>3
      <4> QED
        BY <4>2, <4>4
    <3>4. ASSUME j.pc \in {"statusOrg", "statusRow"}
          PROVE  subscription'[j.o] = NoSubscription \/ subscription'[j.o].code = j.ev.s
      BY <3>2, <3>4 DEF JobTruth, RowKept
    <3>5. JobTruth(j)'
      BY <3>3, <3>4 DEF JobTruth
    <3> QED
      BY <2>1, <3>1, <3>5
  <2> QED
    BY <1>1, <1>5, <2>1 DEF TruthDo
<1> QED
  BY <1>4, <1>5 DEF CanceledTrue

(***************************************************************************)
(* What every step of billing writes.                                      *)
(***************************************************************************)
JobsTyped == /\ job \in [Workers -> Jobs] /\ late \subseteq Workers
             /\ staleWrite \in BOOLEAN /\ disordered \in BOOLEAN /\ orders \in Nat

LEMMA WriteDoes ==
    ASSUME BillTyped, NEW w \in Workers, NEW j \in Jobs, NEW o, Write(w, j, o)
    PROVE  /\ JobsTyped' /\ UNCHANGED newest
           /\ job'[w] = j /\ \A v \in Workers \ {w} : job'[v] = job[v]
           /\ staleWrite => staleWrite'
           /\ ~staleWrite' => /\ w \notin late
                              /\ \A v \in Workers \ {w} :
                                    v \notin late' => v \notin late /\ (job[v] = Resting \/ o \notin Reads(job[v]))
<1>1. /\ job \in [Workers -> Jobs] /\ late \subseteq Workers /\ staleWrite \in BOOLEAN
      /\ disordered \in BOOLEAN /\ orders \in Nat
  BY DEF BillTyped
<1>2. /\ job' = [job EXCEPT ![w] = j]
      /\ staleWrite' = (staleWrite \/ w \in late)
      /\ late' = IF staleWrite' THEN {}
                 ELSE (late \cup {v \in Busy \ {w} : o \in Reads(job[v])})
                      \ (IF j = Resting THEN {w} ELSE {})
      /\ UNCHANGED <<newest, disordered, orders>>
  BY DEF Write
<1>3. late' \subseteq Workers
  BY <1>1, <1>2 DEF Busy
<1>4. ~staleWrite' => \A v \in Workers \ {w} :
         v \notin late' => v \notin late /\ (job[v] = Resting \/ o \notin Reads(job[v]))
  BY <1>2 DEF Busy
<1> QED
  BY <1>1, <1>2, <1>3, <1>4 DEF JobsTyped

LEMMA GoOnDoes ==
    ASSUME BillTyped, NEW w \in Workers, NEW j \in Jobs, GoOn(w, j)
    PROVE  /\ JobsTyped' /\ UNCHANGED <<org, subscription, newest, staleWrite>>
           /\ job'[w] = j /\ \A v \in Workers \ {w} : job'[v] = job[v]
           /\ late' = (IF j = Resting THEN late \ {w} ELSE late)
BY DEF BillTyped, GoOn, JobsTyped

LEMMA ReadsWhat ==
    ASSUME NEW j, j.pc \in {"cancelOrg", "cancelRow", "statusOrg", "statusRow"}
    PROVE  j # Resting /\ j.o \in Reads(j)
BY DEF Reads, Resting

\* Others go by the rows of another organisation, or have been overtaken.
LEMMA OthersKeep ==
    ASSUME BillTyped, NEW w \in Workers, NEW j \in Jobs, NEW o, Write(w, j, o), ~staleWrite',
           \A q \in Organisations \ {o} : subscription'[q] = subscription[q],
           NEW v \in Workers \ {w}, v \notin late'
    PROVE  v \notin late /\ job'[v] = job[v] /\ RowKept(job[v])
<1>1. v \notin late /\ job'[v] = job[v] /\ (job[v] = Resting \/ o \notin Reads(job[v])) /\ job[v] \in Jobs
  BY WriteDoes DEF BillTyped
<1>2. job[v].pc \in {"cancelOrg", "cancelRow", "statusOrg", "statusRow"} =>
         job[v].o \in Organisations \ {o}
  BY <1>1, JobFields, ReadsWhat
<1> QED
  BY <1>1, <1>2 DEF RowKept

\* A handler writes the row of an organisation and goes on as j.
OrgWrites(w, j, o, row) ==
    /\ UNCHANGED <<account, subscription, sub, checkouts, emitted>> /\ inbox' \subseteq inbox
    /\ Write(w, j, o) /\ JobKnown(j)
    /\ BillTrueInv /\ ~staleWrite /\ AllOpen /\ w \notin late => JobTruth(j)
    /\ org' = [org EXCEPT ![o] = row] /\ row.state = org[o].state
    /\ row.customer = org[o].customer \/ account[row.customer].org = o
    /\ row.code = org[o].code \/ CodeTrue(o, row.code)

LEMMA OrgStep ==
    ASSUME BillInv, OrganisationsTyped, NEW w \in Workers, NEW j \in Jobs, NEW o \in Organisations,
           NEW row \in OrganisationRows, OrgWrites(w, j, o, row)
    PROVE  BillDo /\ (BillTrueInv /\ ~staleWrite' /\ AllOpen => TruthDo) /\ (staleWrite => staleWrite')
<1> USE DEF OrgWrites
<1>1. /\ BillTyped /\ JobsTyped' /\ UNCHANGED newest
      /\ job'[w] = j /\ \A v \in Workers \ {w} : job'[v] = job[v]
      /\ staleWrite => staleWrite'
      /\ ~staleWrite' => w \notin late
  BY WriteDoes DEF BillInv
<1>2. BillTyped'
  BY <1>1 DEF BillTyped, JobsTyped
<1>3. SubsEndure
  BY <1>1 DEF SubsEndure, Sold, BillTyped
<1>4. org'[o] = row /\ org' \in [Organisations -> OrganisationRows]
      /\ \A q \in Organisations \ {o} : org'[q] = org[q]
  BY DEF OrganisationsTyped
<1>5. OrganisationsEndure /\ \A q \in Organisations : OrgWritten(q)
  BY <1>4 DEF OrganisationsEndure, OrgWritten
<1>6. BillDo
  <2>1. \A s \in Codes : s \in Sold' => s \in Sold
    BY DEF Sold
  <2>2. \A q \in Organisations : SubscriptionWritten(q)
    BY DEF SubscriptionWritten
  <2>3. \A k \in checkouts' : SaleTrue(k)
    BY DEF BillInv
  <2>4. \A ev \in inbox' : EventKnown(ev)
    BY DEF BillInv
  <2> QED
    BY <1>1, <1>2, <1>3, <1>5, <2>1, <2>2, <2>3, <2>4 DEF BillDo
<1>7. ASSUME BillTrueInv, ~staleWrite', AllOpen PROVE TruthDo
  <2>1. JobTruth(j)
    BY <1>1, <1>7
  <2>2. JobTruth(j)'
    BY <2>1 DEF JobTruth, NoSecond, SoldTo, Sold, Live
  <2>3. JobTruth(job[w])'
    BY <1>1, <2>2
  <2>4. \A v \in Workers \ {w} : v \notin late' => v \notin late /\ job'[v] = job[v] /\ RowKept(job[v])
    BY <1>1, <1>7, OthersKeep
  <2> QED
    BY <1>1, <2>3, <2>4 DEF TruthDo
<1> QED
  BY <1>1, <1>6, <1>7

\* A handler writes the Subscription row of an organisation and comes to rest.
LEMMA RowStep ==
    ASSUME BillInv, UNCHANGED <<org, account, sub, checkouts, emitted>>, OrganisationsTyped,
           NEW w \in Workers, NEW o \in Organisations, Write(w, Resting, o), inbox' \subseteq inbox,
           NEW row \in SubscriptionRows, subscription' = [subscription EXCEPT ![o] = row],
           Open(o), CodeTrue(o, row.code),
           BillTrueInv /\ ~staleWrite /\ AllOpen /\ w \notin late =>
              row.status # "CANCELED" \/ (NoSecond(o) => ~Live(row.code))
    PROVE  BillDo /\ (BillTrueInv /\ ~staleWrite' /\ AllOpen => TruthDo) /\ (staleWrite => staleWrite')
<1>1. /\ BillTyped /\ JobsTyped' /\ UNCHANGED newest
      /\ job'[w] = Resting /\ \A v \in Workers \ {w} : job'[v] = job[v]
      /\ staleWrite => staleWrite'
      /\ ~staleWrite' => w \notin late
      /\ Resting \in Jobs
  BY WriteDoes, JobsMade DEF BillInv
<1>2. /\ subscription' \in [Organisations -> SubscriptionRows]
      /\ subscription'[o] = row /\ \A q \in Organisations \ {o} : subscription'[q] = subscription[q]
  BY <1>1 DEF BillTyped
<1>3. BillTyped'
  BY <1>1, <1>2 DEF BillTyped, JobsTyped
<1>4. SubsEndure
  BY <1>1 DEF SubsEndure, Sold, BillTyped
<1>5. BillDo
  <2>1. \A s \in Codes : s \in Sold' => s \in Sold
    BY DEF Sold
  <2>2. \A q \in Organisations : OrgWritten(q) /\ SubscriptionWritten(q)
    BY <1>2 DEF OrgWritten, SubscriptionWritten
  <2>3. \A k \in checkouts' : SaleTrue(k)
    BY DEF BillInv
  <2>4. \A ev \in inbox' : EventKnown(ev)
    BY DEF BillInv
  <2>5. JobKnown(Resting) /\ OrganisationsEndure
    BY DEF JobKnown, Resting, Handles, OrganisationsEndure, OrganisationsTyped
  <2> QED
    BY <1>1, <1>3, <1>4, <2>1, <2>2, <2>3, <2>4, <2>5 DEF BillDo
<1>6. ASSUME BillTrueInv, ~staleWrite', AllOpen PROVE TruthDo
  <2>1. JobTruth(job[w])'
    BY <1>1 DEF JobTruth, Resting
  <2>2. \A v \in Workers \ {w} : v \notin late' => v \notin late /\ job'[v] = job[v] /\ RowKept(job[v])
    BY <1>1, <1>2, <1>6, OthersKeep
  <2>3. row.status # "CANCELED" \/ (NoSecond(o) => ~Live(row.code))
    BY <1>1, <1>6
  <2> QED
    BY <1>1, <1>2, <2>1, <2>2, <2>3 DEF TruthDo
<1> QED
  BY <1>1, <1>5, <1>6

\* A handler goes on as j and writes no row.
LEMMA JobStep ==
    ASSUME BillInv, UNCHANGED <<org, account, subscription, sub, emitted, staleWrite>>,
           OrganisationsTyped, newest' \in 0 .. emitted, JobsTyped',
           checkouts' \subseteq Checkouts, \A k \in checkouts' : SaleTrue(k), inbox' \subseteq inbox,
           \A v \in Workers : \/ job'[v] = job[v] /\ (v \notin late' => v \notin late)
                              \/ /\ JobKnown(job'[v])
                                 /\ BillTrueInv /\ ~staleWrite /\ AllOpen => JobTruth(job'[v])
    PROVE  BillDo /\ (BillTrueInv /\ ~staleWrite' /\ AllOpen => TruthDo) /\ (staleWrite => staleWrite')
<1>1. BillTyped /\ BillTyped'
  BY DEF BillInv, BillTyped, JobsTyped
<1>2. SubsEndure
  BY <1>1 DEF SubsEndure, Sold, BillTyped
<1>3. BillDo
  <2>1. \A s \in Codes : s \in Sold' => s \in Sold
    BY DEF Sold
  <2>2. \A q \in Organisations : OrgWritten(q) /\ SubscriptionWritten(q)
    BY DEF OrgWritten, SubscriptionWritten
  <2>3. \A ev \in inbox' : EventKnown(ev)
    BY DEF BillInv
  <2>4. OrganisationsEndure
    BY DEF OrganisationsEndure, OrganisationsTyped
  <2> QED
    BY <1>1, <1>2, <2>1, <2>2, <2>3, <2>4 DEF BillDo
<1>4. ASSUME BillTrueInv, ~staleWrite', AllOpen PROVE TruthDo
  <2>1. \A j : JobTruth(j) => JobTruth(j)'
    BY DEF JobTruth, NoSecond, SoldTo, Sold, Live
  <2>2. ASSUME NEW v \in Workers, v \notin late'
        PROVE  \/ v \notin late /\ job'[v] = job[v] /\ RowKept(job[v])
               \/ JobTruth(job[v])'
    <3>1. CASE job'[v] = job[v] /\ (v \notin late' => v \notin late)
      BY <2>2, <3>1 DEF RowKept
    <3>2. CASE JobTruth(job'[v])
      BY <2>1, <3>2
    <3> QED
      BY <1>4, <3>1, <3>2
  <2> QED
    BY <2>2 DEF TruthDo
<1> QED
  BY <1>3, <1>4

\* A subscription turns at the provider, which emits an event about it.
SubTurns(s, st, kind) ==
    /\ sub' = [sub EXCEPT ![s].status = st] /\ sub[s].status # "disabled"
    /\ kind = "subscription.disable" => st = "disabled"
    /\ Emit(kind, s)
    /\ UNCHANGED <<org, account, subscription, checkouts>>

LEMMA TurnDoes ==
    ASSUME BillInv, OrganisationsTyped, NEW s \in Sold, NEW st \in SubStatus, NEW kind \in Kinds,
           SubTurns(s, st, kind), JobsTyped', newest' = newest,
           \A w \in Workers : job'[w] = job[w] \/ JobKnown(job'[w])
    PROVE  /\ BillDo
           /\ sub'[s].status = st /\ \A q \in Codes \ {s} : sub'[q] = sub[q]
<1>1. /\ sub \in [Codes -> Subs] /\ emitted \in Nat /\ inbox \subseteq Events
      /\ newest \in 0 .. emitted /\ checkouts \subseteq Checkouts
      /\ subscription \in [Organisations -> SubscriptionRows]
  BY DEF BillInv, BillTyped
<1>2. /\ s \in Codes
      /\ sub[s] = [status |-> sub[s].status, sale |-> sub[s].sale, since |-> sub[s].since,
                   second |-> sub[s].second]
      /\ sub[s].sale \in Checkouts /\ sub[s].since \in Nat /\ sub[s].second \in BOOLEAN
  BY <1>1, SubFields
<1>3. PICK row : row = [status |-> st, sale |-> sub[s].sale, since |-> sub[s].since,
                        second |-> sub[s].second]
  OBVIOUS
<1>4. sub' = [sub EXCEPT ![s] = row]
  <2>1. [sub[s] EXCEPT !.status = st] = row
    BY <1>2, <1>3
  <2> QED
    BY <2>1 DEF SubTurns
<1>5. /\ row \in Subs /\ row # Unsold
      /\ row.status = st /\ row.sale = sub[s].sale /\ row.second = sub[s].second
  BY <1>2, <1>3 DEF Subs, Unsold
<1>6. sub' \in [Codes -> Subs] /\ sub'[s] = row /\ \A q \in Codes \ {s} : sub'[q] = sub[q]
  BY <1>1, <1>2, <1>4, <1>5
<1>7. Sold' = Sold
  BY <1>5, <1>6 DEF Sold
<1>8. /\ emitted' = emitted + 1 /\ emitted' \in Nat /\ emitted <= emitted'
      /\ inbox' = inbox \cup {Event(emitted', kind, s, FALSE)}
      /\ Event(emitted', kind, s, FALSE) \in Events
      /\ newest' \in 0 .. emitted'
  BY <1>1, <1>2 DEF SubTurns, Emit, Event, Events
<1>9. SubsEndure
  <2>1. ASSUME NEW q \in Sold
        PROVE  /\ sub'[q].sale = sub[q].sale /\ sub'[q].second = sub[q].second
               /\ sub[q].status = "disabled" => sub'[q].status = "disabled"
    BY <1>5, <1>6 DEF SubTurns, Sold
  <2> QED
    BY <1>7, <1>8, <2>1 DEF SubsEndure
<1>10. ASSUME NEW ev \in inbox' PROVE EventKnown(ev) \/ EventKnown(ev)'
  <2>1. CASE ev \in inbox
    BY <2>1 DEF BillInv
  <2>2. CASE ev = Event(emitted', kind, s, FALSE)
    <3>1. ev.s = s /\ ev.n = emitted' /\ ev.kind = kind
      BY <2>2 DEF Event
    <3>2. kind = "subscription.disable" => ~Live(s)'
      BY <1>5, <1>6 DEF SubTurns, Live
    <3> QED
      BY <1>7, <1>8, <3>1, <3>2 DEF EventKnown
  <2> QED
    BY <1>8, <2>1, <2>2
<1>11. BillTyped'
  BY <1>1, <1>6, <1>8 DEF BillTyped, JobsTyped, SubTurns
<1>12. /\ OrganisationsEndure /\ UNCHANGED account
       /\ \A o \in Organisations : OrgWritten(o) /\ SubscriptionWritten(o)
       /\ \A k \in checkouts' : SaleTrue(k)
  BY DEF OrganisationsEndure, OrgWritten, SubscriptionWritten, SubTurns, OrganisationsTyped, BillInv
<1> QED
  BY <1>5, <1>6, <1>7, <1>9, <1>10, <1>11, <1>12 DEF BillDo

\* The provider's own turn: the handlers stay where they are.
LEMMA TurnStep ==
    ASSUME BillInv, OrganisationsTyped, NEW s \in Sold, NEW st \in SubStatus, NEW kind \in Kinds,
           SubTurns(s, st, kind), UNCHANGED <<job, newest, late, staleWrite, disordered>>, orders' \in Nat
    PROVE  BillDo /\ (BillTrueInv /\ ~staleWrite' /\ AllOpen => TruthDo) /\ (staleWrite => staleWrite')
<1>1. JobsTyped'
  BY DEF JobsTyped, BillInv, BillTyped
<1>2. BillDo
  BY <1>1, TurnDoes
<1>3. TruthDo
  BY DEF TruthDo, RowKept, SubTurns
<1> QED
  BY <1>2, <1>3

LEMMA PayStep ==
    ASSUME BillInv, OrganisationsTyped, Pay, UNCHANGED account
    PROVE  BillDo /\ (BillTrueInv /\ ~staleWrite' /\ AllOpen => TruthDo) /\ (staleWrite => staleWrite')
<1>1. PICK k \in checkouts, s \in Codes \ Sold, coded \in BOOLEAN :
        /\ sub' = [sub EXCEPT ![s] = [status |-> "active", sale |-> k, since |-> emitted + 1,
                                      second |-> \E q \in SoldTo(k.o) : Live(q)]]
        /\ checkouts' = checkouts \ {k}
        /\ emitted' = emitted + 2
        /\ inbox' = inbox \cup {Event(emitted + 1, "charge.success", s, coded),
                                Event(emitted + 2, "subscription.create", s, FALSE)}
        /\ Turns /\ UNCHANGED orders
  BY DEF Pay
<1>2. /\ sub \in [Codes -> Subs] /\ emitted \in Nat /\ inbox \subseteq Events
      /\ newest \in 0 .. emitted /\ checkouts \subseteq Checkouts /\ job \in [Workers -> Jobs]
      /\ subscription \in [Organisations -> SubscriptionRows] /\ orders \in Nat
      /\ late \subseteq Workers /\ staleWrite \in BOOLEAN /\ disordered \in BOOLEAN
  BY DEF BillInv, BillTyped
<1>3. PICK row : row = [status |-> "active", sale |-> k, since |-> emitted + 1,
                        second |-> \E q \in SoldTo(k.o) : Live(q)]
  OBVIOUS
<1>4. row \in Subs /\ row # Unsold
  BY <1>2, <1>3 DEF Subs, Unsold, SubStatus
<1>5. sub' \in [Codes -> Subs] /\ sub'[s] = row /\ \A q \in Codes \ {s} : sub'[q] = sub[q]
  BY <1>1, <1>2, <1>3, <1>4
<1>6. /\ UNCHANGED <<org, account, subscription, job, newest, late, staleWrite, disordered, orders>>
  BY <1>1 DEF Turns
<1>7. SubsEndure
  <2>1. \A q \in Sold : sub'[q] = sub[q] /\ q \in Sold'
    BY <1>5 DEF Sold
  <2>2. emitted' \in Nat /\ emitted <= emitted'
    BY <1>1, <1>2
  <2> QED
    BY <2>1, <2>2 DEF SubsEndure
<1>8. /\ Event(emitted + 1, "charge.success", s, coded) \in Events
      /\ Event(emitted + 2, "subscription.create", s, FALSE) \in Events
  BY <1>2 DEF Event, Events, Kinds
<1>9. ASSUME NEW ev \in inbox' PROVE EventKnown(ev) \/ EventKnown(ev)'
  <2>1. CASE ev \in inbox
    BY <2>1 DEF BillInv
  <2>2. CASE ev \notin inbox
    <3>1. ev.s = s /\ ev.n <= emitted' /\ ev.kind # "subscription.disable"
      BY <1>1, <1>2, <2>2 DEF Event
    <3>2. s \in Sold'
      BY <1>4, <1>5 DEF Sold
    <3> QED
      BY <3>1, <3>2 DEF EventKnown
  <2> QED
    BY <2>1, <2>2
<1>10. BillTyped'
  <2>1. inbox' \subseteq Events /\ checkouts' \subseteq Checkouts
    BY <1>1, <1>2, <1>8
  <2>2. emitted' \in Nat /\ newest' \in 0 .. emitted'
    BY <1>1, <1>2, <1>6
  <2> QED
    BY <1>2, <1>5, <1>6, <2>1, <2>2 DEF BillTyped
<1>11. BillDo
  <2>1. /\ OrganisationsEndure
        /\ \A o \in Organisations : OrgWritten(o) /\ SubscriptionWritten(o)
        /\ \A q \in checkouts' : SaleTrue(q)
    BY <1>1, <1>6 DEF OrganisationsEndure, OrgWritten, SubscriptionWritten, OrganisationsTyped, BillInv
  <2> QED
    BY <1>6, <1>7, <1>9, <1>10, <2>1 DEF BillDo
<1>12. TruthDo /\ (staleWrite => staleWrite')
  BY <1>6 DEF TruthDo, RowKept
<1> QED
  BY <1>11, <1>12

(***************************************************************************)
(* Every action of billing is one of these steps.                          *)
(***************************************************************************)
BillStep == BillDo /\ (BillTrueInv /\ ~staleWrite' /\ AllOpen => TruthDo) /\ (staleWrite => staleWrite')

LEMMA RestingKnown == Resting \in Jobs /\ JobKnown(Resting) /\ JobTruth(Resting)
BY JobsMade DEF Resting, JobKnown, JobTruth, Handles

\* One handler goes on as j and writes nothing in the database.
LEMMA GoesOn ==
    ASSUME BillInv, NEW w \in Workers, NEW j \in Jobs, GoOn(w, j), UNCHANGED <<account, sub, emitted>>,
           OrganisationsTyped, JobKnown(j), BillTrueInv /\ ~staleWrite /\ AllOpen => JobTruth(j),
           checkouts' \subseteq Checkouts, \A k \in checkouts' : SaleTrue(k), inbox' \subseteq inbox
    PROVE  BillStep
<1>1. /\ JobsTyped' /\ UNCHANGED <<org, subscription, newest, staleWrite>>
      /\ job'[w] = j /\ \A v \in Workers \ {w} : job'[v] = job[v]
      /\ late' = (IF j = Resting THEN late \ {w} ELSE late)
      /\ newest' \in 0 .. emitted
  BY GoOnDoes DEF BillInv, BillTyped
<1> QED
  BY <1>1, JobStep DEF BillStep

LEMMA ReadsForCheckout ==
    ASSUME BillInv, OrganisationsTyped, UNCHANGED account, NEW w \in Workers, ensureCustomerRead(w)
    PROVE  BillStep
<1>1. PICK k \in Checkouts :
        /\ job[w] = Resting /\ Spend
        /\ account[k.payer].org = k.o
        /\ job' = [job EXCEPT ![w] =
                    [pc |-> IF org[k.o].customer = Nobody THEN "customer" ELSE "checkout",
                     sale |-> k]]
        /\ UNCHANGED <<org, subscription, provider, newest, late, staleWrite, disordered>>
  BY DEF ensureCustomerRead
<1>2. PICK pc \in {"customer", "checkout"} :
        pc = (IF org[k.o].customer = Nobody THEN "customer" ELSE "checkout")
  OBVIOUS
<1>3. PICK j : j = [pc |-> pc, sale |-> k]
  OBVIOUS
<1>4. j \in Jobs /\ j.pc = pc /\ j.sale = k
  BY <1>3, JobsMade
<1>5. job' = [job EXCEPT ![w] = j]
  BY <1>1, <1>2, <1>3
<1>6. /\ JobsTyped' /\ UNCHANGED <<org, subscription, provider, newest, late, staleWrite>>
      /\ job'[w] = j /\ \A v \in Workers \ {w} : job'[v] = job[v]
  BY <1>1, <1>4, <1>5 DEF JobsTyped, BillInv, BillTyped, Spend
<1>7. SaleTrue(k)
  <2>1. k.o \in Organisations /\ k.payer \in Emails
    BY DEF Checkouts
  <2>2. account[k.payer] # NoAccount
    BY <1>1, <2>1, AccountsMade, TenantsAssumption
  <2>3. Open(k.o)
    BY <1>1, <2>1, <2>2 DEF OrganisationsTyped
  <2> QED
    BY <1>1, <2>3 DEF SaleTrue, Open
<1>8. JobKnown(j) /\ JobTruth(j)
  BY <1>4, <1>7 DEF JobKnown, JobTruth, Handles
<1>9. /\ UNCHANGED <<sub, emitted>> /\ newest' \in 0 .. emitted /\ inbox' \subseteq inbox
      /\ checkouts' \subseteq Checkouts /\ \A q \in checkouts' : SaleTrue(q)
  BY <1>6 DEF provider, BillInv, BillTyped
<1> QED
  BY <1>6, <1>8, <1>9, JobStep DEF BillStep

LEMMA ReadsForCancel ==
    ASSUME BillInv, OrganisationsTyped, UNCHANGED account, NEW w \in Workers, cancelSubscriptionRead(w)
    PROVE  BillStep
<1>1. PICK o \in Organisations :
        LET s == IF org[o].code # NoCode THEN org[o].code ELSE subscription[o].code
        IN  /\ job[w] = Resting /\ Spend
            /\ Open(o) /\ s # NoCode
            /\ job' = [job EXCEPT ![w] = [pc |-> "disable", o |-> o, s |-> s,
                                          hadRow |-> subscription[o] # NoSubscription]]
            /\ UNCHANGED <<org, subscription, provider, newest, late, staleWrite, disordered>>
  BY DEF cancelSubscriptionRead
<1>2. PICK s : s = IF org[o].code # NoCode THEN org[o].code ELSE subscription[o].code
  OBVIOUS
<1>3. CodeTrue(o, s) /\ s # NoCode /\ s \in Codes
  BY <1>1, <1>2 DEF BillInv, OrganisationPays, CodeTrue, Sold
<1>4. PICK j : j = [pc |-> "disable", o |-> o, s |-> s, hadRow |-> subscription[o] # NoSubscription]
  OBVIOUS
<1>5. j \in Jobs /\ j.pc = "disable" /\ j.o = o /\ j.s = s
  BY <1>3, <1>4, JobsMade
<1>6. /\ job' = [job EXCEPT ![w] = j] /\ Spend
      /\ UNCHANGED <<org, subscription, provider, newest, late, staleWrite, disordered>>
  BY <1>1, <1>2, <1>4
<1>7. /\ JobsTyped' /\ UNCHANGED <<org, subscription, provider, newest, late, staleWrite>>
      /\ job'[w] = j /\ \A v \in Workers \ {w} : job'[v] = job[v]
  BY <1>5, <1>6 DEF JobsTyped, BillInv, BillTyped, Spend
<1>8. JobKnown(j) /\ JobTruth(j)
  BY <1>3, <1>5 DEF JobKnown, JobTruth, Handles
<1>9. /\ UNCHANGED <<sub, emitted>> /\ newest' \in 0 .. emitted /\ inbox' \subseteq inbox
      /\ checkouts' \subseteq Checkouts /\ \A q \in checkouts' : SaleTrue(q)
  BY <1>7 DEF provider, BillInv, BillTyped
<1> QED
  BY <1>7, <1>8, <1>9, JobStep DEF BillStep

\* The page is opened; a refusal or a crash leaves everything as it is.
LEMMA OpensPage ==
    ASSUME BillInv, OrganisationsTyped, UNCHANGED account, NEW w \in Workers,
           createCheckoutSession(w) \/ JobFails(w)
    PROVE  BillStep
<1>1. CASE createCheckoutSession(w)
  <2>1. /\ job[w].pc = "checkout" /\ checkouts' = checkouts \cup {job[w].sale}
        /\ GoOn(w, Resting) /\ UNCHANGED <<sub, inbox, emitted>>
    BY <1>1 DEF createCheckoutSession
  <2>2. job[w].sale \in Checkouts /\ SaleTrue(job[w].sale)
    BY <2>1, JobFields DEF BillInv, BillTyped, JobKnown
  <2>3. checkouts' \subseteq Checkouts /\ \A k \in checkouts' : SaleTrue(k)
    BY <2>1, <2>2 DEF BillInv, BillTyped
  <2> QED
    BY <2>1, <2>3, RestingKnown, GoesOn
<1>2. CASE JobFails(w)
  <2>1. GoOn(w, Resting) /\ UNCHANGED <<sub, inbox, emitted, checkouts>>
    BY <1>2 DEF JobFails, provider
  <2>2. checkouts' \subseteq Checkouts /\ \A k \in checkouts' : SaleTrue(k)
    BY <2>1 DEF BillInv, BillTyped
  <2> QED
    BY <2>1, <2>2, RestingKnown, GoesOn
<1> QED
  BY <1>1, <1>2

\* The provider has disabled the subscription: so no code that is left lives, if
\* the organisation bought no second one.
LEMMA DisablesAtProvider ==
    ASSUME BillInv, OrganisationsTyped, UNCHANGED account, NEW w \in Workers, disableSubscription(w)
    PROVE  BillStep
<1>1. job[w] \in Jobs /\ job[w].pc = "disable" /\ JobKnown(job[w])
  BY DEF disableSubscription, BillInv, BillTyped
<1>2. PICK o \in Organisations, s \in Codes, b \in BOOLEAN :
        job[w] = [pc |-> "disable", o |-> o, s |-> s, hadRow |-> b]
  BY <1>1, JobFields
<1>3. CodeTrue(o, s)
  BY <1>1, <1>2 DEF JobKnown
<1>4. CASE ~Live(s)
  <2>1. GoOn(w, Resting) /\ UNCHANGED <<sub, inbox, emitted, checkouts>>
    BY <1>2, <1>4 DEF disableSubscription
  <2>2. checkouts' \subseteq Checkouts /\ \A k \in checkouts' : SaleTrue(k)
    BY <2>1 DEF BillInv, BillTyped
  <2> QED
    BY <2>1, <2>2, RestingKnown, GoesOn
<1>5. CASE Live(s)
  <2>1. PICK j : j = [pc |-> "cancelOrg", o |-> o, s |-> s, hadRow |-> b]
    OBVIOUS
  <2>2. /\ sub' = [sub EXCEPT ![s].status = "disabled"]
        /\ Emit("subscription.disable", s) /\ GoOn(w, j) /\ UNCHANGED checkouts
    BY <1>2, <1>5, <2>1 DEF disableSubscription
  <2>3. j \in Jobs /\ j.pc = "cancelOrg" /\ j.o = o /\ j # Resting
    BY <2>1, JobsMade DEF Resting
  <2>4. /\ JobsTyped' /\ UNCHANGED <<org, subscription, newest, staleWrite>>
        /\ job'[w] = j /\ \A v \in Workers \ {w} : job'[v] = job[v]
        /\ late' = late
    BY <2>2, <2>3, GoOnDoes DEF BillInv
  <2>5. JobKnown(j)
    BY <2>3 DEF JobKnown, Handles
  <2>6. s \in Sold /\ sub[s].status # "disabled" /\ "disabled" \in SubStatus
        /\ "subscription.disable" \in Kinds
    BY <1>5 DEF Live, SubStatus, Kinds
  <2>7. SubTurns(s, "disabled", "subscription.disable")
    BY <2>2, <2>4, <2>6 DEF SubTurns
  <2>8. /\ BillDo /\ sub'[s].status = "disabled" /\ \A q \in Codes \ {s} : sub'[q] = sub[q]
    BY <2>4, <2>5, <2>6, <2>7, TurnDoes
  <2>9. ASSUME AllOpen, NoSecond(o)' PROVE ~Live(subscription[o].code)'
    <3>1. SUFFICES ASSUME NEW c, c = subscription'[o].code, Live(c)' PROVE FALSE
      OBVIOUS
    <3>2. c = subscription[o].code /\ CodeTrue(o, c) /\ c \in Codes
      BY <2>4, <3>1 DEF BillInv, OrganisationPays, Live, Sold
    <3>3. c # s /\ Live(c)
      BY <2>8, <3>1, <3>2 DEF Live, Sold
    <3>4. c \in SoldTo(o) /\ s \in SoldTo(o)
      BY <1>3, <2>6, <2>9, <3>2, <3>3, TenantsAssumption DEF CodeTrue, SoldTo, Live
    <3>5. NoSecond(o)
      BY <2>8, <2>9, BillDoes, KnownStays DEF BillDo, BillInv
    <3> QED
      BY <1>5, <3>3, <3>4, <3>5 DEF BillInv, OrganisationPays
  <2>10. AllOpen => JobTruth(job[w])'
    <3>1. AllOpen => JobTruth(j)'
      BY <2>3, <2>9 DEF JobTruth
    <3> QED
      BY <2>4, <3>1
  <2>11. AllOpen => TruthDo
    BY <2>4, <2>10 DEF TruthDo, RowKept
  <2> QED
    BY <2>4, <2>8, <2>11 DEF BillStep
<1> QED
  BY <1>4, <1>5

\* Who created a subscription pays for the organisation that bought it.
LEMMA PayerIsMember ==
    ASSUME BillInv, NEW s \in Sold, NEW o \in OfCustomer(s)
    PROVE  CodeTrue(o, s)
<1>1. /\ o \in Organisations /\ Open(o) /\ org[o].customer = sub[s].sale.payer
      /\ sub[s].sale.payer \in Emails /\ SaleTrue(sub[s].sale)
  BY SubFields DEF OfCustomer, BillInv, BillTyped
<1>2. account[sub[s].sale.payer].org = o
  BY <1>1, TenantsAssumption DEF BillInv, OrganisationPays
<1>3. AllOpen => account[sub[s].sale.payer].org = sub[s].sale.o
  BY <1>1 DEF AllOpen, SaleTrue
<1> QED
  BY <1>2, <1>3 DEF CodeTrue

LEMMA HandlersKnow ==
    ASSUME BillInv, NEW ev \in Events, EventKnown(ev), NEW j \in Handler(ev)
    PROVE  j \in Jobs /\ JobKnown(j) /\ JobTruth(j)
<1>1. ev.s \in Sold /\ ev.kind \in Kinds
  BY DEF EventKnown, Events
<1>2. CASE ev.kind = "charge.success"
  <2>1. j = [pc |-> "charge", ev |-> ev]
    BY <1>2 DEF Handler
  <2> QED
    BY <2>1, JobsMade DEF JobKnown, JobTruth, Handles
<1>3. CASE ev.kind = "subscription.create"
  <2>1. PICK o \in OfCustomer(ev.s) : j = [pc |-> "syncOrg", ev |-> ev, o |-> o]
    BY <1>3 DEF Handler
  <2>2. CodeTrue(o, ev.s) /\ o \in Organisations
    BY <1>1, PayerIsMember DEF OfCustomer
  <2>3. j.pc = "syncOrg" /\ j.ev = ev /\ j.o = o
    BY <2>1
  <2>4. JobKnown(j) /\ JobTruth(j)
    BY <2>2, <2>3 DEF JobKnown, JobTruth, Handles
  <2> QED
    BY <2>1, <2>2, <2>4, JobsMade
<1>4. CASE ev.kind \in {"subscription.disable", "invoice.payment_failed"}
  <2>1. PICK o \in OfCode(ev.s), st \in {"CANCELED", "PAST_DUE"} :
          /\ j = [pc |-> "statusOrg", ev |-> ev, o |-> o, status |-> st]
          /\ st = "CANCELED" => ev.kind = "subscription.disable"
    BY <1>4 DEF Handler
  <2>2. o \in Organisations /\ subscription[o].code = ev.s /\ st \in BillingStatus
    BY DEF OfCode, BillingStatus
  <2>3. j.pc = "statusOrg" /\ j.ev = ev /\ j.o = o /\ j.status = st
    BY <2>1
  <2>4. JobKnown(j) /\ JobTruth(j)
    BY <2>1, <2>2, <2>3 DEF JobKnown, JobTruth, Handles
  <2> QED
    BY <2>1, <2>2, <2>4, JobsMade
<1> QED
  BY <1>1, <1>2, <1>3, <1>4 DEF Kinds

LEMMA TakesDelivery ==
    ASSUME BillInv, OrganisationsTyped, UNCHANGED account, NEW w \in Workers, handleWebhook(w)
    PROVE  BillStep
<1>1. PICK ev \in inbox :
        /\ job[w] = Resting
        /\ disordered' = (disordered \/ ~InOrder(ev))
        /\ newest' = IF disordered' THEN 0 ELSE ev.n
        /\ IF InOrder(ev) THEN UNCHANGED orders ELSE Spend
        /\ IF Handler(ev) = {} THEN Answer(ev) /\ UNCHANGED job
           ELSE (\E j \in Handler(ev) : job' = [job EXCEPT ![w] = j]) /\ UNCHANGED provider
        /\ UNCHANGED <<org, subscription, late, staleWrite>>
  BY DEF handleWebhook
<1>2. /\ ev \in Events /\ EventKnown(ev) /\ emitted \in Nat /\ ev.n \in Nat /\ ev.n <= emitted
      /\ job \in [Workers -> Jobs] /\ orders \in Nat /\ late \subseteq Workers
      /\ staleWrite \in BOOLEAN /\ disordered \in BOOLEAN
  BY DEF BillInv, BillTyped, EventKnown, Events
<1>3. newest' \in 0 .. emitted /\ orders' \in Nat /\ disordered' \in BOOLEAN
  BY <1>1, <1>2 DEF Spend
<1>4. /\ UNCHANGED <<sub, checkouts, emitted>> /\ inbox' \subseteq inbox
  BY <1>1 DEF Answer, provider
<1>5. \/ job' = job
      \/ \E j \in Handler(ev) : job' = [job EXCEPT ![w] = j]
  BY <1>1
<1>6. /\ job' \in [Workers -> Jobs]
      /\ \A v \in Workers : job'[v] = job[v] \/ (JobKnown(job'[v]) /\ JobTruth(job'[v]))
  BY <1>2, <1>5, HandlersKnow
<1>7. JobsTyped'
  BY <1>1, <1>2, <1>3, <1>6 DEF JobsTyped
<1>8. checkouts' \subseteq Checkouts /\ \A k \in checkouts' : SaleTrue(k)
  BY <1>4 DEF BillInv, BillTyped
<1> QED
  BY <1>1, <1>3, <1>4, <1>6, <1>7, <1>8, JobStep DEF BillStep

(***************************************************************************)
(* Writes to the row of an organisation.                                   *)
(***************************************************************************)
OrgRow(o, plan, billing, customer, code) ==
    [state |-> org[o].state, plan |-> plan, billing |-> billing, customer |-> customer,
     code |-> code]

LEMMA OrgRowFields ==
    ASSUME OrganisationsTyped, NEW o \in Organisations, NEW plan \in SubscriptionPlan,
           NEW billing \in BillingStatus, NEW customer \in Emails \cup {Nobody},
           NEW code \in Codes \cup {NoCode}
    PROVE  /\ OrgRow(o, plan, billing, customer, code) \in OrganisationRows
           /\ OrgRow(o, plan, billing, customer, code).state = org[o].state
           /\ OrgRow(o, plan, billing, customer, code).customer = customer
           /\ OrgRow(o, plan, billing, customer, code).code = code
<1>1. org[o].state \in {"none", "open", "deleted"}
  BY OrganisationFields DEF OrganisationsTyped
<1> QED
  BY <1>1 DEF OrgRow, OrganisationRows

\* Several fields of a row written together are written one after the other.
Two(row, p, b) == [row EXCEPT !.plan = p, !.billing = b]
Three(row, p, b, s) == [row EXCEPT !.plan = p, !.billing = b, !.code = s]
Four(row, p, b, c, s) == [row EXCEPT !.plan = p, !.billing = b, !.customer = c, !.code = s]
TwoIn(o, p, b) == [org EXCEPT ![o].plan = p, ![o].billing = b]
ThreeIn(o, p, b, s) == [org EXCEPT ![o].plan = p, ![o].billing = b, ![o].code = s]
FourIn(o, p, b, c, s) ==
    [org EXCEPT ![o].plan = p, ![o].billing = b, ![o].customer = c, ![o].code = s]

LEMMA FieldsEdited ==
    ASSUME NEW row, NEW p, NEW b, NEW c, NEW s, NEW x1, NEW x2, NEW x3, NEW x4, NEW x5,
           row = [state |-> x1, plan |-> x2, billing |-> x3, customer |-> x4, code |-> x5]
    PROVE  /\ Two(row, p, b) =
              [state |-> x1, plan |-> p, billing |-> b, customer |-> x4, code |-> x5]
           /\ Three(row, p, b, s) =
              [state |-> x1, plan |-> p, billing |-> b, customer |-> x4, code |-> s]
           /\ Four(row, p, b, c, s) =
              [state |-> x1, plan |-> p, billing |-> b, customer |-> c, code |-> s]
<1>1. PICK r1 : r1 = [row EXCEPT !.plan = p]
  OBVIOUS
<1>2. r1 = [state |-> x1, plan |-> p, billing |-> x3, customer |-> x4, code |-> x5]
  BY <1>1
<1>3. PICK r2 : r2 = [r1 EXCEPT !.billing = b]
  OBVIOUS
<1>4. r2 = [state |-> x1, plan |-> p, billing |-> b, customer |-> x4, code |-> x5]
  BY <1>2, <1>3
<1>5. PICK r3 : r3 = [r2 EXCEPT !.customer = c]
  OBVIOUS
<1>6. r3 = [state |-> x1, plan |-> p, billing |-> b, customer |-> c, code |-> x5]
  BY <1>4, <1>5
<1>7. [r3 EXCEPT !.code = s] = [state |-> x1, plan |-> p, billing |-> b, customer |-> c, code |-> s]
  BY <1>6
<1>8. [r2 EXCEPT !.code = s] = [state |-> x1, plan |-> p, billing |-> b, customer |-> x4, code |-> s]
  BY <1>4
<1>9. [row EXCEPT !.plan = p, !.billing = b, !.customer = c, !.code = s] = [r3 EXCEPT !.code = s]
  BY <1>1, <1>3, <1>5
<1>10. [row EXCEPT !.plan = p, !.billing = b, !.code = s] = [r2 EXCEPT !.code = s]
  BY <1>1, <1>3
<1>11. [row EXCEPT !.plan = p, !.billing = b] = r2
  BY <1>1, <1>3
<1> QED
  BY <1>4, <1>7, <1>8, <1>9, <1>10, <1>11 DEF Two, Three, Four

LEMMA OrgRowEdited ==
    ASSUME OrganisationsTyped, NEW o \in Organisations
    PROVE  /\ \A c : [org EXCEPT ![o].customer = c] =
                     [org EXCEPT ![o] = OrgRow(o, org[o].plan, org[o].billing, c, org[o].code)]
           /\ \A b : [org EXCEPT ![o].billing = b] =
                     [org EXCEPT ![o] = OrgRow(o, org[o].plan, b, org[o].customer, org[o].code)]
           /\ \A p, b : TwoIn(o, p, b) =
                        [org EXCEPT ![o] = OrgRow(o, p, b, org[o].customer, org[o].code)]
           /\ \A p, b, s : ThreeIn(o, p, b, s) =
                           [org EXCEPT ![o] = OrgRow(o, p, b, org[o].customer, s)]
           /\ \A p, b, c, s : FourIn(o, p, b, c, s) = [org EXCEPT ![o] = OrgRow(o, p, b, c, s)]
<1>1. org \in [Organisations -> OrganisationRows]
  BY DEF OrganisationsTyped
<1>2. org[o] = [state |-> org[o].state, plan |-> org[o].plan, billing |-> org[o].billing,
                customer |-> org[o].customer, code |-> org[o].code]
  BY <1>1, OrganisationFields
<1>3. ASSUME NEW c PROVE [org[o] EXCEPT !.customer = c] = OrgRow(o, org[o].plan, org[o].billing, c, org[o].code)
  BY <1>2 DEF OrgRow
<1>4. ASSUME NEW b PROVE [org[o] EXCEPT !.billing = b] = OrgRow(o, org[o].plan, b, org[o].customer, org[o].code)
  BY <1>2 DEF OrgRow
<1>5. ASSUME NEW p, NEW b, NEW s
      PROVE  ThreeIn(o, p, b, s) = [org EXCEPT ![o] = OrgRow(o, p, b, org[o].customer, s)]
  <2>1. Three(org[o], p, b, s) = OrgRow(o, p, b, org[o].customer, s)
    BY <1>2, FieldsEdited DEF OrgRow
  <2>2. ThreeIn(o, p, b, s) = [org EXCEPT ![o] = Three(org[o], p, b, s)]
    BY <1>1, <1>2 DEF Three, ThreeIn
  <2> QED
    BY <2>1, <2>2
<1>6. ASSUME NEW p, NEW b, NEW c, NEW s
      PROVE  FourIn(o, p, b, c, s) = [org EXCEPT ![o] = OrgRow(o, p, b, c, s)]
  <2>1. Four(org[o], p, b, c, s) = OrgRow(o, p, b, c, s)
    BY <1>2, FieldsEdited DEF OrgRow
  <2>2. FourIn(o, p, b, c, s) = [org EXCEPT ![o] = Four(org[o], p, b, c, s)]
    BY <1>1, <1>2 DEF Four, FourIn
  <2> QED
    BY <2>1, <2>2
<1>7. \A c : [org EXCEPT ![o].customer = c] =
             [org EXCEPT ![o] = OrgRow(o, org[o].plan, org[o].billing, c, org[o].code)]
  BY <1>3
<1>8. \A b : [org EXCEPT ![o].billing = b] =
             [org EXCEPT ![o] = OrgRow(o, org[o].plan, b, org[o].customer, org[o].code)]
  BY <1>4
<1>9. ASSUME NEW p, NEW b
      PROVE  TwoIn(o, p, b) = [org EXCEPT ![o] = OrgRow(o, p, b, org[o].customer, org[o].code)]
  <2>1. Two(org[o], p, b) = OrgRow(o, p, b, org[o].customer, org[o].code)
    BY <1>2, FieldsEdited DEF OrgRow
  <2>2. TwoIn(o, p, b) = [org EXCEPT ![o] = Two(org[o], p, b)]
    BY <1>1, <1>2 DEF Two, TwoIn
  <2> QED
    BY <2>1, <2>2
<1> QED
  BY <1>5, <1>6, <1>7, <1>8, <1>9

\* OrgStep with the row spelled out.
OrgSets(w, j, o, plan, billing, customer, code) ==
    OrgWrites(w, j, o, OrgRow(o, plan, billing, customer, code))

LEMMA OrgSet ==
    ASSUME BillInv, OrganisationsTyped, NEW w \in Workers, NEW j \in Jobs, NEW o \in Organisations,
           NEW plan \in SubscriptionPlan, NEW billing \in BillingStatus,
           NEW customer \in Emails \cup {Nobody}, NEW code \in Codes \cup {NoCode},
           OrgSets(w, j, o, plan, billing, customer, code)
    PROVE  BillStep
<1>1. PICK row \in OrganisationRows : row = OrgRow(o, plan, billing, customer, code)
  BY OrgRowFields
<1>2. OrgWrites(w, j, o, row)
  BY <1>1 DEF OrgSets
<1> QED
  BY <1>2, OrgStep DEF BillStep

LEMMA OrgSetsWhen ==
    ASSUME OrganisationsTyped, NEW w \in Workers, NEW j, NEW o \in Organisations,
           NEW plan \in SubscriptionPlan, NEW billing \in BillingStatus,
           NEW customer \in Emails \cup {Nobody}, NEW code \in Codes \cup {NoCode},
           UNCHANGED <<account, subscription, sub, checkouts, emitted>>, inbox' \subseteq inbox,
           Write(w, j, o), JobKnown(j),
           BillTrueInv /\ ~staleWrite /\ AllOpen /\ w \notin late => JobTruth(j),
           org' = [org EXCEPT ![o] = OrgRow(o, plan, billing, customer, code)],
           customer = org[o].customer \/ account[customer].org = o,
           code = org[o].code \/ CodeTrue(o, code)
    PROVE  OrgSets(w, j, o, plan, billing, customer, code)
BY OrgRowFields DEF OrgSets, OrgWrites

LEMMA SetsCustomer ==
    ASSUME BillInv, OrganisationsTyped, UNCHANGED account, NEW w \in Workers, ensureCustomer(w)
    PROVE  BillStep
<1>1. PICK k \in Checkouts : k = job[w].sale /\ SaleTrue(k)
  BY JobFields DEF ensureCustomer, BillInv, BillTyped, JobKnown
<1>2. /\ Open(k.o) /\ org' = [org EXCEPT ![k.o].customer = k.payer]
      /\ Write(w, [pc |-> "checkout", sale |-> k], k.o)
      /\ UNCHANGED <<subscription, provider>>
  BY <1>1 DEF ensureCustomer
<1>3. /\ k.o \in Organisations /\ k.payer \in Emails /\ account[k.payer].org = k.o
  BY <1>1, <1>2 DEF Checkouts, SaleTrue
<1>4. PICK j : j = [pc |-> "checkout", sale |-> k]
  OBVIOUS
<1>5. j \in Jobs /\ JobKnown(j) /\ JobTruth(j) /\ Write(w, j, k.o)
  BY <1>1, <1>2, <1>4, JobsMade DEF JobKnown, JobTruth, Handles
<1>6. org' = [org EXCEPT ![k.o] = OrgRow(k.o, org[k.o].plan, org[k.o].billing, k.payer, org[k.o].code)]
  BY <1>2, <1>3, OrgRowEdited
<1>7. /\ org[k.o].plan \in SubscriptionPlan /\ org[k.o].billing \in BillingStatus
      /\ org[k.o].code \in Codes \cup {NoCode}
  BY <1>3, OrganisationFields DEF OrganisationsTyped
<1>8. UNCHANGED <<sub, checkouts, emitted>> /\ inbox' \subseteq inbox
  BY <1>2 DEF provider
<1>9. OrgSets(w, j, k.o, org[k.o].plan, org[k.o].billing, k.payer, org[k.o].code)
  BY <1>2, <1>3, <1>5, <1>6, <1>7, <1>8, OrgSetsWhen
<1> QED
  BY <1>3, <1>5, <1>7, <1>9, OrgSet

LEMMA SetsCanceled ==
    ASSUME BillInv, OrganisationsTyped, UNCHANGED account, NEW w \in Workers, cancelSubscription(w)
    PROVE  BillStep
<1>1. PICK o \in Organisations, s \in Codes, b \in BOOLEAN :
        job[w] = [pc |-> "cancelOrg", o |-> o, s |-> s, hadRow |-> b]
  BY JobFields DEF cancelSubscription, BillInv, BillTyped
<1>2. PICK j : j = IF b THEN [pc |-> "cancelRow", o |-> o, s |-> s, hadRow |-> b] ELSE Resting
  OBVIOUS
<1>3. /\ org' = [org EXCEPT ![o].billing = "CANCELED"] /\ Write(w, j, o)
      /\ UNCHANGED <<subscription, provider>>
  BY <1>1, <1>2 DEF cancelSubscription
<1>4. j \in Jobs /\ JobKnown(j)
  BY <1>2, JobsMade, RestingKnown DEF JobKnown, Handles
<1>5. BillTrueInv /\ ~staleWrite /\ AllOpen /\ w \notin late => JobTruth(j)
  <2>1. BillTrueInv /\ ~staleWrite /\ AllOpen /\ w \notin late => JobTruth(job[w])
    BY DEF BillTrueInv
  <2> QED
    BY <1>1, <1>2, <2>1, RestingKnown DEF JobTruth
<1>6. org' = [org EXCEPT ![o] = OrgRow(o, org[o].plan, "CANCELED", org[o].customer, org[o].code)]
  BY <1>3, OrgRowEdited
<1>7. /\ org[o].plan \in SubscriptionPlan /\ "CANCELED" \in BillingStatus
      /\ org[o].customer \in Emails \cup {Nobody} /\ org[o].code \in Codes \cup {NoCode}
  BY OrganisationFields DEF OrganisationsTyped, BillingStatus
<1>8. UNCHANGED <<sub, checkouts, emitted>> /\ inbox' \subseteq inbox
  BY <1>3 DEF provider
<1>9. OrgSets(w, j, o, org[o].plan, "CANCELED", org[o].customer, org[o].code)
  BY <1>3, <1>4, <1>5, <1>6, <1>7, <1>8, OrgSetsWhen
<1> QED
  BY <1>4, <1>7, <1>9, OrgSet

\* What is sold has a plan that organisations may have.
LEMMA SoldPlans ==
    ASSUME BillTyped, NEW s \in Sold
    PROVE  /\ s \in Codes /\ sub[s].sale.plan \in PaidPlans \cap SubscriptionPlan
           /\ sub[s].sale.o \in Organisations /\ sub[s].sale.payer \in Emails
BY SubFields, BillingAssumption DEF BillTyped

LEMMA SetsActive ==
    ASSUME BillInv, OrganisationsTyped, UNCHANGED account, NEW w \in Workers, handleChargeSuccess(w)
    PROVE  BillStep
<1>1. PICK ev \in Events : ev = job[w].ev /\ EventKnown(ev)
  BY JobFields DEF handleChargeSuccess, BillInv, BillTyped, JobKnown, Handles
<1>2. ev.s \in Sold /\ SaleTrue(sub[ev.s].sale)
  BY <1>1 DEF EventKnown, BillInv
<1>3. PICK k : k = sub[ev.s].sale
  OBVIOUS
<1>4. PICK code : code = IF ev.coded THEN ev.s ELSE org[k.o].code
  OBVIOUS
<1>5. /\ Open(k.o)
      /\ org' = [org EXCEPT ![k.o].plan = k.plan, ![k.o].billing = "ACTIVE",
                            ![k.o].customer = k.payer,
                            ![k.o].code = IF ev.coded THEN ev.s ELSE @]
      /\ Write(w, Resting, k.o) /\ Answer(ev) /\ UNCHANGED subscription
  BY <1>1, <1>3 DEF handleChargeSuccess
<1>6. /\ k.o \in Organisations /\ k.payer \in Emails /\ k.plan \in SubscriptionPlan
      /\ account[k.payer].org = k.o /\ ev.s \in Codes
  BY <1>2, <1>3, <1>5, SoldPlans DEF SaleTrue, BillInv
<1>7. org[k.o].code \in Codes \cup {NoCode} /\ "ACTIVE" \in BillingStatus
  BY <1>6, OrganisationFields DEF OrganisationsTyped, BillingStatus
<1>8. org' = FourIn(k.o, k.plan, "ACTIVE", k.payer, code)
  BY <1>4, <1>5, <1>6 DEF OrganisationsTyped, FourIn
<1>9. org' = [org EXCEPT ![k.o] = OrgRow(k.o, k.plan, "ACTIVE", k.payer, code)]
  BY <1>6, <1>8, OrgRowEdited
<1>10. code \in Codes \cup {NoCode} /\ (code = org[k.o].code \/ CodeTrue(k.o, code))
  BY <1>2, <1>3, <1>4, <1>6, <1>7 DEF CodeTrue
<1>11. UNCHANGED <<sub, checkouts, emitted>> /\ inbox' \subseteq inbox
  BY <1>5 DEF Answer
<1>12. OrgSets(w, Resting, k.o, k.plan, "ACTIVE", k.payer, code)
  BY <1>5, <1>6, <1>7, <1>9, <1>10, <1>11, RestingKnown, OrgSetsWhen
<1> QED
  BY <1>6, <1>7, <1>10, <1>12, RestingKnown, OrgSet

LEMMA SetsCode ==
    ASSUME BillInv, OrganisationsTyped, UNCHANGED account, NEW w \in Workers, syncSubscription(w)
    PROVE  BillStep
<1>1. PICK ev \in Events, o \in Organisations :
        /\ job[w] = [pc |-> "syncOrg", ev |-> ev, o |-> o]
        /\ EventKnown(ev) /\ CodeTrue(o, ev.s)
  <2>1. job[w].pc = "syncOrg" /\ job[w] \in Jobs /\ JobKnown(job[w])
    BY DEF syncSubscription, BillInv, BillTyped
  <2> QED
    BY <2>1, JobFields DEF JobKnown, Handles
<1>2. PICK j : j = [pc |-> "syncRow", ev |-> ev, o |-> o]
  OBVIOUS
<1>3. /\ org' = [org EXCEPT ![o].plan = sub[ev.s].sale.plan,
                            ![o].billing = "ACTIVE", ![o].code = ev.s]
      /\ Write(w, j, o) /\ UNCHANGED <<subscription, provider>>
  BY <1>1, <1>2 DEF syncSubscription, mapPaystackStatus
<1>4. ev.s \in Codes /\ sub[ev.s].sale.plan \in SubscriptionPlan
  BY <1>1, SoldPlans DEF EventKnown, BillInv
<1>5. j \in Jobs /\ JobKnown(j) /\ JobTruth(j)
  BY <1>1, <1>2, JobsMade DEF JobKnown, JobTruth, Handles
<1>6. org' = [org EXCEPT ![o] = OrgRow(o, sub[ev.s].sale.plan, "ACTIVE", org[o].customer, ev.s)]
  <2>1. org' = ThreeIn(o, sub[ev.s].sale.plan, "ACTIVE", ev.s)
    BY <1>3 DEF ThreeIn
  <2> QED
    BY <2>1, OrgRowEdited
<1>7. org[o].customer \in Emails \cup {Nobody} /\ "ACTIVE" \in BillingStatus
  BY OrganisationFields DEF OrganisationsTyped, BillingStatus
<1>8. UNCHANGED <<sub, checkouts, emitted>> /\ inbox' \subseteq inbox
  BY <1>3 DEF provider
<1>9. OrgSets(w, j, o, sub[ev.s].sale.plan, "ACTIVE", org[o].customer, ev.s)
  BY <1>1, <1>3, <1>4, <1>5, <1>6, <1>7, <1>8, OrgSetsWhen
<1> QED
  BY <1>4, <1>5, <1>7, <1>9, OrgSet

LEMMA SetsStatus ==
    ASSUME BillInv, OrganisationsTyped, UNCHANGED account, NEW w \in Workers, handleStatus(w)
    PROVE  BillStep
<1>0. job[w] \in Jobs /\ job[w].pc = "statusOrg" /\ JobKnown(job[w])
  BY DEF handleStatus, BillInv, BillTyped
<1>1. PICK ev \in Events, o \in Organisations, st \in BillingStatus :
        job[w] = [pc |-> "statusOrg", ev |-> ev, o |-> o, status |-> st]
  BY <1>0, JobFields DEF Handles
<1>2. EventKnown(ev) /\ (st = "CANCELED" => ev.kind = "subscription.disable")
  BY <1>0, <1>1 DEF JobKnown, Handles
<1>3. PICK j : j = [pc |-> "statusRow", ev |-> ev, o |-> o, status |-> st]
  OBVIOUS
<1>4. /\ org' = [org EXCEPT ![o].billing = st] /\ Write(w, j, o)
      /\ UNCHANGED <<subscription, provider>>
  BY <1>1, <1>3 DEF handleStatus
<1>5. j \in Jobs /\ JobKnown(j)
  BY <1>2, <1>3, JobsMade DEF JobKnown, Handles
<1>6. BillTrueInv /\ ~staleWrite /\ AllOpen /\ w \notin late => JobTruth(j)
  <2>1. BillTrueInv /\ ~staleWrite /\ AllOpen /\ w \notin late => JobTruth(job[w])
    BY DEF BillTrueInv
  <2>2. /\ job[w].pc = "statusOrg" /\ job[w].o = o /\ job[w].ev = ev
        /\ j.pc = "statusRow" /\ j.o = o /\ j.ev = ev
    BY <1>1, <1>3
  <2> QED
    BY <2>1, <2>2 DEF JobTruth
<1>7. org' = [org EXCEPT ![o] = OrgRow(o, org[o].plan, st, org[o].customer, org[o].code)]
  BY <1>4, OrgRowEdited
<1>8. /\ org[o].plan \in SubscriptionPlan /\ org[o].customer \in Emails \cup {Nobody}
      /\ org[o].code \in Codes \cup {NoCode}
  BY OrganisationFields DEF OrganisationsTyped
<1>9. UNCHANGED <<sub, checkouts, emitted>> /\ inbox' \subseteq inbox
  BY <1>4 DEF provider
<1>10. OrgSets(w, j, o, org[o].plan, st, org[o].customer, org[o].code)
  BY <1>4, <1>5, <1>6, <1>7, <1>8, <1>9, OrgSetsWhen
<1> QED
  BY <1>5, <1>8, <1>10, OrgSet

(***************************************************************************)
(* Writes to the Subscription row.                                         *)
(***************************************************************************)
LEMMA StatusEdited ==
    ASSUME BillInv, NEW o \in Organisations, subscription[o] # NoSubscription,
           NEW st \in BillingStatus, subscription' = [subscription EXCEPT ![o].status = st]
    PROVE  \E row \in SubscriptionRows : /\ subscription' = [subscription EXCEPT ![o] = row]
                                         /\ row.status = st /\ row.code = subscription[o].code
                                         /\ Open(o) /\ CodeTrue(o, row.code)
<1>1. subscription \in [Organisations -> SubscriptionRows] /\ OrganisationPays(o)
  BY DEF BillInv, BillTyped
<1>2. PICK r \in SubscriptionRows : r = subscription[o]
  BY <1>1
<1>3. /\ r.code \in Codes /\ r.plan \in PaidPlans
      /\ r = [code |-> r.code, plan |-> r.plan, status |-> r.status]
  BY <1>2, SubscriptionFields
<1>4. PICK row : row = [code |-> r.code, plan |-> r.plan, status |-> st]
  OBVIOUS
<1>5. row \in SubscriptionRows /\ row.status = st /\ row.code = r.code
  BY <1>3, <1>4, SubscriptionFields
<1>6. [subscription[o] EXCEPT !.status = st] = row
  BY <1>2, <1>3, <1>4
<1>7. subscription' = [subscription EXCEPT ![o] = row]
  BY <1>6
<1>8. Open(o) /\ CodeTrue(o, r.code)
  BY <1>1, <1>2 DEF OrganisationPays
<1> QED
  BY <1>2, <1>5, <1>7, <1>8

LEMMA RowSet ==
    ASSUME BillInv, OrganisationsTyped, UNCHANGED <<org, account, sub, checkouts, emitted>>,
           NEW w \in Workers, NEW o \in Organisations, Write(w, Resting, o), inbox' \subseteq inbox,
           \E row \in SubscriptionRows :
              /\ subscription' = [subscription EXCEPT ![o] = row]
              /\ Open(o) /\ CodeTrue(o, row.code)
              /\ BillTrueInv /\ ~staleWrite /\ AllOpen /\ w \notin late =>
                    row.status # "CANCELED" \/ (NoSecond(o) => ~Live(row.code))
    PROVE  BillStep
<1>1. PICK row \in SubscriptionRows :
              /\ subscription' = [subscription EXCEPT ![o] = row]
              /\ Open(o) /\ CodeTrue(o, row.code)
              /\ BillTrueInv /\ ~staleWrite /\ AllOpen /\ w \notin late =>
                    row.status # "CANCELED" \/ (NoSecond(o) => ~Live(row.code))
  OBVIOUS
<1> QED
  BY <1>1, RowStep DEF BillStep

LEMMA SetsRowCanceled ==
    ASSUME BillInv, OrganisationsTyped, UNCHANGED account, NEW w \in Workers, cancelSubscriptionRow(w)
    PROVE  BillStep
<1>1. PICK o \in Organisations : job[w].pc = "cancelRow" /\ job[w].o = o
  BY JobFields DEF cancelSubscriptionRow, BillInv, BillTyped
<1>2. /\ subscription[o] # NoSubscription
      /\ subscription' = [subscription EXCEPT ![o].status = "CANCELED"]
      /\ Write(w, Resting, o) /\ UNCHANGED <<org, provider>>
  BY <1>1 DEF cancelSubscriptionRow
<1>3. "CANCELED" \in BillingStatus
  BY DEF BillingStatus
<1>4. PICK row \in SubscriptionRows : /\ subscription' = [subscription EXCEPT ![o] = row]
                                      /\ row.code = subscription[o].code
                                      /\ Open(o) /\ CodeTrue(o, row.code)
  BY <1>2, <1>3, StatusEdited
<1>5. BillTrueInv /\ ~staleWrite /\ AllOpen /\ w \notin late => JobTruth(job[w])
  BY DEF BillTrueInv
<1>6. BillTrueInv /\ ~staleWrite /\ AllOpen /\ w \notin late => (NoSecond(o) => ~Live(row.code))
  BY <1>1, <1>4, <1>5 DEF JobTruth
<1>7. UNCHANGED <<sub, checkouts, emitted>> /\ inbox' \subseteq inbox
  BY <1>2 DEF provider
<1> QED
  BY <1>2, <1>4, <1>6, <1>7, RowSet

LEMMA SetsRowActive ==
    ASSUME BillInv, OrganisationsTyped, UNCHANGED account, NEW w \in Workers, syncSubscriptionRow(w)
    PROVE  BillStep
<1>0. job[w] \in Jobs /\ job[w].pc = "syncRow" /\ JobKnown(job[w])
  BY DEF syncSubscriptionRow, BillInv, BillTyped
<1>1. PICK ev \in Events, o \in Organisations :
        /\ job[w] = [pc |-> "syncRow", ev |-> ev, o |-> o]
        /\ EventKnown(ev) /\ CodeTrue(o, ev.s)
  BY <1>0, JobFields DEF JobKnown, Handles
<1>2. ev.s \in Codes /\ sub[ev.s].sale.plan \in PaidPlans
  BY <1>1, SoldPlans DEF EventKnown, BillInv
<1>3. PICK row : row = [code |-> ev.s, plan |-> sub[ev.s].sale.plan, status |-> "ACTIVE"]
  OBVIOUS
<1>4. /\ Open(o) /\ subscription' = [subscription EXCEPT ![o] = row]
      /\ Write(w, Resting, o) /\ Answer(ev) /\ UNCHANGED org
  BY <1>1, <1>3 DEF syncSubscriptionRow, mapPaystackStatus
<1>5. row \in SubscriptionRows /\ row.status # "CANCELED" /\ CodeTrue(o, row.code)
  BY <1>1, <1>2, <1>3, SubscriptionFields DEF BillingStatus
<1>6. UNCHANGED <<sub, checkouts, emitted>> /\ inbox' \subseteq inbox
  BY <1>4 DEF Answer
<1> QED
  BY <1>4, <1>5, <1>6, RowSet

LEMMA SetsRowStatus ==
    ASSUME BillInv, OrganisationsTyped, UNCHANGED account, NEW w \in Workers, handleStatusRow(w)
    PROVE  BillStep
<1>0. job[w] \in Jobs /\ job[w].pc = "statusRow" /\ JobKnown(job[w])
  BY DEF handleStatusRow, BillInv, BillTyped
<1>1. PICK ev \in Events, o \in Organisations, st \in BillingStatus :
        job[w] = [pc |-> "statusRow", ev |-> ev, o |-> o, status |-> st]
  BY <1>0, JobFields DEF Handles
<1>2. EventKnown(ev) /\ (st = "CANCELED" => ev.kind = "subscription.disable")
  BY <1>0, <1>1 DEF JobKnown, Handles
<1>3. /\ subscription[o] # NoSubscription
      /\ subscription' = [subscription EXCEPT ![o].status = st]
      /\ Write(w, Resting, o) /\ Answer(ev) /\ UNCHANGED org
  BY <1>1 DEF handleStatusRow
<1>4. PICK row \in SubscriptionRows : /\ subscription' = [subscription EXCEPT ![o] = row]
                                      /\ row.status = st /\ row.code = subscription[o].code
                                      /\ Open(o) /\ CodeTrue(o, row.code)
  BY <1>3, StatusEdited
<1>5. BillTrueInv /\ ~staleWrite /\ AllOpen /\ w \notin late =>
         row.status # "CANCELED" \/ ~Live(row.code)
  <2>1. BillTrueInv /\ ~staleWrite /\ AllOpen /\ w \notin late => JobTruth(job[w])
    BY DEF BillTrueInv
  <2>2. job[w].pc = "statusRow" /\ job[w].o = o /\ job[w].ev = ev
    BY <1>1
  <2>3. BillTrueInv /\ ~staleWrite /\ AllOpen /\ w \notin late => row.code = ev.s
    BY <1>3, <1>4, <2>1, <2>2 DEF JobTruth
  <2>4. st = "CANCELED" => ~Live(ev.s)
    BY <1>2 DEF EventKnown
  <2> QED
    BY <1>4, <2>3, <2>4
<1>6. UNCHANGED <<sub, checkouts, emitted>> /\ inbox' \subseteq inbox
  BY <1>3 DEF Answer
<1> QED
  BY <1>3, <1>4, <1>5, <1>6, RowSet

(***************************************************************************)
(* The platform writes the plan and the billing status of an organisation, *)
(* and neither its customer nor its code.                                  *)
(***************************************************************************)
PlanSet(o, plan, billing) ==
    /\ org' = [org EXCEPT ![o] = OrgRow(o, plan, billing, org[o].customer, org[o].code)]
    /\ Open(o) /\ orders' \in Nat
    /\ managed' = managed \cup {o}
    /\ UNCHANGED <<account, subscription, sub, checkouts, inbox, emitted, newest, job, late,
                   staleWrite, disordered>>

LEMMA PlanIsSet ==
    ASSUME BillInv, OrganisationsTyped, UNCHANGED account, updateOrganisationPlan
    PROVE  \E o \in Organisations, plan \in SubscriptionPlan, billing \in BillingStatus :
              PlanSet(o, plan, billing)
<1>1. PICK o \in Organisations, g \in Grants :
        /\ Spend /\ Open(o)
        /\ org' = [org EXCEPT ![o].plan = g.plan, ![o].billing = g.billing]
        /\ managed' = managed \cup {o}
        /\ UNCHANGED <<subscription, provider, job, newest, late, staleWrite, disordered>>
  BY DEF updateOrganisationPlan
<1>2. g.plan \in SubscriptionPlan /\ g.billing \in BillingStatus
  BY BillingAssumption
<1>3. org' = TwoIn(o, g.plan, g.billing)
  BY <1>1 DEF TwoIn
<1>4. org' = [org EXCEPT ![o] = OrgRow(o, g.plan, g.billing, org[o].customer, org[o].code)]
  BY <1>3, OrgRowEdited
<1>5. orders' \in Nat
  BY <1>1 DEF Spend, BillInv, BillTyped
<1>6. PlanSet(o, g.plan, g.billing)
  BY <1>1, <1>4, <1>5 DEF PlanSet, provider
<1> QED
  BY <1>2, <1>6

LEMMA SetsPlan ==
    ASSUME BillInv, OrganisationsTyped, NEW o \in Organisations, NEW plan \in SubscriptionPlan,
           NEW billing \in BillingStatus, PlanSet(o, plan, billing)
    PROVE  BillStep
<1> USE DEF PlanSet
<1>1. org[o].customer \in Emails \cup {Nobody} /\ org[o].code \in Codes \cup {NoCode}
  BY OrganisationFields DEF OrganisationsTyped
<1>10. PICK row : row = OrgRow(o, plan, billing, org[o].customer, org[o].code)
  OBVIOUS
<1>2. /\ row \in OrganisationRows
        /\ org' = [org EXCEPT ![o] = row] /\ row.state = org[o].state
        /\ row.customer = org[o].customer /\ row.code = org[o].code
  BY <1>1, <1>10, OrgRowFields
<1>3. org'[o] = row /\ org' \in [Organisations -> OrganisationRows]
      /\ \A q \in Organisations \ {o} : org'[q] = org[q]
  BY <1>2 DEF OrganisationsTyped
<1>4. OrganisationsEndure /\ \A q \in Organisations : OrgWritten(q)
  BY <1>2, <1>3 DEF OrganisationsEndure, OrgWritten
<1>5. BillTyped /\ BillTyped' /\ Sold' = Sold
  BY DEF BillInv, BillTyped, Sold
<1>6. SubsEndure
  BY <1>5 DEF SubsEndure, BillTyped
<1>7. BillDo
  <2>1. \A q \in Organisations : SubscriptionWritten(q)
    BY DEF SubscriptionWritten
  <2>2. /\ \A k \in checkouts' : SaleTrue(k)
        /\ \A ev \in inbox' : EventKnown(ev)
    BY DEF BillInv
  <2> QED
    BY <1>4, <1>5, <1>6, <2>1, <2>2 DEF BillDo
<1>8. TruthDo
  BY DEF TruthDo, RowKept
<1> QED
  BY <1>7, <1>8 DEF BillStep

(***************************************************************************)
(* All of billing.                                                         *)
(***************************************************************************)
LEMMA ProviderSteps ==
    ASSUME BillInv, OrganisationsTyped, UNCHANGED account, Pay \/ PaymentFails \/ SubscriptionEnds
    PROVE  BillStep
<1>1. CASE Pay
  BY <1>1, PayStep DEF BillStep
<1>2. CASE PaymentFails
  <2>1. PICK s \in Sold :
          /\ sub[s].status = "active" /\ Emit("invoice.payment_failed", s)
          /\ sub' = [sub EXCEPT ![s].status = "attention"]
          /\ Turns /\ UNCHANGED checkouts /\ Spend
    BY <1>2 DEF PaymentFails
  <2>2. SubTurns(s, "attention", "invoice.payment_failed")
    BY <2>1 DEF SubTurns, Turns
  <2>3. /\ UNCHANGED <<job, newest, late, staleWrite, disordered>> /\ orders' \in Nat
        /\ "attention" \in SubStatus /\ "invoice.payment_failed" \in Kinds
    BY <2>1 DEF Turns, Spend, BillInv, BillTyped, SubStatus, Kinds
  <2> QED
    BY <2>2, <2>3, TurnStep DEF BillStep
<1>3. CASE SubscriptionEnds
  <2>1. PICK s \in Codes :
          /\ Live(s) /\ Emit("subscription.disable", s)
          /\ sub' = [sub EXCEPT ![s].status = "disabled"]
          /\ Turns /\ UNCHANGED checkouts /\ Spend
    BY <1>3 DEF SubscriptionEnds
  <2>2. SubTurns(s, "disabled", "subscription.disable") /\ s \in Sold
    BY <2>1 DEF SubTurns, Turns, Live
  <2>3. /\ UNCHANGED <<job, newest, late, staleWrite, disordered>> /\ orders' \in Nat
        /\ "disabled" \in SubStatus /\ "subscription.disable" \in Kinds
    BY <2>1 DEF Turns, Spend, BillInv, BillTyped, SubStatus, Kinds
  <2> QED
    BY <2>2, <2>3, TurnStep DEF BillStep
<1> QED
  BY <1>1, <1>2, <1>3

LEMMA BillingSteps ==
    ASSUME BillInv, OrganisationsTyped, UNCHANGED account, BillingNext PROVE BillStep
<1>1. ASSUME NEW w \in Workers,
             \/ ensureCustomerRead(w) \/ ensureCustomer(w) \/ createCheckoutSession(w)
             \/ cancelSubscriptionRead(w) \/ disableSubscription(w)
             \/ cancelSubscription(w) \/ cancelSubscriptionRow(w)
      PROVE  BillStep
  BY <1>1, ReadsForCheckout, SetsCustomer, OpensPage, ReadsForCancel, DisablesAtProvider,
     SetsCanceled, SetsRowCanceled
<1>2. ASSUME NEW w \in Workers,
             \/ handleWebhook(w) \/ handleChargeSuccess(w)
             \/ syncSubscription(w) \/ syncSubscriptionRow(w)
             \/ handleStatus(w) \/ handleStatusRow(w) \/ JobFails(w)
      PROVE  BillStep
  BY <1>2, TakesDelivery, SetsActive, SetsCode, SetsRowActive, SetsStatus, SetsRowStatus, OpensPage
<1>3. ASSUME updateOrganisationPlan PROVE BillStep
  BY <1>3, PlanIsSet, SetsPlan
<1> QED
  BY <1>1, <1>2, <1>3, ProviderSteps DEF BillingNext

\* The platform sets the plan of organisations only.
LEMMA ManagedStays ==
    ASSUME ManagedTyped, BillingNext \/ UNCHANGED managed PROVE ManagedTyped'
<1>1. ASSUME NEW w \in Workers,
             \/ ensureCustomerRead(w) \/ ensureCustomer(w) \/ createCheckoutSession(w)
             \/ cancelSubscriptionRead(w) \/ disableSubscription(w)
             \/ cancelSubscription(w) \/ cancelSubscriptionRow(w)
      PROVE  UNCHANGED managed
  BY <1>1 DEF ensureCustomerRead, ensureCustomer, createCheckoutSession, cancelSubscriptionRead,
     disableSubscription, cancelSubscription, cancelSubscriptionRow, GoOn
<1>2. ASSUME NEW w \in Workers,
             \/ handleWebhook(w) \/ handleChargeSuccess(w)
             \/ syncSubscription(w) \/ syncSubscriptionRow(w)
             \/ handleStatus(w) \/ handleStatusRow(w) \/ JobFails(w)
      PROVE  managed' \subseteq managed
  BY <1>2 DEF handleWebhook, handleChargeSuccess, syncSubscription, syncSubscriptionRow,
     handleStatus, handleStatusRow, JobFails, GoOn
<1>3. ASSUME Pay \/ PaymentFails \/ SubscriptionEnds PROVE UNCHANGED managed
  BY <1>3 DEF Pay, PaymentFails, SubscriptionEnds, Turns
<1>4. ASSUME updateOrganisationPlan PROVE ManagedTyped'
  BY <1>4 DEF updateOrganisationPlan, ManagedTyped
<1> QED
  BY <1>1, <1>2, <1>3, <1>4 DEF BillingNext, ManagedTyped

LEMMA BillingNextKeeps ==
    ASSUME BillInv, BillTrueInv, OrganisationsTyped, UNCHANGED account, BillingNext
    PROVE  BillInv' /\ BillTrueInv' /\ OrganisationsEndure
<1>1. /\ BillDo /\ (~staleWrite' /\ AllOpen => TruthDo) /\ (staleWrite => staleWrite')
  BY BillingSteps DEF BillStep
<1>2. BillInv' /\ OrgsKeepMembers /\ (AllOpen' => AllOpen) /\ OrganisationsEndure /\ SubsEndure
  BY <1>1, BillDoes DEF BillDo
<1>3. \A o \in Organisations : \/ subscription'[o].code \in {subscription[o].code, NoCode}
                               \/ subscription'[o].code \in Sold
  BY <1>1 DEF BillDo, SubscriptionWritten, CodeTrue
<1> QED
  BY <1>1, <1>2, <1>3, TruthDoes

(***************************************************************************)
(* What membership does to billing: organisations come and go, and with    *)
(* them their rows.                                                        *)
(***************************************************************************)
LEMMA MembersEndure ==
    ASSUME MemberInv, MembershipNext, BillInv, UNCHANGED billingOnly
    PROVE  SubsEndure /\ OrgsKeepMembers
<1>1. UNCHANGED <<sub, emitted>> /\ BillTyped
  BY DEF billingOnly, provider, BillInv
<1>2. SubsEndure
  BY <1>1 DEF SubsEndure, Sold, BillTyped
<1>3. OrgsKeepMembers
  <2> SUFFICES ASSUME NEW o \in Organisations, org[o].state # "none"
               PROVE  /\ org'[o].state # "none"
                      /\ org'[o].state = "open" =>
                            /\ org[o].state = "open"
                            /\ \A e \in Emails : account[e].org = o => account'[e].org = o
    BY DEF OrgsKeepMembers
  <2>1. org'[o] = org[o] \/ org'[o] = NewOrganisation("deleted")
    BY OrganisationsComeAndGo
  <2>2. org'[o].state = "open" => \A e \in Emails : account[e].org = o => account'[e].org = o
    BY MembersStay DEF Open
  <2> QED
    BY <2>1, <2>2 DEF NewOrganisation
<1> QED
  BY <1>2, <1>3

LEMMA MembersPay ==
    ASSUME MemberInv, MembershipNext, BillInv, BillTrueInv, Cascade, UNCHANGED billingOnly
    PROVE  BillInv' /\ BillTrueInv'
<1>1. /\ UNCHANGED <<sub, checkouts, inbox, emitted, newest, job, late, staleWrite, disordered, orders>>
      /\ BillTyped
  BY DEF billingOnly, provider, billingHistory, BillInv
<1>2. \A o \in Organisations :
         /\ org'[o].state # "open" => subscription'[o] = NoSubscription
         /\ subscription'[o] \in {subscription[o], NoSubscription}
  BY DEF Cascade
<1>3. /\ \A st : /\ NewOrganisation(st).state = st /\ NewOrganisation(st).customer = Nobody
                 /\ NewOrganisation(st).code = NoCode
      /\ NoSubscription \in SubscriptionRows /\ NoSubscription.code = NoCode
  BY SubscriptionFields DEF NewOrganisation
<1>4. BillTyped'
  <2>1. subscription' \in [Organisations -> SubscriptionRows]
    BY <1>1, <1>3 DEF Cascade, BillTyped
  <2> QED
    BY <1>1, <2>1 DEF BillTyped
<1>5. SubsEndure /\ OrgsKeepMembers
  BY MembersEndure
<1>6. ASSUME NEW o \in Organisations PROVE OrganisationPays(o)'
  <2>1. OrganisationPays(o) /\ CodeTrue(o, NoCode)
    BY DEF BillInv, CodeTrue
  <2>2. /\ org'[o] = org[o] \/ (org'[o].customer = Nobody /\ org'[o].code = NoCode)
        /\ subscription'[o] = subscription[o] \/ subscription'[o].code = NoCode
    BY <1>2, <1>3, OrganisationsComeAndGo
  <2>3. (org'[o].customer # Nobody /\ org'[o].state = "open") => account'[org'[o].customer].org = o
    <3> SUFFICES ASSUME org'[o].customer # Nobody, org'[o].state = "open"
                 PROVE  account'[org'[o].customer].org = o
      OBVIOUS
    <3>1. org'[o] = org[o] /\ org[o].customer \in Emails
      BY <2>2, OrganisationFields DEF MemberInv, OrganisationsTyped
    <3>2. account[org[o].customer].org = o
      BY <2>1, <3>1 DEF OrganisationPays, Open
    <3> QED
      BY <3>1, <3>2, MembersStay DEF Open
  <2>4. CodeTrue(o, org[o].code)'
    <3>1. PICK c : c = org'[o].code
      OBVIOUS
    <3>2. CodeTrue(o, c)
      BY <2>1, <2>2, <3>1 DEF OrganisationPays
    <3>3. CodeTrue(o, c)'
      BY <1>5, <3>2, CodesStay
    <3> QED
      BY <3>1, <3>3
  <2>5. CodeTrue(o, subscription[o].code)'
    <3>1. PICK c : c = subscription'[o].code
      OBVIOUS
    <3>2. CodeTrue(o, c)
      BY <2>1, <2>2, <3>1 DEF OrganisationPays
    <3>3. CodeTrue(o, c)'
      BY <1>5, <3>2, CodesStay
    <3> QED
      BY <3>1, <3>3
  <2>6. NoSecond(o)' => \A p, q \in SoldTo(o)' : Live(p)' /\ Live(q)' => p = q
    BY <1>1, <2>1 DEF OrganisationPays, NoSecond, SoldTo, Sold, Live
  <2> QED
    BY <1>2, <2>3, <2>4, <2>5, <2>6 DEF OrganisationPays, Open
<1>7. \A k \in checkouts' : SaleTrue(k)'
  BY <1>1, <1>5, KnownStays DEF BillInv, BillTyped
<1>8. \A s \in Sold' : SaleTrue(sub[s].sale)'
  <2> SUFFICES ASSUME NEW s \in Sold PROVE SaleTrue(sub[s].sale)'
    BY <1>1 DEF Sold
  <2>1. PICK k \in Checkouts : sub[s].sale = k
    BY <1>1, SubFields DEF BillTyped
  <2>2. SaleTrue(k)'
    BY <1>1, <1>5, <2>1, KnownStays DEF BillInv
  <2> QED
    BY <1>1, <2>1, <2>2
<1>9. \A ev \in inbox' : EventKnown(ev)'
  BY <1>1, <1>5, KnownStays DEF BillInv, BillTyped
<1>10. \A w \in Workers : JobKnown(job[w])'
  <2> SUFFICES ASSUME NEW w \in Workers PROVE JobKnown(job[w])'
    OBVIOUS
  <2>1. PICK j \in Jobs : job[w] = j
    BY <1>1 DEF BillTyped
  <2>2. JobKnown(j)'
    BY <1>5, <2>1, CodesStay DEF BillInv
  <2> QED
    BY <1>1, <2>1, <2>2
<1>11. BillInv'
  BY <1>4, <1>6, <1>7, <1>8, <1>9, <1>10 DEF BillInv
<1>12. TruthDo /\ (staleWrite => staleWrite')
  <2>1. ASSUME NEW w \in Workers PROVE RowKept(job[w])
    <3>1. job[w] \in Jobs
      BY <1>1 DEF BillTyped
    <3> QED
      BY <1>2, <3>1, JobFields DEF RowKept
  <2> QED
    BY <1>1, <1>2, <2>1 DEF TruthDo
<1>13. \A o \in Organisations : subscription'[o].code \in {subscription[o].code, NoCode}
  BY <1>2, <1>3
<1>14. AllOpen' => AllOpen
  BY <1>5, CodesStay
<1> QED
  BY <1>5, <1>11, <1>12, <1>13, <1>14, TruthDoes

LEMMA BillingUndisturbed ==
    ASSUME BillInv, BillTrueInv, UNCHANGED <<org, account, subscription, billingOnly>>
    PROVE  BillInv' /\ BillTrueInv'
<1>1. UNCHANGED <<org, account, subscription, sub, checkouts, inbox, emitted, newest, job, late,
                  staleWrite, disordered, orders>>
  BY DEF billingOnly, provider, billingHistory
<1>2. /\ BillTyped' /\ Sold' = Sold /\ (AllOpen' <=> AllOpen)
      /\ \A s : Live(s)' <=> Live(s)
      /\ \A o : SoldTo(o)' = SoldTo(o) /\ (NoSecond(o)' <=> NoSecond(o))
      /\ \A k : SaleTrue(k)' <=> SaleTrue(k)
      /\ \A o, c : CodeTrue(o, c)' <=> CodeTrue(o, c)
  <2>1. BillTyped'
    BY <1>1 DEF BillInv, BillTyped
  <2>2. Sold' = Sold /\ \A o : SoldTo(o)' = SoldTo(o)
    BY <1>1 DEF Sold, SoldTo
  <2> QED
    BY <1>1, <2>1, <2>2 DEF AllOpen, Open, Live, NoSecond, SaleTrue, CodeTrue
<1>3. BillInv'
  <2>1. \A o \in Organisations : OrganisationPays(o)'
    BY <1>1, <1>2 DEF BillInv, OrganisationPays, Open
  <2>2. /\ \A ev \in inbox' : EventKnown(ev)'
        /\ \A w \in Workers : JobKnown(job[w])'
    BY <1>1, <1>2 DEF BillInv, EventKnown, JobKnown
  <2> QED
    BY <1>1, <1>2, <2>1, <2>2 DEF BillInv
<1>4. BillTrueInv'
  BY <1>1, <1>2 DEF BillTrueInv, CanceledTrue, JobTruth
<1> QED
  BY <1>3, <1>4

LEMMA BillingFirst == Init => BillInv /\ BillTrueInv
<1> SUFFICES ASSUME Init PROVE BillInv /\ BillTrueInv
  OBVIOUS
<1>1. /\ subscription = [o \in Organisations |-> NoSubscription]
      /\ sub = [s \in Codes |-> Unsold]
      /\ checkouts = {} /\ inbox = {} /\ emitted = 0 /\ newest = 0
      /\ job = [w \in Workers |-> Resting]
      /\ late = {} /\ staleWrite = FALSE /\ disordered = FALSE
      /\ orders \in Nat
      /\ org = [o \in Organisations |-> NewOrganisation(IF o = Home THEN "open" ELSE "none")]
  BY TenancyAssumption DEF Init, BillingInit
<1>2. Sold = {}
  BY <1>1 DEF Sold
<1>3. BillTyped
  <2>1. /\ subscription \in [Organisations -> SubscriptionRows] /\ sub \in [Codes -> Subs]
        /\ job \in [Workers -> Jobs]
    BY <1>1, SubscriptionFields, RestingKnown DEF Subs
  <2>2. checkouts \subseteq Checkouts /\ inbox \subseteq Events /\ late \subseteq Workers
    BY <1>1
  <2>3. orders \in Nat /\ emitted \in Nat /\ newest \in 0 .. emitted
    BY <1>1
  <2>4. staleWrite \in BOOLEAN /\ disordered \in BOOLEAN
    BY <1>1
  <2> QED
    BY <2>1, <2>2, <2>3, <2>4 DEF BillTyped
<1>4. \A o \in Organisations : OrganisationPays(o)
  <2>1. \A o \in Organisations : /\ org[o].customer = Nobody /\ org[o].code = NoCode
                                 /\ subscription[o] = NoSubscription
    BY <1>1 DEF NewOrganisation
  <2> QED
    BY <1>2, <2>1, SubscriptionFields DEF OrganisationPays, CodeTrue, SoldTo
<1>5. BillInv
  BY <1>1, <1>2, <1>3, <1>4, RestingKnown DEF BillInv
<1>6. BillTrueInv
  BY <1>1, RestingKnown, SubscriptionFields DEF BillTrueInv, CanceledTrue
<1> QED
  BY <1>5, <1>6

(***************************************************************************)
(* Billing: what the events not yet answered have still to tell.           *)
(***************************************************************************)
Unanswered(s, kind) == \E e \in inbox : e.s = s /\ e.kind = kind
Turned == {"invoice.payment_failed", "subscription.disable"}
Newest(s, o) == s \in SoldTo(o) /\ \A q \in SoldTo(o) : sub[q].since <= sub[s].since

\* No two subscriptions were bought at once, and of those an organisation bought
\* one is the newest.
SalesInLine ==
    /\ \A s \in Sold : sub[s].since + 1 <= emitted
    /\ \A p, q \in Sold : p # q => \/ sub[p].since + 1 < sub[q].since
                                   \/ sub[q].since + 1 < sub[p].since
    /\ \A o \in Organisations : SoldTo(o) # {} => \E s \in SoldTo(o) : Newest(s, o)

\* Events are numbered in the order in which things happened to a subscription.
EventsInLine ==
    /\ \A e, f \in inbox : e.n = f.n => e = f
    /\ \A e \in inbox :
          /\ e.kind = "charge.success" => e.n = sub[e.s].since
          /\ e.kind = "subscription.create" => e.n = sub[e.s].since + 1
          /\ e.kind \in Turned => e.n > sub[e.s].since + 1 /\ sub[e.s].status # "active"
    /\ \A e, f \in inbox :
          e.s = f.s /\ f.kind = "subscription.disable" /\ e # f => e.n < f.n

\* What is not answered is what came last.
LatestLeft ==
    /\ \A s \in Sold, e \in inbox :
          /\ e.n < sub[s].since => Unanswered(s, "charge.success")
          /\ e.n <= sub[s].since => Unanswered(s, "subscription.create")
    /\ \A s \in Sold :
          /\ (sub[s].status = "disabled" /\ ~Unanswered(s, "subscription.disable")) =>
                \A e \in inbox : e.s # s
          /\ (sub[s].status = "attention" /\ ~Unanswered(s, "invoice.payment_failed")) =>
                ~Unanswered(s, "subscription.create")

\* One event is handled at a time, the first that is left.
FirstOf(ev) == ev \in inbox /\ \A e \in inbox : ev.n <= e.n
FirstHandled == \A w \in Workers : job[w].pc \in Handles =>
                    /\ FirstOf(job[w].ev)
                    /\ \A v \in Workers : job[v].pc \in Handles => v = w

InLine == SalesInLine /\ EventsInLine /\ LatestLeft

\* An organisation whose purchase was charged has a customer.  Until the creation of
\* the subscription is answered as well, that is who paid for it; should the
\* organisation be gone and its payer pay for another one, nothing which that one
\* bought has been charged.
CustomerTrue(s, k) ==
    /\ Open(k.o) => org[k.o].customer # Nobody
    /\ Unanswered(s, "subscription.create") =>
          /\ Open(k.o) => org[k.o].customer = k.payer
          /\ ~Open(k.o) => \A o \in Organisations :
                (Open(o) /\ org[o].customer = k.payer) =>
                    \A q \in SoldTo(o) : Unanswered(q, "charge.success")
CustomersTrue ==
    \A s \in Sold : ~Unanswered(s, "charge.success") => CustomerTrue(s, sub[s].sale)

\* An organisation has no code of what another one bought that is still there.
Foreign(o, c) == c # NoCode /\ Open(sub[c].sale.o) /\ sub[c].sale.o # o

\* The rows name the subscription the organisation bought last once its creation
\* has been answered, and say how it is once all that is about it has; of the plan
\* and the status of the organisation that is true unless the platform set them.
Coded(s, o) == /\ org[o].code = s /\ (o \notin managed => org[o].plan = sub[s].sale.plan)
               /\ subscription[o].code = s /\ subscription[o].plan = sub[s].sale.plan
Mirrored(s, o) == /\ o \notin managed => org[o].billing = mapPaystackStatus[sub[s].status]
                  /\ subscription[o].status = mapPaystackStatus[sub[s].status]
RowTrue(o) ==
    /\ ~Foreign(o, org[o].code) /\ ~Foreign(o, subscription[o].code)
    /\ \A s \in SoldTo(o) : (Newest(s, o) /\ ~Unanswered(s, "subscription.create")) =>
          /\ Coded(s, o)
          /\ (\A kind \in Turned : ~Unanswered(s, kind)) => Mirrored(s, o)
RowsTrue == \A o \in Organisations : Open(o) => RowTrue(o)

\* What a handler that was not overtaken goes by.
CodeToCancel(o) == IF org[o].code # NoCode THEN org[o].code ELSE subscription[o].code
MirrorTruth(j) ==
    /\ \A o \in Reads(j) : org[o].state # "none"
    /\ (j.pc = "customer" /\ Open(j.sale.o)) => org[j.sale.o].customer = Nobody
    /\ (j.pc \in {"disable", "cancelOrg", "cancelRow"} /\ Open(j.o)) => j.s = CodeToCancel(j.o)
    /\ j.pc \in {"cancelOrg", "cancelRow"} => j.s \in Sold /\ sub[j.s].status = "disabled"
    /\ (j.pc \in {"syncOrg", "syncRow"} /\ Open(j.o)) =>
          org[j.o].customer = sub[j.ev.s].sale.payer
    /\ (j.pc = "syncRow" /\ Open(j.o)) =>
          /\ org[j.o].code = j.ev.s
          /\ j.o \notin managed => /\ org[j.o].plan = sub[j.ev.s].sale.plan
                                  /\ org[j.o].billing = "ACTIVE"
    /\ (j.pc \in {"statusOrg", "statusRow"} /\ Open(j.o)) => subscription[j.o].code = j.ev.s
    /\ (j.pc = "statusRow" /\ Open(j.o) /\ j.o \notin managed) => org[j.o].billing = j.status

\* What a handler does is what its event asks for.
Suits(j) ==
    /\ j.pc = "charge" => j.ev.kind = "charge.success"
    /\ j.pc \in {"syncOrg", "syncRow"} => j.ev.kind = "subscription.create"
    /\ j.pc \in {"statusOrg", "statusRow"} =>
          \/ j.ev.kind = "subscription.disable" /\ j.status = "CANCELED"
          \/ j.ev.kind = "invoice.payment_failed" /\ j.status = "PAST_DUE"

TruthsTrue == \A w \in Workers \ late : MirrorTruth(job[w])
AllSuit == \A w \in Workers : Suits(job[w])
Mirrors == InLine /\ FirstHandled /\ CustomersTrue /\ RowsTrue /\ AllSuit /\ TruthsTrue
MirrorInv == ~disordered /\ ~staleWrite => Mirrors

LEMMA EventFields ==
    ASSUME BillInv, NEW e \in inbox
    PROVE  /\ e \in Events /\ e.n \in Nat /\ e.n <= emitted /\ e.kind \in Kinds
           /\ e.s \in Sold /\ e.s \in Codes /\ sub[e.s].since \in Nat
           /\ e.kind = "subscription.disable" => sub[e.s].status = "disabled"
<1>1. /\ e \in Events /\ EventKnown(e) /\ sub \in [Codes -> Subs]
  BY DEF BillInv, BillTyped
<1>2. /\ e.n \in Nat /\ e.kind \in Kinds /\ e.s \in Codes
  BY <1>1 DEF Events
<1> QED
  BY <1>1, <1>2, SubFields DEF EventKnown, Live

LEMMA SoldFields ==
    ASSUME BillInv, NEW s \in Sold
    PROVE  /\ s \in Codes /\ sub[s].since \in Nat /\ sub[s].status \in SubStatus
           /\ sub[s].sale.o \in Organisations /\ sub[s].sale.payer \in Emails
           /\ s \in SoldTo(sub[s].sale.o)
BY SubFields DEF BillInv, BillTyped, SoldTo

\* Of two subscriptions of an organisation at most one is the newest.
LEMMA OneNewest ==
    ASSUME BillInv, SalesInLine, NEW o, NEW s, NEW t, Newest(s, o), Newest(t, o)
    PROVE  s = t
<1>1. s \in Sold /\ t \in Sold /\ sub[s].since \in Nat /\ sub[t].since \in Nat
  BY SoldFields DEF Newest, SoldTo
<1>2. sub[s].since <= sub[t].since /\ sub[t].since <= sub[s].since
  BY DEF Newest
<1> QED
  BY <1>1, <1>2 DEF SalesInLine

(***************************************************************************)
(* A subscription turns, and an event about it is emitted.                 *)
(***************************************************************************)
TurnsTo(s, st, kind) ==
    \/ kind = "invoice.payment_failed" /\ st = "attention" /\ sub[s].status = "active"
    \/ kind = "subscription.disable" /\ st = "disabled"

\* What a turn of s leaves as it was, and what it adds.
Turning(s, kind) ==
    /\ Sold' = Sold
    /\ \A q \in Sold : sub'[q].sale = sub[q].sale /\ sub'[q].since = sub[q].since
    /\ \A q \in Sold \ {s} : sub'[q].status = sub[q].status
    /\ \A q, k : Unanswered(q, k)' <=> (Unanswered(q, k) \/ (q = s /\ k = kind))

LEMMA TurnShape ==
    ASSUME BillInv, OrganisationsTyped, NEW s \in Sold, NEW st \in SubStatus, NEW kind \in Turned,
           SubTurns(s, st, kind)
    PROVE  /\ Turning(s, kind) /\ sub'[s].status = st
           /\ emitted' = emitted + 1 /\ emitted \in Nat
           /\ \E f : /\ inbox' = inbox \cup {f} /\ f.n = emitted' /\ f.kind = kind /\ f.s = s
                     /\ f \notin inbox
<1>1. sub \in [Codes -> Subs] /\ emitted \in Nat
  BY DEF BillInv, BillTyped
<1>2. /\ s \in Codes
      /\ sub[s] = [status |-> sub[s].status, sale |-> sub[s].sale, since |-> sub[s].since,
                   second |-> sub[s].second]
  BY <1>1, SubFields
<1>3. PICK row : row = [status |-> st, sale |-> sub[s].sale, since |-> sub[s].since,
                        second |-> sub[s].second]
  OBVIOUS
<1>4. [sub[s] EXCEPT !.status = st] = row
  BY <1>2, <1>3
<1>5. sub' = [sub EXCEPT ![s] = row]
  BY <1>4 DEF SubTurns
<1>6. /\ sub'[s] = row /\ \A q \in Codes \ {s} : sub'[q] = sub[q]
      /\ row # Unsold /\ row.status = st /\ row.sale = sub[s].sale /\ row.since = sub[s].since
  BY <1>1, <1>2, <1>3, <1>5 DEF Unsold
<1>7. Sold' = Sold
  BY <1>6 DEF Sold
<1>8. \A q \in Sold : q \in Codes
  BY DEF Sold
<1>9. PICK f : f = Event(emitted', kind, s, FALSE)
  OBVIOUS
<1>10. /\ inbox' = inbox \cup {f} /\ f.n = emitted' /\ f.kind = kind /\ f.s = s
       /\ emitted' = emitted + 1
  BY <1>9 DEF SubTurns, Emit, Event
<1>11. f \notin inbox
  BY <1>1, <1>10, EventFields
<1>12. \A q, k : Unanswered(q, k)' <=> (Unanswered(q, k) \/ (q = s /\ k = kind))
  BY <1>10 DEF Unanswered
<1>13. \A q \in Sold : sub'[q].sale = sub[q].sale /\ sub'[q].since = sub[q].since
  BY <1>6, <1>8
<1>14. \A q \in Sold \ {s} : sub'[q].status = sub[q].status
  BY <1>6, <1>8
<1> QED
  BY <1>1, <1>6, <1>7, <1>10, <1>11, <1>12, <1>13, <1>14 DEF Turning

LEMMA TurnInLine ==
    ASSUME BillInv, OrganisationsTyped, InLine, NEW s \in Sold, NEW st \in SubStatus,
           NEW kind \in Turned, SubTurns(s, st, kind), TurnsTo(s, st, kind)
    PROVE  InLine'
<1>1. /\ Turning(s, kind) /\ sub'[s].status = st
      /\ emitted' = emitted + 1 /\ emitted \in Nat /\ sub[s].status # "disabled"
  BY TurnShape DEF SubTurns
<1>2. PICK f : /\ inbox' = inbox \cup {f} /\ f.n = emitted' /\ f.kind = kind /\ f.s = s
               /\ f \notin inbox
  BY TurnShape
<1>3. \A q \in Sold : sub[q].since \in Nat /\ sub[q].since + 1 <= emitted
  BY SoldFields DEF InLine, SalesInLine
<1>4. \A e \in inbox : /\ e.n \in Nat /\ e.n <= emitted /\ e.s \in Sold
                       /\ e.kind = "subscription.disable" => sub[e.s].status = "disabled"
  BY EventFields
<1>5. SalesInLine'
  <2>1. \A o : SoldTo(o)' = SoldTo(o) /\ \A q \in SoldTo(o) : q \in Sold
    BY <1>1 DEF Turning, SoldTo
  <2>2. \A o, q : Newest(q, o) => Newest(q, o)'
    BY <1>1, <2>1 DEF Turning, Newest
  <2>3. \A q \in Sold' : sub'[q].since + 1 <= emitted'
    BY <1>1, <1>3 DEF Turning
  <2> QED
    BY <1>1, <2>1, <2>2, <2>3 DEF InLine, SalesInLine, Turning
<1>6. EventsInLine'
  <2>1. \A e, g \in inbox' : e.n = g.n => e = g
    BY <1>1, <1>2, <1>4 DEF InLine, EventsInLine
  <2>2. ASSUME NEW e \in inbox'
        PROVE  /\ e.kind = "charge.success" => e.n = sub'[e.s].since
               /\ e.kind = "subscription.create" => e.n = sub'[e.s].since + 1
               /\ e.kind \in Turned => e.n > sub'[e.s].since + 1 /\ sub'[e.s].status # "active"
    <3>1. CASE e \in inbox
      <4>1. /\ e.s \in Sold /\ sub'[e.s].since = sub[e.s].since
            /\ sub'[e.s].status = sub[e.s].status \/ e.s = s
        BY <1>1, <1>4, <3>1 DEF Turning
      <4>2. st # "active"
        BY DEF TurnsTo
      <4> QED
        BY <1>1, <3>1, <4>1, <4>2 DEF InLine, EventsInLine
    <3>2. CASE e = f
      <4>1. e.kind = kind /\ e.s = s /\ e.n = emitted + 1
        BY <1>1, <1>2, <3>2
      <4>2. st # "active" /\ kind # "charge.success" /\ kind # "subscription.create"
        BY DEF TurnsTo
      <4>3. e.n > sub'[s].since + 1
        BY <1>1, <1>3, <4>1 DEF Turning
      <4> QED
        BY <1>1, <4>1, <4>2, <4>3
    <3> QED
      BY <1>2, <3>1, <3>2
  <2>3. ASSUME NEW e \in inbox', NEW g \in inbox', e.s = g.s, g.kind = "subscription.disable", e # g
        PROVE  e.n < g.n
    <3>1. CASE g = f
      BY <1>1, <1>2, <1>4, <2>3, <3>1
    <3>2. CASE g \in inbox
      <4>1. g.s # s
        BY <1>1, <1>4, <2>3, <3>2
      <4>2. e \in inbox
        BY <1>2, <2>3, <4>1
      <4> QED
        BY <2>3, <3>2, <4>2 DEF InLine, EventsInLine
    <3> QED
      BY <1>2, <3>1, <3>2
  <2> QED
    BY <2>1, <2>2, <2>3 DEF EventsInLine
<1>7. LatestLeft'
  <2>1. ASSUME NEW q \in Sold', NEW e \in inbox'
        PROVE  /\ e.n < sub'[q].since => Unanswered(q, "charge.success")'
               /\ e.n <= sub'[q].since => Unanswered(q, "subscription.create")'
    <3>1. q \in Sold /\ sub'[q].since = sub[q].since
      BY <1>1 DEF Turning
    <3>2. CASE e \in inbox
      BY <1>1, <3>1, <3>2 DEF InLine, LatestLeft, Turning
    <3>3. CASE e = f
      BY <1>1, <1>2, <1>3, <3>1, <3>3
    <3> QED
      BY <1>2, <3>2, <3>3
  <2>2. ASSUME NEW q \in Sold', sub'[q].status = "disabled", ~Unanswered(q, "subscription.disable")'
        PROVE  \A e \in inbox' : e.s # q
    <3>1. q \in Sold /\ ~Unanswered(q, "subscription.disable")
      BY <1>1, <2>2 DEF Turning
    <3>2. q # s
      BY <1>1, <2>2 DEF Turning, TurnsTo
    <3>3. sub[q].status = "disabled"
      BY <1>1, <2>2, <3>1, <3>2 DEF Turning
    <3>4. \A e \in inbox : e.s # q
      BY <3>1, <3>3 DEF InLine, LatestLeft
    <3> QED
      BY <1>2, <3>2, <3>4
  <2>3. ASSUME NEW q \in Sold', sub'[q].status = "attention",
               ~Unanswered(q, "invoice.payment_failed")'
        PROVE  ~Unanswered(q, "subscription.create")'
    <3>1. q \in Sold /\ ~Unanswered(q, "invoice.payment_failed") /\ kind # "subscription.create"
      BY <1>1, <2>3 DEF Turning, TurnsTo
    <3>2. q # s
      BY <1>1, <2>3 DEF Turning, TurnsTo
    <3>3. sub[q].status = "attention"
      BY <1>1, <2>3, <3>1, <3>2 DEF Turning
    <3>4. ~Unanswered(q, "subscription.create")
      BY <3>1, <3>3 DEF InLine, LatestLeft
    <3> QED
      BY <1>1, <3>1, <3>4 DEF Turning
  <2> QED
    BY <2>1, <2>2, <2>3 DEF LatestLeft
<1> QED
  BY <1>5, <1>6, <1>7 DEF InLine

(***************************************************************************)
(* A page is paid.                                                         *)
(***************************************************************************)
Paying(s) ==
    /\ s \in Codes \ Sold /\ Sold' = Sold \cup {s}
    /\ \A q \in Sold : sub'[q] = sub[q]
    /\ sub'[s].status = "active" /\ sub'[s].since = emitted + 1
    /\ emitted' = emitted + 2 /\ emitted \in Nat
    /\ \A q, k : Unanswered(q, k)' <=>
          \/ Unanswered(q, k)
          \/ q = s /\ k \in {"charge.success", "subscription.create"}

LEMMA PayShape ==
    ASSUME BillInv, Pay
    PROVE  \E s : /\ Paying(s)
                  /\ \E f, g : /\ inbox' = inbox \cup {f, g}
                               /\ f.n = emitted + 1 /\ f.kind = "charge.success" /\ f.s = s
                               /\ g.n = emitted + 2 /\ g.kind = "subscription.create" /\ g.s = s
<1>1. PICK k \in checkouts, s \in Codes \ Sold, coded \in BOOLEAN :
        /\ sub' = [sub EXCEPT ![s] = [status |-> "active", sale |-> k, since |-> emitted + 1,
                                      second |-> \E q \in SoldTo(k.o) : Live(q)]]
        /\ emitted' = emitted + 2
        /\ inbox' = inbox \cup {Event(emitted + 1, "charge.success", s, coded),
                                Event(emitted + 2, "subscription.create", s, FALSE)}
  BY DEF Pay
<1>2. sub \in [Codes -> Subs] /\ emitted \in Nat
  BY DEF BillInv, BillTyped
<1>3. /\ sub'[s].status = "active" /\ sub'[s].since = emitted + 1 /\ sub'[s] # Unsold
      /\ \A q \in Codes \ {s} : sub'[q] = sub[q]
  BY <1>1, <1>2 DEF Unsold
<1>4. Sold' = Sold \cup {s} /\ \A q \in Sold : sub'[q] = sub[q]
  BY <1>3 DEF Sold
<1>5. PICK f, g : /\ f = Event(emitted + 1, "charge.success", s, coded)
                  /\ g = Event(emitted + 2, "subscription.create", s, FALSE)
  OBVIOUS
<1>6. /\ inbox' = inbox \cup {f, g}
      /\ f.n = emitted + 1 /\ f.kind = "charge.success" /\ f.s = s
      /\ g.n = emitted + 2 /\ g.kind = "subscription.create" /\ g.s = s
  BY <1>1, <1>5 DEF Event
<1>7. \A q, k2 : Unanswered(q, k2)' <=>
          \/ Unanswered(q, k2)
          \/ q = s /\ k2 \in {"charge.success", "subscription.create"}
  BY <1>6 DEF Unanswered
<1>8. Paying(s)
  BY <1>1, <1>2, <1>3, <1>4, <1>7 DEF Paying
<1> QED
  BY <1>6, <1>8

LEMMA PayInLine ==
    ASSUME BillInv, InLine, Pay
    PROVE  InLine'
<1>1. PICK s : /\ Paying(s)
               /\ \E f, g : /\ inbox' = inbox \cup {f, g}
                            /\ f.n = emitted + 1 /\ f.kind = "charge.success" /\ f.s = s
                            /\ g.n = emitted + 2 /\ g.kind = "subscription.create" /\ g.s = s
  BY PayShape
<1>2. PICK f, g : /\ inbox' = inbox \cup {f, g}
                  /\ f.n = emitted + 1 /\ f.kind = "charge.success" /\ f.s = s
                  /\ g.n = emitted + 2 /\ g.kind = "subscription.create" /\ g.s = s
  BY <1>1
<1>3. /\ \A q \in Sold : sub[q].since \in Nat /\ sub[q].since + 1 <= emitted /\ sub'[q] = sub[q]
      /\ Sold' = Sold \cup {s} /\ s \notin Sold /\ emitted \in Nat
      /\ sub'[s].since = emitted + 1 /\ sub'[s].status = "active" /\ emitted' = emitted + 2
  BY <1>1, SoldFields DEF InLine, SalesInLine, Paying
<1>4. \A e \in inbox : /\ e.n \in Nat /\ e.n <= emitted /\ e.s \in Sold
                       /\ sub[e.s].since \in Nat
  BY EventFields
<1>5. SalesInLine'
  <2>1. \A q \in Sold' : sub'[q].since + 1 <= emitted'
    BY <1>3
  <2>2. ASSUME NEW p \in Sold', NEW q \in Sold', p # q
        PROVE  \/ sub'[p].since + 1 < sub'[q].since
               \/ sub'[q].since + 1 < sub'[p].since
    <3>1. CASE p \in Sold /\ q \in Sold
      BY <1>3, <2>2, <3>1 DEF InLine, SalesInLine
    <3>2. CASE p = s \/ q = s
      BY <1>3, <2>2, <3>2
    <3> QED
      BY <1>3, <3>1, <3>2
  <2>3. ASSUME NEW o \in Organisations, NEW r \in SoldTo(o)'
        PROVE  \E t \in SoldTo(o)' : Newest(t, o)'
    <3>1. \A q \in SoldTo(o)' : q = s \/ (q \in SoldTo(o) /\ q \in Sold)
      BY <1>3 DEF SoldTo
    <3>2. CASE s \in SoldTo(o)'
      <4>1. \A q \in SoldTo(o)' : sub'[q].since <= sub'[s].since
        BY <1>3, <3>1
      <4> QED
        BY <3>2, <4>1 DEF Newest
    <3>3. CASE s \notin SoldTo(o)'
      <4>1. r \in SoldTo(o) /\ \A q \in SoldTo(o)' : q \in SoldTo(o)
        BY <3>1, <3>3
      <4>2. PICK t \in SoldTo(o) : Newest(t, o)
        BY <4>1 DEF InLine, SalesInLine
      <4>3. t \in SoldTo(o)'
        BY <1>3, <4>2 DEF SoldTo
      <4>4. \A q \in SoldTo(o)' : sub'[q].since <= sub'[t].since
        BY <1>3, <4>1, <4>2 DEF Newest, SoldTo
      <4> QED
        BY <4>3, <4>4 DEF Newest
    <3> QED
      BY <3>2, <3>3
  <2> QED
    BY <2>1, <2>2, <2>3 DEF SalesInLine
<1>6. EventsInLine'
  <2>1. \A e, h \in inbox' : e.n = h.n => e = h
    <3>1. \A e \in inbox : e.n # f.n /\ e.n # g.n
      BY <1>2, <1>3, <1>4
    <3>2. f.n # g.n
      BY <1>2, <1>3
    <3> QED
      BY <1>2, <3>1, <3>2 DEF InLine, EventsInLine
  <2>2. ASSUME NEW e \in inbox'
        PROVE  /\ e.kind = "charge.success" => e.n = sub'[e.s].since
               /\ e.kind = "subscription.create" => e.n = sub'[e.s].since + 1
               /\ e.kind \in Turned => e.n > sub'[e.s].since + 1 /\ sub'[e.s].status # "active"
    <3>1. CASE e \in inbox
      BY <1>3, <1>4, <3>1 DEF InLine, EventsInLine
    <3>2. CASE e \in {f, g}
      BY <1>2, <1>3, <3>2 DEF Turned
    <3> QED
      BY <1>2, <3>1, <3>2
  <2>3. ASSUME NEW e \in inbox', NEW h \in inbox', e.s = h.s, h.kind = "subscription.disable", e # h
        PROVE  e.n < h.n
    <3>1. h \in inbox /\ h.s # s
      BY <1>2, <1>3, <1>4, <2>3
    <3>2. e \in inbox
      BY <1>2, <2>3, <3>1
    <3> QED
      BY <2>3, <3>1, <3>2 DEF InLine, EventsInLine
  <2> QED
    BY <2>1, <2>2, <2>3 DEF EventsInLine
<1>7. LatestLeft'
  <2>1. ASSUME NEW q \in Sold', NEW e \in inbox'
        PROVE  /\ e.n < sub'[q].since => Unanswered(q, "charge.success")'
               /\ e.n <= sub'[q].since => Unanswered(q, "subscription.create")'
    <3>1. CASE q = s
      BY <1>1, <3>1 DEF Paying
    <3>2. CASE q \in Sold /\ e \in inbox
      BY <1>1, <3>2 DEF InLine, LatestLeft, Paying
    <3>3. CASE q \in Sold /\ e \in {f, g}
      BY <1>2, <1>3, <3>3
    <3> QED
      BY <1>2, <1>3, <3>1, <3>2, <3>3
  <2>2. ASSUME NEW q \in Sold'
        PROVE  /\ (sub'[q].status = "disabled" /\ ~Unanswered(q, "subscription.disable")') =>
                     \A e \in inbox' : e.s # q
               /\ (sub'[q].status = "attention" /\ ~Unanswered(q, "invoice.payment_failed")') =>
                     ~Unanswered(q, "subscription.create")'
    <3>1. CASE q = s
      BY <1>3, <3>1
    <3>2. CASE q \in Sold
      BY <1>1, <1>2, <1>3, <3>2 DEF InLine, LatestLeft, Paying
    <3> QED
      BY <1>3, <3>1, <3>2
  <2> QED
    BY <2>1, <2>2 DEF LatestLeft
<1> QED
  BY <1>5, <1>6, <1>7 DEF InLine

(***************************************************************************)
(* The first event that is left is answered.                               *)
(***************************************************************************)
LEMMA AnswerTakes ==
    ASSUME BillInv, InLine, NEW ev, FirstOf(ev), inbox' \in {inbox, inbox \ {ev}}
    PROVE  /\ inbox' \subseteq inbox
           /\ \A q, k : Unanswered(q, k)' => Unanswered(q, k)
           /\ \A q, k : (Unanswered(q, k) /\ ~Unanswered(q, k)') => q = ev.s /\ k = ev.kind
BY DEF Unanswered

LEMMA InLineStays ==
    ASSUME InLine, UNCHANGED <<sub, inbox, emitted>>
    PROVE  InLine'
BY DEF InLine, SalesInLine, EventsInLine, LatestLeft, Sold, SoldTo, Newest, Unanswered

LEMMA AnswerInLine ==
    ASSUME BillInv, InLine, NEW ev, FirstOf(ev), inbox' \in {inbox, inbox \ {ev}},
           UNCHANGED <<sub, emitted>>
    PROVE  InLine'
<1>1. CASE inbox' = inbox
  BY <1>1, InLineStays
<1>2. CASE inbox' = inbox \ {ev}
  <2>1. /\ ev \in inbox /\ \A e \in inbox : ev.n <= e.n
        /\ Sold' = Sold /\ inbox' \subseteq inbox
        /\ \A q, k : Unanswered(q, k)' => Unanswered(q, k)
    BY <1>2, AnswerTakes DEF FirstOf, Sold
  <2>2. SalesInLine' /\ EventsInLine'
    BY <2>1 DEF InLine, SalesInLine, EventsInLine, Sold, SoldTo, Newest
  <2>3. \A e \in inbox' : ev.n < e.n
    <3> SUFFICES ASSUME NEW e \in inbox' PROVE ev.n < e.n
      OBVIOUS
    <3>1. e \in inbox /\ e # ev /\ e.n \in Nat /\ ev.n \in Nat /\ ev.n <= e.n
      BY <1>2, <2>1, EventFields
    <3>2. e.n # ev.n
      BY <2>1, <3>1 DEF InLine, EventsInLine
    <3> QED
      BY <3>1, <3>2
  <2>4. ASSUME NEW q \in Sold', NEW e \in inbox'
        PROVE  /\ e.n < sub'[q].since => Unanswered(q, "charge.success")'
               /\ e.n <= sub'[q].since => Unanswered(q, "subscription.create")'
    <3>1. /\ q \in Sold /\ e \in inbox /\ ev.n \in Nat /\ e.n \in Nat /\ ev.n < e.n
          /\ sub[q].since \in Nat
      BY <2>1, <2>3, EventFields, SoldFields
    <3>2. /\ ev.kind = "charge.success" => ev.n = sub[ev.s].since
          /\ ev.kind = "subscription.create" => ev.n = sub[ev.s].since + 1
      BY <2>1 DEF InLine, EventsInLine
    <3>3. ASSUME e.n < sub[q].since PROVE Unanswered(q, "charge.success")'
      <4>1. Unanswered(q, "charge.success")
        BY <3>1, <3>3 DEF InLine, LatestLeft
      <4>2. ~(q = ev.s /\ ev.kind = "charge.success")
        BY <3>1, <3>2, <3>3
      <4> QED
        BY <4>1, <4>2, AnswerTakes
    <3>4. ASSUME e.n <= sub[q].since PROVE Unanswered(q, "subscription.create")'
      <4>1. Unanswered(q, "subscription.create")
        BY <3>1, <3>4 DEF InLine, LatestLeft
      <4>2. ~(q = ev.s /\ ev.kind = "subscription.create")
        BY <3>1, <3>2, <3>4
      <4> QED
        BY <4>1, <4>2, AnswerTakes
    <3> QED
      BY <3>3, <3>4
  <2>5. ASSUME NEW q \in Sold, sub[q].status = "disabled", ~Unanswered(q, "subscription.disable")',
               NEW e \in inbox'
        PROVE  e.s # q
    <3>1. CASE ~Unanswered(q, "subscription.disable")
      BY <2>1, <2>5, <3>1 DEF InLine, LatestLeft
    <3>2. CASE Unanswered(q, "subscription.disable")
      <4>1. ev.s = q /\ ev.kind = "subscription.disable"
        BY <2>5, <3>2, AnswerTakes
      <4>2. ev.n < e.n /\ e \in inbox /\ e.n \in Nat /\ ev.n \in Nat /\ e # ev
        BY <1>2, <2>1, <2>3, EventFields
      <4>3. e.s = q => e.n < ev.n
        BY <2>1, <4>1, <4>2 DEF InLine, EventsInLine
      <4> QED
        BY <4>2, <4>3
    <3> QED
      BY <3>1, <3>2
  <2>6. ASSUME NEW q \in Sold, sub[q].status = "attention",
               ~Unanswered(q, "invoice.payment_failed")'
        PROVE  ~Unanswered(q, "subscription.create")'
    <3>1. CASE ~Unanswered(q, "invoice.payment_failed")
      BY <2>1, <2>6, <3>1 DEF InLine, LatestLeft
    <3>2. CASE Unanswered(q, "invoice.payment_failed")
      <4>1. ev.s = q /\ ev.kind \in Turned
        BY <2>6, <3>2, AnswerTakes DEF Turned
      <4>2. ev.n > sub[q].since + 1
        BY <2>1, <4>1 DEF InLine, EventsInLine
      <4> SUFFICES ASSUME NEW e \in inbox', e.s = q, e.kind = "subscription.create" PROVE FALSE
        BY DEF Unanswered
      <4>3. e.n = sub[q].since + 1 /\ ev.n < e.n
        BY <2>1, <2>3 DEF InLine, EventsInLine
      <4> QED
        BY <2>1, <4>2, <4>3, EventFields, SoldFields
    <3> QED
      BY <3>1, <3>2
  <2>7. LatestLeft'
    BY <2>1, <2>4, <2>5, <2>6 DEF LatestLeft
  <2> QED
    BY <2>2, <2>7 DEF InLine
<1> QED
  BY <1>1, <1>2

(***************************************************************************)
(* What a step leaves true that changes little of what it is about.        *)
(***************************************************************************)
LEMMA HandledStay ==
    ASSUME BillInv, FirstHandled, inbox \subseteq inbox',
           \A e \in inbox' : e \in inbox \/ (e.n \in Nat /\ e.n > emitted),
           \A w \in Workers : job'[w].pc \in Handles =>
              job[w].pc \in Handles /\ job'[w].ev = job[w].ev
    PROVE  FirstHandled'
<1> SUFFICES ASSUME NEW w \in Workers, job'[w].pc \in Handles
             PROVE  /\ FirstOf(job[w].ev)'
                    /\ \A v \in Workers : job'[v].pc \in Handles => v = w
  BY DEF FirstHandled
<1>1. PICK ev : ev = job[w].ev
  OBVIOUS
<1>2. ev \in inbox /\ \A e \in inbox : ev.n <= e.n
  BY <1>1 DEF FirstHandled, FirstOf
<1>3. ev.n \in Nat /\ ev.n <= emitted /\ emitted \in Nat
  BY <1>2, EventFields DEF BillInv, BillTyped
<1>4. \A e \in inbox' : ev.n <= e.n
  BY <1>2, <1>3
<1>5. job'[w].ev = ev
  BY <1>1
<1> QED
  BY <1>2, <1>4, <1>5 DEF FirstHandled, FirstOf

LEMMA HandledAnswered ==
    ASSUME FirstHandled, NEW w \in Workers, job[w].pc \in Handles, job'[w] = Resting,
           \A v \in Workers \ {w} : job'[v] = job[v]
    PROVE  FirstHandled'
<1>1. Resting.pc \notin Handles
  BY DEF Resting, Handles
<1> QED
  BY <1>1 DEF FirstHandled

LEMMA CustomersStay ==
    ASSUME BillInv, CustomersTrue, SubsEndure,
           \A s \in Sold' : s \in Sold \/ Unanswered(s, "charge.success")',
           \A o \in Organisations : /\ org'[o].state = org[o].state
                                    /\ org'[o].customer = org[o].customer,
           \A s \in Sold :
              /\ Unanswered(s, "charge.success")' <=> Unanswered(s, "charge.success")
              /\ Unanswered(s, "subscription.create")' => Unanswered(s, "subscription.create")
    PROVE  CustomersTrue'
<1> SUFFICES ASSUME NEW s \in Sold', ~Unanswered(s, "charge.success")',
                    NEW k, k = sub'[s].sale
             PROVE  CustomerTrue(s, k)'
  BY DEF CustomersTrue
<1>1. s \in Sold /\ ~Unanswered(s, "charge.success") /\ k = sub[s].sale /\ k.o \in Organisations
  BY SoldFields DEF SubsEndure
<1>2. \A o \in Organisations : Open(o)' <=> Open(o)
  BY DEF Open
<1>3. CustomerTrue(s, k)
  BY <1>1 DEF CustomersTrue
<1>4. ASSUME NEW o \in Organisations, NEW q \in SoldTo(o)',
             \A p \in SoldTo(o) : Unanswered(p, "charge.success")
      PROVE  Unanswered(q, "charge.success")'
  <2>1. q \in Sold' /\ sub'[q].sale.o = o
    BY DEF SoldTo
  <2>2. CASE q \in Sold
    <3>1. q \in SoldTo(o)
      BY <2>1, <2>2 DEF SoldTo, SubsEndure
    <3> QED
      BY <1>4, <2>2, <3>1
  <2> QED
    BY <2>1, <2>2
<1> QED
  BY <1>1, <1>2, <1>3, <1>4 DEF CustomerTrue

\* Nothing about the subscription o bought last is answered.
NothingNew(s, o) ==
    (Newest(s, o)' /\ ~Unanswered(s, "subscription.create")') =>
        /\ Newest(s, o) /\ ~Unanswered(s, "subscription.create")
        /\ (\A kind \in Turned : ~Unanswered(s, kind)') =>
              /\ \A kind \in Turned : ~Unanswered(s, kind)
              /\ sub'[s].status = sub[s].status

LEMMA CodesKnown ==
    ASSUME BillInv, NEW o \in Organisations
    PROVE  /\ org[o].code # NoCode => org[o].code \in Sold
           /\ subscription[o].code # NoCode => subscription[o].code \in Sold
BY DEF BillInv, OrganisationPays, CodeTrue

LEMMA NotForeign ==
    ASSUME BillInv, SubsEndure, OrgsKeepMembers, NEW o, NEW c,
           c # NoCode => c \in Sold, ~Foreign(o, c)
    PROVE  ~Foreign(o, c)'
<1> SUFFICES ASSUME c \in Sold, Foreign(o, c)' PROVE FALSE
  BY DEF Foreign
<1>1. sub'[c].sale = sub[c].sale /\ sub[c].sale.o \in Organisations
  BY SoldFields DEF SubsEndure
<1>2. org[sub[c].sale.o].state # "none"
  BY DEF BillInv, SaleTrue
<1>3. org'[sub[c].sale.o].state = "open" /\ sub[c].sale.o # o /\ c # NoCode
  BY <1>1 DEF Foreign, Open
<1>4. Open(sub[c].sale.o)
  BY <1>1, <1>2, <1>3 DEF OrgsKeepMembers, Open
<1> QED
  BY <1>3, <1>4 DEF Foreign

\* The plan and the status are as they were, or set by the platform; and so is what
\* else a handler goes by.
PlanKept(o) ==
    \/ o \in managed'
    \/ o \notin managed /\ org'[o].plan = org[o].plan /\ org'[o].billing = org[o].billing
Settled(o) == /\ org'[o].customer = org[o].customer /\ org'[o].code = org[o].code
              /\ subscription'[o] = subscription[o] /\ PlanKept(o)

LEMMA RowStays ==
    ASSUME BillInv, SubsEndure, OrgsKeepMembers, NEW o \in Organisations, RowTrue(o),
           org'[o].code = org[o].code, PlanKept(o), subscription'[o] = subscription[o],
           \A s \in SoldTo(o)' : NothingNew(s, o)
    PROVE  RowTrue(o)'
<1>1. ~Foreign(o, org[o].code)' /\ ~Foreign(o, subscription[o].code)'
  <2>1. PICK c, d : c = org[o].code /\ d = subscription[o].code
    OBVIOUS
  <2>2. ~Foreign(o, c)' /\ ~Foreign(o, d)'
    BY <2>1, CodesKnown, NotForeign DEF RowTrue
  <2> QED
    BY <2>1, <2>2 DEF Foreign
<1>2. ASSUME NEW s \in SoldTo(o)', Newest(s, o)', ~Unanswered(s, "subscription.create")'
      PROVE  /\ Coded(s, o)'
             /\ (\A kind \in Turned : ~Unanswered(s, kind)') => Mirrored(s, o)'
  <2>1. /\ Newest(s, o) /\ ~Unanswered(s, "subscription.create")
        /\ (\A kind \in Turned : ~Unanswered(s, kind)') =>
              /\ \A kind \in Turned : ~Unanswered(s, kind)
              /\ sub'[s].status = sub[s].status
    BY <1>2 DEF NothingNew
  <2>2. s \in SoldTo(o) /\ s \in Sold /\ sub'[s].sale = sub[s].sale
    BY <2>1 DEF Newest, SoldTo, SubsEndure
  <2>3. Coded(s, o) /\ ((\A kind \in Turned : ~Unanswered(s, kind)) => Mirrored(s, o))
    BY <2>1, <2>2 DEF RowTrue
  <2> QED
    BY <2>1, <2>2, <2>3 DEF Coded, Mirrored, PlanKept
<1> QED
  BY <1>1, <1>2 DEF RowTrue

\* What a handler goes by stays true as long as nobody writes the rows it read.
LEMMA TruthRemains ==
    ASSUME BillInv, SubsEndure, OrgsKeepMembers, NEW j \in Jobs, JobKnown(j), MirrorTruth(j),
           \A o \in Reads(j) : Open(o)' => Settled(o)
    PROVE  MirrorTruth(j)'
<1>1. ASSUME NEW o \in Reads(j)
      PROVE  /\ o \in Organisations /\ org'[o].state # "none"
             /\ Open(o)' => /\ Open(o) /\ CodeToCancel(o)' = CodeToCancel(o)
                            /\ org'[o].customer = org[o].customer /\ org'[o].code = org[o].code
                            /\ subscription'[o] = subscription[o] /\ PlanKept(o)
  <2>1. o \in Organisations
    BY JobFields DEF Reads, Handles, Checkouts
  <2>2. org[o].state # "none"
    BY DEF MirrorTruth
  <2> QED
    BY <2>1, <2>2 DEF OrgsKeepMembers, Open, CodeToCancel, Settled
<1>2. /\ j.pc = "customer" => j.sale.o \in Reads(j)
      /\ j.pc \in {"disable", "cancelOrg", "cancelRow", "syncOrg", "syncRow", "statusOrg",
                   "statusRow"} => j.o \in Reads(j)
  BY DEF Reads
<1>3. /\ j.pc \in {"syncOrg", "syncRow"} => sub'[j.ev.s].sale = sub[j.ev.s].sale
      /\ j.pc \in {"cancelOrg", "cancelRow"} => j.s \in Sold' /\ sub'[j.s].status = "disabled"
  BY DEF JobKnown, EventKnown, Handles, SubsEndure, MirrorTruth
<1> QED
  BY <1>1, <1>2, <1>3 DEF MirrorTruth, PlanKept

\* The others have not read what w writes, or have been overtaken.
LEMMA TruthsAfterWrite ==
    ASSUME BillInv, TruthsTrue, SubsEndure, OrgsKeepMembers, NEW w \in Workers, NEW j \in Jobs,
           NEW o \in Organisations, Write(w, j, o), ~staleWrite', MirrorTruth(j)',
           \A p \in Organisations \ {o} : Settled(p)
    PROVE  TruthsTrue'
<1> SUFFICES ASSUME NEW v \in Workers, v \notin late' PROVE MirrorTruth(job[v])'
  BY DEF TruthsTrue
<1>1. /\ job'[w] = j
      /\ v # w => /\ job'[v] = job[v] /\ v \notin late
                  /\ job[v] = Resting \/ o \notin Reads(job[v])
  BY WriteDoes DEF BillInv
<1>2. CASE v = w
  BY <1>1, <1>2 DEF MirrorTruth, Reads
<1>3. CASE v # w
  <2>1. PICK i : i = job[v]
    OBVIOUS
  <2>2. i \in Jobs /\ JobKnown(i) /\ MirrorTruth(i) /\ o \notin Reads(i)
    BY <1>1, <1>3, <2>1 DEF BillInv, BillTyped, TruthsTrue, Reads, Resting
  <2>3. \A p \in Reads(i) : p \in Organisations
    BY <2>2, JobFields DEF Reads, Handles, Checkouts
  <2>4. MirrorTruth(i)'
    BY <2>2, <2>3, TruthRemains
  <2> QED
    BY <1>1, <1>3, <2>1, <2>4 DEF MirrorTruth, Reads
<1> QED
  BY <1>2, <1>3

(***************************************************************************)
(* Steps that write no row: a request is read, a page opened, a handler    *)
(* fails, a subscription turns or is bought.                               *)
(***************************************************************************)
JobsGoOn == \A v \in Workers :
    \/ job'[v] = job[v] /\ (v \notin late' => v \notin late)
    \/ job'[v].pc \notin Handles /\ (v \notin late' => MirrorTruth(job[v])')

LEMMA RowsUnwritten ==
    ASSUME BillInv, Mirrors, SubsEndure, UNCHANGED account, InLine', JobsGoOn,
           \A o \in Organisations : org'[o].state = org[o].state /\ Settled(o),
           inbox \subseteq inbox', \A e \in inbox' : e \in inbox \/ (e.n \in Nat /\ e.n > emitted),
           \A s \in Sold' : s \in Sold \/ Unanswered(s, "charge.success")',
           \A s \in Sold :
              /\ Unanswered(s, "charge.success")' <=> Unanswered(s, "charge.success")
              /\ Unanswered(s, "subscription.create")' => Unanswered(s, "subscription.create"),
           \A o \in Organisations : \A s \in SoldTo(o)' : NothingNew(s, o)
    PROVE  Mirrors'
<1>1. OrgsKeepMembers /\ \A o \in Organisations : Open(o)' <=> Open(o)
  BY DEF OrgsKeepMembers, Open
<1>2. FirstHandled'
  BY HandledStay DEF JobsGoOn, Mirrors
<1>3. CustomersTrue'
  BY CustomersStay DEF Mirrors, Settled
<1>4. RowsTrue'
  BY <1>1, RowStays DEF Mirrors, RowsTrue, Settled
<1>5. AllSuit'
  BY DEF AllSuit, Mirrors, JobsGoOn, Suits, Handles
<1>6. TruthsTrue'
  <2> SUFFICES ASSUME NEW v \in Workers, v \notin late', v \notin late, job'[v] = job[v]
               PROVE  MirrorTruth(job[v])'
    BY DEF TruthsTrue, JobsGoOn
  <2>1. PICK j : j = job[v]
    OBVIOUS
  <2>2. j \in Jobs /\ JobKnown(j) /\ MirrorTruth(j)
    BY <2>1 DEF BillInv, BillTyped, Mirrors, TruthsTrue
  <2>4. \A o \in Reads(j) : o \in Organisations
    BY <2>2, JobFields DEF Reads, Handles, Checkouts
  <2>3. MirrorTruth(j)'
    BY <1>1, <2>2, <2>4, TruthRemains
  <2> QED
    BY <2>1, <2>3 DEF MirrorTruth, Reads
<1> QED
  BY <1>2, <1>3, <1>4, <1>5, <1>6 DEF Mirrors

LEMMA QuietMirrors ==
    ASSUME BillInv, Mirrors, UNCHANGED <<org, account, subscription, sub, inbox, emitted, managed>>,
           JobsGoOn
    PROVE  Mirrors'
<1>1. /\ Sold' = Sold /\ \A s, k : Unanswered(s, k)' <=> Unanswered(s, k)
      /\ \A o : SoldTo(o)' = SoldTo(o)
  BY DEF Sold, Unanswered, SoldTo
<1>2. \A o : \A s \in SoldTo(o)' : NothingNew(s, o)
  BY <1>1 DEF NothingNew, Newest
<1>3. SubsEndure
  BY <1>1 DEF SubsEndure, BillInv, BillTyped
<1>4. InLine'
  BY InLineStays DEF Mirrors
<1>5. \A o \in Organisations : org'[o].state = org[o].state /\ Settled(o)
  BY DEF Settled, PlanKept
<1> QED
  BY <1>1, <1>2, <1>3, <1>4, <1>5, RowsUnwritten

LEMMA TurnMirrors ==
    ASSUME BillInv, OrganisationsTyped, Mirrors, SubsEndure, NEW s \in Sold, NEW st \in SubStatus,
           NEW kind \in Turned, SubTurns(s, st, kind), TurnsTo(s, st, kind), JobsGoOn,
           UNCHANGED managed
    PROVE  Mirrors'
<1>1. /\ Turning(s, kind) /\ sub'[s].status = st
      /\ emitted' = emitted + 1 /\ emitted \in Nat
  BY TurnShape
<1>2. PICK f : /\ inbox' = inbox \cup {f} /\ f.n = emitted' /\ f.kind = kind /\ f.s = s
               /\ f \notin inbox
  BY TurnShape
<1>3. \A o : SoldTo(o)' = SoldTo(o) /\ \A q \in SoldTo(o) : q \in Sold
  BY <1>1 DEF Turning, SoldTo
<1>4. \A o, q : Newest(q, o)' => Newest(q, o)
  BY <1>1, <1>3 DEF Turning, Newest
<1>5. kind # "subscription.create" /\ kind # "charge.success"
  BY DEF Turned
<1>6. \A o : \A q \in SoldTo(o)' : NothingNew(q, o)
  BY <1>1, <1>3, <1>4, <1>5 DEF NothingNew, Turning
<1>7. InLine'
  BY TurnInLine DEF Mirrors
<1>8. \A e \in inbox' : e \in inbox \/ (e.n \in Nat /\ e.n > emitted)
  BY <1>1, <1>2
<1>9. UNCHANGED account /\ \A o \in Organisations : org'[o].state = org[o].state /\ Settled(o)
  BY DEF SubTurns, Settled, PlanKept
<1>10. \A q : /\ Unanswered(q, "charge.success")' <=> Unanswered(q, "charge.success")
              /\ Unanswered(q, "subscription.create")' => Unanswered(q, "subscription.create")
  BY <1>1, <1>5 DEF Turning
<1>11. Sold' = Sold
  BY <1>1 DEF Turning
<1> QED
  BY <1>2, <1>6, <1>7, <1>8, <1>9, <1>10, <1>11, RowsUnwritten

LEMMA PayMirrors ==
    ASSUME BillInv, Mirrors, SubsEndure, Pay, UNCHANGED account
    PROVE  Mirrors'
<1>1. PICK s : /\ Paying(s)
               /\ \E f, g : /\ inbox' = inbox \cup {f, g}
                            /\ f.n = emitted + 1 /\ f.kind = "charge.success" /\ f.s = s
                            /\ g.n = emitted + 2 /\ g.kind = "subscription.create" /\ g.s = s
  BY PayShape
<1>2. \A e \in inbox' : e \in inbox \/ (e.n \in Nat /\ e.n > emitted)
  BY <1>1 DEF Paying
<1>3. ASSUME NEW o \in Organisations, NEW q \in SoldTo(o)'
      PROVE  NothingNew(q, o)
  <2> SUFFICES ASSUME Newest(q, o)', ~Unanswered(q, "subscription.create")'
               PROVE  /\ Newest(q, o) /\ ~Unanswered(q, "subscription.create")
                      /\ (\A kind \in Turned : ~Unanswered(q, kind)') =>
                            /\ \A kind \in Turned : ~Unanswered(q, kind)
                            /\ sub'[q].status = sub[q].status
    BY DEF NothingNew
  <2>1. q # s /\ q \in Sold /\ ~Unanswered(q, "subscription.create")
    BY <1>1 DEF Paying, Newest, SoldTo
  <2>2. \A p \in SoldTo(o) : p \in Sold /\ p \in SoldTo(o)' /\ sub'[p] = sub[p]
    BY <1>1 DEF Paying, SoldTo
  <2>3. Newest(q, o)
    BY <1>1, <2>1, <2>2 DEF Paying, Newest, SoldTo
  <2> QED
    BY <1>1, <2>1, <2>3 DEF Paying
<1>4. \A q \in Sold : /\ Unanswered(q, "charge.success")' <=> Unanswered(q, "charge.success")
                      /\ Unanswered(q, "subscription.create")' =>
                            Unanswered(q, "subscription.create")
  BY <1>1 DEF Paying
<1>5. \A q \in Sold' : q \in Sold \/ Unanswered(q, "charge.success")'
  BY <1>1 DEF Paying
<1>6. InLine'
  BY PayInLine DEF Mirrors
<1>7. /\ JobsGoOn /\ inbox \subseteq inbox'
      /\ \A o \in Organisations : org'[o].state = org[o].state /\ Settled(o)
  BY <1>1 DEF JobsGoOn, Pay, Turns, Settled, PlanKept
<1> QED
  BY <1>2, <1>3, <1>4, <1>5, <1>6, <1>7, RowsUnwritten

\* One handler goes on as j.
LEMMA OneGoesOn ==
    ASSUME BillInv, NEW w \in Workers, NEW j, job' = [job EXCEPT ![w] = j],
           \A v \in Workers \ {w} : v \notin late' => v \notin late,
           j.pc \notin Handles, w \notin late' => MirrorTruth(j)'
    PROVE  JobsGoOn
<1>1. job'[w] = j /\ \A v \in Workers \ {w} : job'[v] = job[v]
  BY DEF BillInv, BillTyped
<1>2. w \notin late' => MirrorTruth(job[w])'
  BY <1>1 DEF MirrorTruth, Reads
<1> QED
  BY <1>1, <1>2 DEF JobsGoOn

LEMMA RestGoesByNothing == Resting.pc \notin Handles /\ MirrorTruth(Resting)'
BY DEF Resting, Handles, MirrorTruth, Reads

LEMMA MirrorsCheckoutRead ==
    ASSUME BillInv, OrganisationsTyped, Mirrors, UNCHANGED account, NEW w \in Workers,
           ensureCustomerRead(w)
    PROVE  Mirrors'
<1>1. PICK k \in Checkouts :
        /\ account[k.payer].org = k.o
        /\ job' = [job EXCEPT ![w] =
                    [pc |-> IF org[k.o].customer = Nobody THEN "customer" ELSE "checkout",
                     sale |-> k]]
        /\ UNCHANGED <<org, subscription, provider, newest, late, staleWrite, disordered,
                       managed>>
  BY DEF ensureCustomerRead
<1>2. PICK j : j = [pc |-> IF org[k.o].customer = Nobody THEN "customer" ELSE "checkout",
                    sale |-> k]
  OBVIOUS
<1>3. Open(k.o)
  <2>1. account[k.payer] # NoAccount /\ k.payer \in Emails
    BY <1>1, TenantsAssumption DEF NoAccount, Checkouts
  <2> QED
    BY <1>1, <2>1 DEF OrganisationsTyped
<1>4. j.pc \notin Handles /\ MirrorTruth(j)'
  BY <1>1, <1>2, <1>3 DEF MirrorTruth, Handles, Reads, Open
<1>5. JobsGoOn
  BY <1>1, <1>2, <1>4, OneGoesOn
<1> QED
  BY <1>1, <1>5, QuietMirrors DEF provider

LEMMA MirrorsCancelRead ==
    ASSUME BillInv, OrganisationsTyped, Mirrors, UNCHANGED account, NEW w \in Workers,
           cancelSubscriptionRead(w)
    PROVE  Mirrors'
<1>1. PICK o \in Organisations :
        /\ Open(o)
        /\ job' = [job EXCEPT ![w] = [pc |-> "disable", o |-> o, s |-> CodeToCancel(o),
                                      hadRow |-> subscription[o] # NoSubscription]]
        /\ UNCHANGED <<org, subscription, provider, newest, late, staleWrite, disordered,
                       managed>>
  BY DEF cancelSubscriptionRead, CodeToCancel
<1>2. PICK j : j = [pc |-> "disable", o |-> o, s |-> CodeToCancel(o),
                    hadRow |-> subscription[o] # NoSubscription]
  OBVIOUS
<1>3. j.pc \notin Handles /\ MirrorTruth(j)'
  BY <1>1, <1>2 DEF MirrorTruth, Handles, Reads, Open, CodeToCancel
<1>4. JobsGoOn
  BY <1>1, <1>2, <1>3, OneGoesOn
<1> QED
  BY <1>1, <1>4, QuietMirrors DEF provider

LEMMA MirrorsRest ==
    ASSUME BillInv, OrganisationsTyped, Mirrors, UNCHANGED account, NEW w \in Workers,
           createCheckoutSession(w) \/ JobFails(w)
    PROVE  Mirrors'
<1>1. GoOn(w, Resting) /\ UNCHANGED <<sub, inbox, emitted>>
  BY DEF createCheckoutSession, JobFails, provider
<1>2. JobsGoOn
  BY <1>1, OneGoesOn, RestGoesByNothing DEF GoOn
<1> QED
  BY <1>1, <1>2, QuietMirrors DEF GoOn

LEMMA MirrorsDisabling ==
    ASSUME BillInv, OrganisationsTyped, Mirrors, SubsEndure, UNCHANGED account, NEW w \in Workers,
           disableSubscription(w)
    PROVE  Mirrors'
<1>1. PICK s : s = job[w].s
  OBVIOUS
<1>2. CASE Live(s)
  <2>1. PICK j : j = [job[w] EXCEPT !.pc = "cancelOrg"]
    OBVIOUS
  <2>2. /\ sub' = [sub EXCEPT ![s].status = "disabled"]
        /\ Emit("subscription.disable", s) /\ GoOn(w, j) /\ UNCHANGED checkouts
    BY <1>1, <1>2, <2>1 DEF disableSubscription
  <2>3. s \in Sold /\ SubTurns(s, "disabled", "subscription.disable")
    BY <1>2, <2>2 DEF SubTurns, Live, GoOn
  <2>4. TurnsTo(s, "disabled", "subscription.disable")
    BY DEF TurnsTo
  <2>5. /\ job[w].pc = "disable" /\ job[w].o \in Organisations
        /\ job[w] = [pc |-> job[w].pc, o |-> job[w].o, s |-> job[w].s, hadRow |-> job[w].hadRow]
    BY JobFields DEF BillInv, BillTyped, disableSubscription
  <2>6. j.pc = "cancelOrg" /\ j.o = job[w].o /\ j.s = s
    BY <1>1, <2>1, <2>5
  <2>7. sub'[s].status = "disabled" /\ s \in Sold'
    BY <2>3, TurnShape DEF Turned, SubStatus, Turning
  <2>8. w \notin late' => MirrorTruth(j)'
    <3> SUFFICES ASSUME w \notin late' PROVE MirrorTruth(j)'
      OBVIOUS
    <3>1. w \notin late
      BY <2>2, <2>6, RestGoesByNothing DEF GoOn, Resting
    <3>2. MirrorTruth(job[w])
      BY <3>1 DEF Mirrors, TruthsTrue
    <3>3. org[j.o].state # "none" /\ (Open(j.o) => j.s = CodeToCancel(j.o))
      BY <2>5, <2>6, <1>1, <3>2 DEF MirrorTruth, Reads
    <3>4. UNCHANGED <<org, subscription>> /\ j.s = s
      BY <2>2, <2>6 DEF GoOn
    <3> QED
      BY <2>6, <2>7, <3>3, <3>4 DEF MirrorTruth, Reads, Open, CodeToCancel
  <2>9. j.pc \notin Handles
    BY <2>6 DEF Handles
  <2>10. JobsGoOn
    BY <2>2, <2>8, <2>9, OneGoesOn DEF GoOn
  <2> QED
    BY <2>2, <2>3, <2>4, <2>10, TurnMirrors DEF Turned, SubStatus, GoOn
<1>3. CASE ~Live(s)
  <2>1. GoOn(w, Resting) /\ UNCHANGED <<sub, inbox, emitted>>
    BY <1>1, <1>3 DEF disableSubscription
  <2>2. JobsGoOn
    BY <2>1, OneGoesOn, RestGoesByNothing DEF GoOn
  <2> QED
    BY <2>1, <2>2, QuietMirrors DEF GoOn
<1> QED
  BY <1>2, <1>3

LEMMA MirrorsProvider ==
    ASSUME BillInv, OrganisationsTyped, Mirrors, SubsEndure, UNCHANGED account,
           Pay \/ PaymentFails \/ SubscriptionEnds
    PROVE  Mirrors'
<1>1. CASE Pay
  BY <1>1, PayMirrors
<1>2. CASE PaymentFails
  <2>1. PICK s \in Sold :
          /\ sub[s].status = "active" /\ sub' = [sub EXCEPT ![s].status = "attention"]
          /\ Emit("invoice.payment_failed", s) /\ Turns /\ UNCHANGED checkouts
    BY <1>2 DEF PaymentFails
  <2>2. /\ SubTurns(s, "attention", "invoice.payment_failed") /\ JobsGoOn
        /\ TurnsTo(s, "attention", "invoice.payment_failed") /\ UNCHANGED managed
    BY <2>1 DEF SubTurns, TurnsTo, Turns, JobsGoOn
  <2> QED
    BY <2>2, TurnMirrors DEF Turned, SubStatus
<1>3. CASE SubscriptionEnds
  <2>1. PICK s \in Codes :
          /\ Live(s) /\ sub' = [sub EXCEPT ![s].status = "disabled"]
          /\ Emit("subscription.disable", s) /\ Turns /\ UNCHANGED checkouts
    BY <1>3 DEF SubscriptionEnds
  <2>2. /\ SubTurns(s, "disabled", "subscription.disable") /\ JobsGoOn /\ s \in Sold
        /\ TurnsTo(s, "disabled", "subscription.disable") /\ UNCHANGED managed
    BY <2>1 DEF SubTurns, TurnsTo, Turns, JobsGoOn, Live
  <2> QED
    BY <2>2, TurnMirrors DEF Turned, SubStatus
<1> QED
  BY <1>1, <1>2, <1>3

(***************************************************************************)
(* A delivery is taken in order.                                           *)
(***************************************************************************)
LEMMA ChargedBefore ==
    ASSUME BillInv, InLine, NEW ev, FirstOf(ev), ev.kind # "charge.success"
    PROVE  ~Unanswered(ev.s, "charge.success")
<1> SUFFICES ASSUME NEW e \in inbox, e.s = ev.s, e.kind = "charge.success" PROVE FALSE
  BY DEF Unanswered
<1>1. ev \in inbox /\ ev.n <= e.n /\ ev.n \in Nat /\ e.n \in Nat /\ sub[ev.s].since \in Nat
      /\ ev.kind \in {"subscription.create"} \cup Turned
  BY EventFields DEF FirstOf, Kinds, Turned
<1>2. e.n = sub[ev.s].since
  BY DEF InLine, EventsInLine
<1>3. ev.n > sub[ev.s].since
  BY <1>1 DEF InLine, EventsInLine
<1> QED
  BY <1>1, <1>2, <1>3

LEMMA PayerFound ==
    ASSUME BillInv, InLine, CustomersTrue, NEW ev, FirstOf(ev), ev.kind = "subscription.create",
           Open(sub[ev.s].sale.o)
    PROVE  sub[ev.s].sale.o \in OfCustomer(ev.s)
<1>1. ev \in inbox /\ ev.s \in Sold /\ Unanswered(ev.s, "subscription.create")
  BY EventFields DEF FirstOf, Unanswered
<1>2. org[sub[ev.s].sale.o].customer = sub[ev.s].sale.payer
  BY <1>1, ChargedBefore DEF CustomersTrue, CustomerTrue
<1> QED
  BY <1>1, <1>2, SoldFields DEF OfCustomer

LEMMA HandlersGoBy ==
    ASSUME BillInv, NEW ev \in inbox, NEW j \in Handler(ev)
    PROVE  j.pc \in Handles /\ j.ev = ev /\ Suits(j) /\ MirrorTruth(j)
<1>1. ev.kind \in Kinds /\ ev.s \in Codes
  BY EventFields
<1>2. CASE ev.kind = "charge.success"
  <2>1. j = [pc |-> "charge", ev |-> ev]
    BY <1>2 DEF Handler
  <2> QED
    BY <1>2, <2>1 DEF Handles, Suits, MirrorTruth, Reads
<1>3. CASE ev.kind = "subscription.create"
  <2>1. PICK o \in OfCustomer(ev.s) : j = [pc |-> "syncOrg", ev |-> ev, o |-> o]
    BY <1>3 DEF Handler
  <2>2. Open(o) /\ org[o].customer = sub[ev.s].sale.payer
    BY DEF OfCustomer
  <2> QED
    BY <1>3, <2>1, <2>2 DEF Handles, Suits, MirrorTruth, Reads, Open
<1>4. CASE ev.kind \in Turned
  <2>1. PICK o \in OfCode(ev.s), st \in {"CANCELED", "PAST_DUE"} :
          /\ j = [pc |-> "statusOrg", ev |-> ev, o |-> o, status |-> st]
          /\ ev.kind = "subscription.disable" => st = "CANCELED"
          /\ ev.kind = "invoice.payment_failed" => st = "PAST_DUE"
    BY <1>4 DEF Handler, Turned
  <2>2. o \in Organisations /\ subscription[o].code = ev.s
    BY DEF OfCode
  <2>3. Open(o)
    BY <1>1, <2>2, TenantsAssumption DEF BillInv, OrganisationPays, NoSubscription
  <2> QED
    BY <1>4, <2>1, <2>2, <2>3 DEF Handles, Suits, MirrorTruth, Reads, Open, Turned
<1> QED
  BY <1>1, <1>2, <1>3, <1>4 DEF Kinds, Turned

LEMMA UnchangedMirrors ==
    ASSUME InLine, CustomersTrue, RowsTrue,
           UNCHANGED <<org, subscription, sub, inbox, emitted, managed>>
    PROVE  InLine' /\ CustomersTrue' /\ RowsTrue'
<1>1. /\ Sold' = Sold /\ \A s, k : Unanswered(s, k)' <=> Unanswered(s, k)
      /\ \A o : SoldTo(o)' = SoldTo(o) /\ (Open(o)' <=> Open(o))
  BY DEF Sold, Unanswered, SoldTo, Open
<1>2. \A s, o : Newest(s, o)' <=> Newest(s, o)
  BY <1>1 DEF Newest
<1>3. InLine'
  BY InLineStays
<1>4. CustomersTrue'
  BY <1>1 DEF CustomersTrue, CustomerTrue, Open
<1>5. ASSUME NEW o \in Organisations, RowTrue(o) PROVE RowTrue(o)'
  BY <1>1, <1>2, <1>5 DEF RowTrue, Foreign, Coded, Mirrored, Open
<1>6. RowsTrue'
  BY <1>1, <1>5 DEF RowsTrue
<1> QED
  BY <1>3, <1>4, <1>6

\* An event that concerns nobody here tells nothing about who is here.
LEMMA NobodyConcerned ==
    ASSUME BillInv, Mirrors, NEW ev, FirstOf(ev), Handler(ev) = {}, Answer(ev),
           UNCHANGED <<org, account, subscription, managed>>
    PROVE  InLine' /\ CustomersTrue' /\ RowsTrue'
<1>1. /\ ev \in inbox /\ ev.s \in Sold /\ ev.kind \in Kinds
      /\ inbox' \in {inbox, inbox \ {ev}} /\ UNCHANGED <<sub, emitted>>
      /\ InLine /\ CustomersTrue /\ RowsTrue
  BY EventFields DEF FirstOf, Answer, Mirrors
<1>2. ev.kind # "charge.success"
  <2> SUFFICES ASSUME ev.kind = "charge.success" PROVE Handler(ev) # {}
    OBVIOUS
  <2>1. Handler(ev) = {[pc |-> "charge", ev |-> ev]}
    BY DEF Handler
  <2> QED
    BY <2>1
<1>3. ev.kind = "subscription.create" => OfCustomer(ev.s) = {}
  <2> SUFFICES ASSUME ev.kind = "subscription.create", NEW o \in OfCustomer(ev.s) PROVE FALSE
    OBVIOUS
  <2>1. Handler(ev) = {[pc |-> "syncOrg", ev |-> ev, o |-> p] : p \in OfCustomer(ev.s)}
    BY DEF Handler
  <2> QED
    BY <2>1
<1>4. ev.kind \in Turned => OfCode(ev.s) = {}
  <2> SUFFICES ASSUME ev.kind \in Turned, NEW o \in OfCode(ev.s) PROVE FALSE
    OBVIOUS
  <2>1. \E st : Handler(ev) =
                {[pc |-> "statusOrg", ev |-> ev, o |-> p, status |-> st] : p \in OfCode(ev.s)}
    BY DEF Handler, Turned
  <2> QED
    BY <2>1
<1>5. /\ \A q, k : Unanswered(q, k)' => Unanswered(q, k)
      /\ \A q, k : (Unanswered(q, k) /\ ~Unanswered(q, k)') => q = ev.s /\ k = ev.kind
      /\ Sold' = Sold /\ \A o : SoldTo(o)' = SoldTo(o)
  BY <1>1, AnswerTakes DEF Sold, SoldTo
<1>6. \A o, s : Newest(s, o)' <=> Newest(s, o)
  BY <1>1, <1>5 DEF Newest
<1>7. SubsEndure /\ OrgsKeepMembers
  BY <1>1, <1>5 DEF SubsEndure, OrgsKeepMembers, BillInv, BillTyped
<1>8. CustomersTrue'
  BY <1>1, <1>2, <1>5, <1>7, CustomersStay
<1>9. ASSUME NEW o \in Organisations, Open(o), NEW s \in SoldTo(o)'
      PROVE  NothingNew(s, o)
  <2> SUFFICES ASSUME Newest(s, o), ~Unanswered(s, "subscription.create")'
               PROVE  /\ ~Unanswered(s, "subscription.create")
                      /\ (\A kind \in Turned : ~Unanswered(s, kind)') =>
                            \A kind \in Turned : ~Unanswered(s, kind)
    BY <1>1, <1>6 DEF NothingNew
  <2>1. s \in SoldTo(o) /\ s \in Sold /\ sub[s].sale.o = o
    BY DEF Newest, SoldTo
  <2>2. ~Unanswered(s, "subscription.create")
    <3> SUFFICES ASSUME Unanswered(s, "subscription.create") PROVE FALSE
      OBVIOUS
    <3>1. s = ev.s /\ ev.kind = "subscription.create"
      BY <1>5
    <3> QED
      BY <1>1, <1>3, <1>9, <2>1, <3>1, PayerFound
  <2>3. ASSUME NEW kind \in Turned, Unanswered(s, kind), ~Unanswered(s, kind)' PROVE FALSE
    <3>1. s = ev.s /\ ev.kind \in Turned
      BY <1>5, <2>3
    <3>2. Coded(s, o)
      BY <1>1, <1>9, <2>1, <2>2 DEF RowsTrue, RowTrue
    <3> QED
      BY <1>4, <3>1, <3>2 DEF Coded, OfCode
  <2> QED
    BY <2>2, <2>3
<1>10. RowsTrue'
  BY <1>1, <1>7, <1>9, RowStays DEF RowsTrue, Open, PlanKept
<1> QED
  BY <1>1, <1>8, <1>10, AnswerInLine

LEMMA MirrorsDelivery ==
    ASSUME BillInv, OrganisationsTyped, Mirrors, SubsEndure, UNCHANGED account, NEW w \in Workers,
           handleWebhook(w), ~disordered'
    PROVE  Mirrors'
<1>1. PICK ev \in inbox :
        /\ job[w] = Resting /\ InOrder(ev)
        /\ IF Handler(ev) = {} THEN Answer(ev) /\ UNCHANGED job
           ELSE (\E j \in Handler(ev) : job' = [job EXCEPT ![w] = j]) /\ UNCHANGED provider
        /\ UNCHANGED <<org, subscription, late, staleWrite, managed>>
  BY DEF handleWebhook
<1>2. FirstOf(ev)
  <2>1. \A e \in inbox : e.n \in Nat
    BY EventFields
  <2> QED
    BY <1>1, <2>1 DEF FirstOf, InOrder
<1>3. \A v \in Workers : job[v].pc \notin Handles
  BY <1>1 DEF InOrder, Handling, Busy, Handles, Resting
<1>4. InLine /\ CustomersTrue /\ RowsTrue /\ AllSuit /\ TruthsTrue /\ OrgsKeepMembers
  BY <1>1 DEF Mirrors, OrgsKeepMembers
<1>5. ASSUME NEW v \in Workers, v \notin late, job'[v] = job[v]
      PROVE  MirrorTruth(job[v])'
  <2>1. PICK i : i = job[v]
    OBVIOUS
  <2>2. i \in Jobs /\ JobKnown(i) /\ MirrorTruth(i)
    BY <1>4, <1>5, <2>1 DEF BillInv, BillTyped, TruthsTrue
  <2>3. MirrorTruth(i)'
    BY <1>1, <1>4, <2>2, TruthRemains DEF Settled, PlanKept
  <2> QED
    BY <1>5, <2>1, <2>3 DEF MirrorTruth, Reads
<1>6. CASE Handler(ev) = {}
  <2>1. UNCHANGED job /\ Answer(ev)
    BY <1>1, <1>6
  <2>2. InLine' /\ CustomersTrue' /\ RowsTrue'
    BY <1>1, <1>2, <1>6, <2>1, NobodyConcerned
  <2>3. FirstHandled' /\ AllSuit'
    BY <1>3, <1>4, <2>1 DEF FirstHandled, AllSuit
  <2>4. TruthsTrue'
    BY <1>1, <1>5, <2>1 DEF TruthsTrue
  <2> QED
    BY <2>2, <2>3, <2>4 DEF Mirrors
<1>7. CASE Handler(ev) # {}
  <2>1. PICK j \in Handler(ev) : job' = [job EXCEPT ![w] = j]
    BY <1>1, <1>7
  <2>2. UNCHANGED <<sub, inbox, emitted>>
    BY <1>1, <1>7 DEF provider
  <2>3. job'[w] = j /\ \A v \in Workers \ {w} : job'[v] = job[v]
    BY <2>1 DEF BillInv, BillTyped
  <2>4. j.pc \in Handles /\ j.ev = ev /\ Suits(j) /\ MirrorTruth(j)
    BY HandlersGoBy
  <2>5. InLine' /\ CustomersTrue' /\ RowsTrue'
    BY <1>1, <1>4, <2>2, UnchangedMirrors
  <2>6. FirstHandled'
    BY <1>2, <1>3, <2>2, <2>3, <2>4 DEF FirstHandled, FirstOf
  <2>7. AllSuit'
    BY <1>4, <2>3, <2>4 DEF AllSuit
  <2>8. MirrorTruth(job[w])'
    BY <1>1, <2>2, <2>3, <2>4 DEF MirrorTruth, Reads, Open, CodeToCancel, Sold
  <2>9. TruthsTrue'
    BY <1>1, <1>5, <2>3, <2>8 DEF TruthsTrue
  <2> QED
    BY <2>5, <2>6, <2>7, <2>9 DEF Mirrors
<1> QED
  BY <1>6, <1>7

(***************************************************************************)
(* Writes: the rows of o change, and nothing else but what is answered.    *)
(***************************************************************************)
Written(o) == /\ UNCHANGED <<account, sub, emitted>>
              /\ org'[o].state = org[o].state
              /\ \A p \in Organisations \ {o} : /\ org'[p] = org[p]
                                                /\ subscription'[p] = subscription[p]
                                                /\ p \in managed' <=> p \in managed

\* The platform, or an event, set the plan of o at most.
OthersManaged(o) == \A p \in Organisations \ {o} : p \in managed' <=> p \in managed

LEMMA WrittenLeaves ==
    ASSUME BillInv, NEW o \in Organisations, Written(o)
    PROVE  /\ SubsEndure /\ OrgsKeepMembers /\ Sold' = Sold
           /\ \A p : SoldTo(p)' = SoldTo(p) /\ \A s : Newest(s, p)' <=> Newest(s, p)
           /\ \A p \in Organisations : org'[p].state = org[p].state /\ (Open(p)' <=> Open(p))
           /\ \A p \in Organisations \ {o} : Settled(p)
<1>1. Sold' = Sold
  BY DEF Written, Sold
<1>2. \A p : SoldTo(p)' = SoldTo(p)
  BY <1>1 DEF Written, SoldTo
<1>3. \A p, s : Newest(s, p)' <=> Newest(s, p)
  BY <1>2 DEF Written, Newest
<1>4. \A p \in Organisations : org'[p].state = org[p].state /\ (Open(p)' <=> Open(p))
  BY DEF Written, Open
<1>5. SubsEndure
  BY <1>1 DEF Written, SubsEndure, BillInv, BillTyped
<1>6. OrgsKeepMembers
  BY <1>4 DEF Written, OrgsKeepMembers, Open
<1>7. \A p \in Organisations \ {o} : Settled(p)
  BY DEF Written, Settled, PlanKept
<1> QED
  BY <1>1, <1>2, <1>3, <1>4, <1>5, <1>6, <1>7

\* A handler that has not answered goes on, or one that has nothing to answer ends.
LEMMA WriteGoesOn ==
    ASSUME BillInv, Mirrors, NEW w \in Workers, NEW j \in Jobs, NEW o \in Organisations,
           Write(w, j, o), ~staleWrite', Written(o), inbox' = inbox,
           j.pc \in Handles => job[w].pc \in Handles /\ j.ev = job[w].ev,
           Suits(j), MirrorTruth(j)', RowTrue(o)', CustomersTrue'
    PROVE  Mirrors'
<1>1. /\ SubsEndure /\ OrgsKeepMembers /\ Sold' = Sold
      /\ \A p \in Organisations \ {o} : Settled(p)
  BY WrittenLeaves
<1>2. \A p : SoldTo(p)' = SoldTo(p) /\ \A s : Newest(s, p)' <=> Newest(s, p)
  BY WrittenLeaves
<1>3. \A s, k : Unanswered(s, k)' <=> Unanswered(s, k)
  BY DEF Unanswered
<1>4. UNCHANGED <<sub, emitted>>
  BY DEF Written
<1>5. InLine'
  BY <1>4, InLineStays DEF Mirrors
<1>6. job'[w] = j /\ \A v \in Workers \ {w} : job'[v] = job[v]
  BY DEF BillInv, BillTyped, Write
<1>7. FirstHandled'
  BY <1>6, HandledStay DEF Mirrors
<1>8. \A p \in Organisations : \A s \in SoldTo(p)' : NothingNew(s, p)
  BY <1>2, <1>3, <1>4 DEF NothingNew
<1>9. RowsTrue'
  <2> SUFFICES ASSUME NEW p \in Organisations, Open(p), p # o PROVE RowTrue(p)'
    BY WrittenLeaves DEF RowsTrue
  <2> QED
    BY <1>1, <1>8, RowStays DEF Mirrors, RowsTrue, Settled
<1>10. AllSuit'
  BY <1>6 DEF Mirrors, AllSuit, Suits
<1>11. TruthsTrue'
  BY <1>1, TruthsAfterWrite DEF Mirrors
<1> QED
  BY <1>5, <1>7, <1>9, <1>10, <1>11 DEF Mirrors

\* A handler answers its event and ends.
LEMMA WriteAnswers ==
    ASSUME BillInv, Mirrors, NEW w \in Workers, NEW o \in Organisations, NEW ev,
           Write(w, Resting, o), ~staleWrite', Written(o), job[w].pc \in Handles, FirstOf(ev),
           inbox' \in {inbox, inbox \ {ev}}, RowTrue(o)', CustomersTrue',
           \A p \in Organisations \ {o} : Open(p) => ev.kind = "charge.success" \/ ev.s \notin SoldTo(p)
    PROVE  Mirrors'
<1>1. /\ SubsEndure /\ OrgsKeepMembers /\ Sold' = Sold
      /\ \A p \in Organisations \ {o} : Settled(p)
  BY WrittenLeaves
<1>2. \A p : SoldTo(p)' = SoldTo(p) /\ \A s : Newest(s, p)' <=> Newest(s, p)
  BY WrittenLeaves
<1>3. UNCHANGED <<sub, emitted>>
  BY DEF Written
<1>4. InLine'
  BY <1>3, AnswerInLine DEF Mirrors
<1>5. job'[w] = Resting /\ \A v \in Workers \ {w} : job'[v] = job[v]
  BY DEF BillInv, BillTyped, Write
<1>6. FirstHandled'
  BY <1>5, HandledAnswered DEF Mirrors
<1>7. RowsTrue'
  <2> SUFFICES ASSUME NEW p \in Organisations, Open(p), p # o PROVE RowTrue(p)'
    BY WrittenLeaves DEF RowsTrue
  <2>1. \A s \in SoldTo(p), kind \in {"subscription.create"} \cup Turned :
           Unanswered(s, kind)' <=> Unanswered(s, kind)
    BY AnswerTakes DEF Mirrors, Turned
  <2>2. \A s \in SoldTo(p)' : NothingNew(s, p)
    BY <1>2, <1>3, <2>1 DEF NothingNew
  <2> QED
    BY <1>1, <2>2, RowStays DEF Mirrors, RowsTrue, Settled
<1>8. AllSuit'
  BY <1>5 DEF Mirrors, AllSuit, Suits, Resting
<1>9. TruthsTrue'
  BY <1>1, RestGoesByNothing, RestingKnown, TruthsAfterWrite DEF Mirrors
<1> QED
  BY <1>4, <1>6, <1>7, <1>8, <1>9 DEF Mirrors

\* The row of an organisation, and that of its subscription, after a write.
LEMMA OrgRowIs ==
    ASSUME OrganisationsTyped, UNCHANGED <<account, subscription, sub, emitted>>,
           NEW o \in Organisations, NEW plan, NEW billing, NEW customer, NEW code,
           OthersManaged(o),
           org' = [org EXCEPT ![o] = OrgRow(o, plan, billing, customer, code)]
    PROVE  /\ Written(o) /\ org'[o].plan = plan /\ org'[o].billing = billing
           /\ org'[o].customer = customer /\ org'[o].code = code
<1>1. org'[o] = OrgRow(o, plan, billing, customer, code)
  BY DEF OrganisationsTyped
<1>2. /\ org'[o].plan = plan /\ org'[o].billing = billing /\ org'[o].state = org[o].state
      /\ org'[o].customer = customer /\ org'[o].code = code
  BY <1>1 DEF OrgRow
<1>3. Written(o)
  BY <1>2 DEF Written, OrganisationsTyped, OthersManaged
<1> QED
  BY <1>2, <1>3

LEMMA StatusIs ==
    ASSUME BillInv, UNCHANGED <<org, account, sub, emitted, managed>>, NEW o \in Organisations,
           NEW st, subscription' = [subscription EXCEPT ![o].status = st]
    PROVE  /\ Written(o) /\ subscription'[o].status = st
           /\ subscription'[o].code = subscription[o].code
           /\ subscription'[o].plan = subscription[o].plan
<1>1. subscription \in [Organisations -> SubscriptionRows]
  BY DEF BillInv, BillTyped
<1>2. PICK r \in SubscriptionRows : r = subscription[o]
  BY <1>1
<1>3. r = [code |-> r.code, plan |-> r.plan, status |-> r.status]
  BY SubscriptionFields
<1>4. subscription'[o] = [r EXCEPT !.status = st]
  BY <1>1, <1>2
<1>5. [r EXCEPT !.status = st] = [code |-> r.code, plan |-> r.plan, status |-> st]
  BY <1>3
<1>6. subscription'[o] = [code |-> r.code, plan |-> r.plan, status |-> st]
  BY <1>4, <1>5
<1>7. Written(o)
  BY <1>1 DEF Written
<1> QED
  BY <1>2, <1>6, <1>7

(***************************************************************************)
(* Whom an event that is handled is about.                                 *)
(***************************************************************************)
\* Who paid is the customer of one organisation only: the creation that is handled
\* is that of its newest, or the newest has not been created here yet.
LEMMA SyncTarget ==
    ASSUME BillInv, Mirrors, NEW ev, FirstOf(ev), ev.kind = "subscription.create",
           NEW o \in Organisations, Open(o), org[o].customer = sub[ev.s].sale.payer
    PROVE  /\ ~Foreign(o, ev.s)
           /\ \A t : Newest(t, o) => t = ev.s \/ Unanswered(t, "subscription.create")
<1>1. /\ ev \in inbox /\ ev.s \in Sold /\ ev.n \in Nat /\ sub[ev.s].since \in Nat
      /\ InLine /\ CustomersTrue /\ Unanswered(ev.s, "subscription.create")
  BY EventFields DEF FirstOf, Mirrors, Unanswered
<1>2. PICK k : k = sub[ev.s].sale
  OBVIOUS
<1>3. /\ k.o \in Organisations /\ k.payer \in Emails
      /\ ev.n = sub[ev.s].since + 1
  BY <1>1, <1>2, SoldFields DEF InLine, EventsInLine
<1>4. ~Unanswered(ev.s, "charge.success")
  BY <1>1, ChargedBefore
<1>5. Open(k.o) => k.o = o
  <2> SUFFICES ASSUME Open(k.o) PROVE k.o = o
    OBVIOUS
  <2>1. org[k.o].customer = k.payer /\ org[o].customer = k.payer /\ k.payer # Nobody
    BY <1>1, <1>2, <1>3, <1>4, TenantsAssumption DEF CustomersTrue, CustomerTrue
  <2> QED
    BY <1>3, <2>1 DEF BillInv, OrganisationPays
<1>6. ASSUME NEW t, Newest(t, o), t # ev.s
      PROVE  Unanswered(t, "subscription.create")
  <2>1. t \in Sold /\ sub[t].since \in Nat /\ t \in SoldTo(o)
    BY <1>6, SoldFields DEF Newest, SoldTo
  <2>2. CASE k.o = o
    <3>1. ev.s \in SoldTo(o)
      BY <1>1, <1>2, <2>2 DEF SoldTo
    <3>2. sub[ev.s].since <= sub[t].since
      BY <1>6, <3>1 DEF Newest
    <3>3. sub[ev.s].since + 1 < sub[t].since
      BY <1>1, <1>6, <2>1, <3>2 DEF InLine, SalesInLine
    <3> QED
      BY <1>1, <1>3, <2>1, <3>3 DEF InLine, LatestLeft
  <2>3. CASE k.o # o
    <3>1. Unanswered(t, "charge.success")
      BY <1>1, <1>2, <1>4, <1>5, <2>1, <2>3 DEF CustomersTrue, CustomerTrue
    <3>2. PICK f \in inbox : f.s = t /\ f.kind = "charge.success"
      BY <3>1 DEF Unanswered
    <3>3. f.n = sub[t].since /\ ev.n <= f.n
      BY <1>1, <3>2 DEF InLine, EventsInLine, FirstOf
    <3> QED
      BY <1>1, <2>1, <3>3 DEF InLine, LatestLeft
  <2> QED
    BY <2>2, <2>3
<1> QED
  BY <1>2, <1>5, <1>6 DEF Foreign

\* A turn that is handled is that of the newest, or the newest has not been created
\* here yet.
LEMMA StatusTarget ==
    ASSUME BillInv, Mirrors, NEW s \in Codes, NEW o \in Organisations, Open(o),
           subscription[o].code = s
    PROVE  /\ Open(sub[s].sale.o) => sub[s].sale.o = o
           /\ \A t : Newest(t, o) => t = s \/ Unanswered(t, "subscription.create")
<1>1. RowTrue(o) /\ s # NoCode
  BY TenantsAssumption DEF Mirrors, RowsTrue
<1>2. \A t : Newest(t, o) => t \in SoldTo(o)
  BY DEF Newest
<1> QED
  BY <1>1, <1>2 DEF RowTrue, Foreign, Coded

\* Where a charge has not been answered no creation has that came with or after it.
LEMMA ChargeTarget ==
    ASSUME BillInv, InLine, NEW ev, FirstOf(ev), ev.kind = "charge.success", NEW t,
           Newest(t, sub[ev.s].sale.o)
    PROVE  Unanswered(t, "subscription.create")
<1>1. ev \in inbox /\ ev.s \in Sold /\ ev.n = sub[ev.s].since /\ sub[ev.s].since \in Nat
  BY EventFields DEF FirstOf, InLine, EventsInLine
<1>2. t \in Sold /\ ev.s \in SoldTo(sub[ev.s].sale.o)
  BY <1>1 DEF Newest, SoldTo
<1>3. ev.n <= sub[t].since
  BY <1>1, <1>2 DEF Newest
<1> QED
  BY <1>1, <1>2, <1>3 DEF InLine, LatestLeft

(***************************************************************************)
(* Every write of a handler.                                               *)
(***************************************************************************)
\* Codes of an organisation that are as they were are nobody else's.
LEMMA StillNotForeign ==
    ASSUME BillInv, NEW o \in Organisations, Written(o), NEW c, c # NoCode => c \in Sold, ~Foreign(o, c)
    PROVE  ~Foreign(o, c)'
BY WrittenLeaves, NotForeign

LEMMA StillTrueOf ==
    ASSUME BillInv, NEW o \in Organisations, Written(o), RowTrue(o),
           org'[o].code = org[o].code, subscription'[o].code = subscription[o].code
    PROVE  ~Foreign(o, org[o].code)' /\ ~Foreign(o, subscription[o].code)'
<1>1. PICK c, d : c = org[o].code /\ d = subscription[o].code
  OBVIOUS
<1>2. ~Foreign(o, c)' /\ ~Foreign(o, d)'
  BY <1>1, CodesKnown, StillNotForeign DEF RowTrue
<1> QED
  BY <1>1, <1>2 DEF Foreign

LEMMA MirrorsCustomer ==
    ASSUME BillInv, OrganisationsTyped, Mirrors, UNCHANGED account, NEW w \in Workers,
           ensureCustomer(w), ~staleWrite'
    PROVE  Mirrors'
<1>1. PICK k \in Checkouts : k = job[w].sale /\ job[w].pc = "customer"
  BY JobFields DEF ensureCustomer, BillInv, BillTyped
<1>2. PICK j : j = [pc |-> "checkout", sale |-> k]
  OBVIOUS
<1>3. /\ Open(k.o) /\ org' = [org EXCEPT ![k.o].customer = k.payer] /\ Write(w, j, k.o)
      /\ UNCHANGED <<subscription, sub, inbox, emitted, managed>>
  BY <1>1, <1>2 DEF ensureCustomer, provider
<1>4. k.o \in Organisations /\ k.payer \in Emails /\ k.payer # Nobody
  BY TenantsAssumption DEF Checkouts
<1>5. j \in Jobs /\ j.pc \notin Handles /\ Suits(j) /\ MirrorTruth(j)'
  BY <1>2, JobsMade DEF Handles, Suits, MirrorTruth, Reads
<1>6. /\ Written(k.o) /\ org'[k.o].plan = org[k.o].plan /\ org'[k.o].billing = org[k.o].billing
      /\ org'[k.o].customer = k.payer /\ org'[k.o].code = org[k.o].code
  <2>1. PICK p, b, c : p = org[k.o].plan /\ b = org[k.o].billing /\ c = org[k.o].code
    OBVIOUS
  <2>2. org' = [org EXCEPT ![k.o] = OrgRow(k.o, p, b, k.payer, c)]
    BY <1>3, <1>4, <2>1, OrgRowEdited
  <2>3. UNCHANGED <<account, subscription, sub, emitted>> /\ OthersManaged(k.o)
    BY <1>3 DEF OthersManaged
  <2>4. /\ Written(k.o) /\ org'[k.o].plan = p /\ org'[k.o].billing = b
        /\ org'[k.o].customer = k.payer /\ org'[k.o].code = c
    BY <1>4, <2>2, <2>3, OrgRowIs
  <2> QED
    BY <2>1, <2>4
<1>7. SubsEndure /\ OrgsKeepMembers /\ Sold' = Sold
  BY <1>4, <1>6, WrittenLeaves
<1>8. \A p : SoldTo(p)' = SoldTo(p) /\ \A s : Newest(s, p)' <=> Newest(s, p)
  BY <1>4, <1>6, WrittenLeaves
<1>9. \A s, i : Unanswered(s, i)' <=> Unanswered(s, i)
  BY <1>3 DEF Unanswered
<1>10. RowTrue(k.o)'
  <2>1. \A s \in SoldTo(k.o)' : NothingNew(s, k.o)
    BY <1>3, <1>8, <1>9 DEF NothingNew
  <2> QED
    BY <1>3, <1>4, <1>6, <1>7, <2>1, RowStays DEF Mirrors, RowsTrue, PlanKept
<1>11. org[k.o].customer = Nobody
  <2>1. w \notin late
    BY <1>3, <1>5, WriteDoes DEF BillInv
  <2> QED
    BY <1>1, <1>3, <2>1 DEF Mirrors, TruthsTrue, MirrorTruth
<1>12. \A q \in SoldTo(k.o) : Unanswered(q, "charge.success")
  BY <1>3, <1>11 DEF Mirrors, CustomersTrue, CustomerTrue, SoldTo
<1>13. \A p \in Organisations : /\ Open(p)' <=> Open(p)
                                /\ p # k.o => org'[p] = org[p]
  BY <1>4, <1>6, WrittenLeaves DEF Written
<1>14. ASSUME NEW s \in Sold', ~Unanswered(s, "charge.success")', NEW i, i = sub'[s].sale
       PROVE  CustomerTrue(s, i)'
  <2>1. s \in Sold /\ ~Unanswered(s, "charge.success") /\ i.o \in Organisations /\ s \in SoldTo(i.o)
        /\ sub[s].sale = i
    BY <1>3, <1>7, <1>9, <1>14, SoldFields
  <2>2. i.o # k.o
    BY <1>12, <2>1
  <2>3. CustomerTrue(s, i)
    BY <2>1 DEF Mirrors, CustomersTrue
  <2>4. ASSUME Unanswered(s, "subscription.create"), ~Open(i.o), NEW o \in Organisations,
               Open(o), org'[o].customer = i.payer, NEW q \in SoldTo(o)
        PROVE  Unanswered(q, "charge.success")
    BY <1>12, <1>13, <2>3, <2>4 DEF CustomerTrue
  <2> QED
    BY <1>8, <1>9, <1>13, <2>1, <2>2, <2>3, <2>4 DEF CustomerTrue
<1>15. CustomersTrue'
  BY <1>14 DEF CustomersTrue
<1> QED
  BY <1>3, <1>4, <1>5, <1>6, <1>10, <1>15, WriteGoesOn

\* Customers stay when no charge is answered.
LEMMA CustomersAfterWrite ==
    ASSUME BillInv, CustomersTrue, NEW o \in Organisations, Written(o),
           org'[o].customer = org[o].customer, inbox' \subseteq inbox,
           \A s : Unanswered(s, "charge.success")' <=> Unanswered(s, "charge.success")
    PROVE  CustomersTrue'
<1>1. SubsEndure /\ Sold' = Sold
  BY WrittenLeaves
<1>2. \A p \in Organisations : org'[p].state = org[p].state /\ org'[p].customer = org[p].customer
  BY WrittenLeaves DEF Written
<1>3. \A s : Unanswered(s, "subscription.create")' => Unanswered(s, "subscription.create")
  BY DEF Unanswered
<1> QED
  BY <1>1, <1>2, <1>3, CustomersStay

LEMMA MirrorsActive ==
    ASSUME BillInv, OrganisationsTyped, Mirrors, UNCHANGED account, NEW w \in Workers,
           handleChargeSuccess(w), ~staleWrite'
    PROVE  Mirrors'
<1>1. PICK ev : ev = job[w].ev
  OBVIOUS
<1>2. /\ FirstOf(ev) /\ ev \in inbox /\ ev.kind = "charge.success" /\ job[w].pc \in Handles
      /\ ev.s \in Sold /\ InLine /\ ev.n = sub[ev.s].since /\ ev.n \in Nat
      /\ \A e \in inbox : ev.n <= e.n /\ e.n \in Nat
  BY <1>1, EventFields DEF handleChargeSuccess, Handles, Mirrors, FirstHandled, FirstOf, AllSuit,
     Suits, InLine, EventsInLine
<1>3. PICK k : k = sub[ev.s].sale
  OBVIOUS
<1>4. PICK code : code = IF ev.coded THEN ev.s ELSE org[k.o].code
  OBVIOUS
<1>5. /\ Open(k.o)
      /\ org' = [org EXCEPT ![k.o].plan = k.plan, ![k.o].billing = "ACTIVE",
                            ![k.o].customer = k.payer,
                            ![k.o].code = IF ev.coded THEN ev.s ELSE @]
      /\ Write(w, Resting, k.o) /\ Answer(ev) /\ UNCHANGED subscription
      /\ managed' = managed \ {k.o}
  BY <1>1, <1>3 DEF handleChargeSuccess
<1>6. k.o \in Organisations /\ k.payer \in Emails /\ k.payer # Nobody /\ ev.s \in SoldTo(k.o)
  BY <1>2, <1>3, SoldFields, TenantsAssumption
<1>7. org' = FourIn(k.o, k.plan, "ACTIVE", k.payer, code)
  BY <1>4, <1>5, <1>6 DEF OrganisationsTyped, FourIn
<1>8. org' = [org EXCEPT ![k.o] = OrgRow(k.o, k.plan, "ACTIVE", k.payer, code)]
  BY <1>6, <1>7, OrgRowEdited
<1>9. /\ UNCHANGED <<account, subscription, sub, emitted>> /\ inbox' \in {inbox, inbox \ {ev}}
      /\ OthersManaged(k.o)
  BY <1>5 DEF Answer, OthersManaged
<1>10. Written(k.o) /\ org'[k.o].customer = k.payer /\ org'[k.o].code = code
  BY <1>6, <1>8, <1>9, OrgRowIs
<1>11. SubsEndure /\ OrgsKeepMembers /\ Sold' = Sold
  BY <1>6, <1>10, WrittenLeaves
<1>12. \A p : SoldTo(p)' = SoldTo(p) /\ \A s : Newest(s, p)' <=> Newest(s, p)
  BY <1>6, <1>10, WrittenLeaves
<1>13. /\ \A q, i : Unanswered(q, i)' => Unanswered(q, i)
       /\ \A q, i : (Unanswered(q, i) /\ ~Unanswered(q, i)') => q = ev.s /\ i = ev.kind
  BY <1>2, <1>9, AnswerTakes
<1>14. RowTrue(k.o)'
  <2>1. \A t : Newest(t, k.o) => Unanswered(t, "subscription.create")
    BY <1>2, <1>3, ChargeTarget
  <2>2. \A t : Newest(t, k.o)' => Unanswered(t, "subscription.create")'
    BY <1>2, <1>12, <1>13, <2>1
  <2>3. ~Foreign(k.o, ev.s) /\ RowTrue(k.o)
    BY <1>3, <1>5, <1>6 DEF Foreign, Mirrors, RowsTrue
  <2>4. ~Foreign(k.o, code) /\ (code # NoCode => code \in Sold)
    BY <1>2, <1>4, <1>6, <2>3, CodesKnown DEF RowTrue
  <2>5. ~Foreign(k.o, code)'
    BY <1>6, <1>10, <2>4, StillNotForeign
  <2>6. PICK d : d = subscription[k.o].code
    OBVIOUS
  <2>7. ~Foreign(k.o, d)'
    BY <1>6, <1>10, <2>3, <2>6, CodesKnown, StillNotForeign DEF RowTrue
  <2>8. ~Foreign(k.o, org[k.o].code)' /\ ~Foreign(k.o, subscription[k.o].code)'
    BY <1>9, <1>10, <2>5, <2>6, <2>7 DEF Foreign
  <2> QED
    BY <2>2, <2>8 DEF RowTrue
<1>15. \A p \in Organisations : /\ Open(p)' <=> Open(p)
                                /\ p # k.o => org'[p] = org[p]
  BY <1>6, <1>10, WrittenLeaves DEF Written
<1>16. ASSUME NEW s \in Sold', ~Unanswered(s, "charge.success")', NEW i, i = sub'[s].sale
       PROVE  CustomerTrue(s, i)'
  <2>1. CASE s = ev.s
    <3>1. i = k /\ Open(k.o)'
      BY <1>3, <1>5, <1>6, <1>9, <1>15, <1>16, <2>1
    <3> QED
      BY <1>6, <1>10, <3>1 DEF CustomerTrue
  <2>2. CASE s # ev.s
    <3>2. /\ s \in Sold /\ ~Unanswered(s, "charge.success") /\ sub[s].sale = i
          /\ i.o \in Organisations /\ sub[s].since \in Nat /\ sub[ev.s].since \in Nat
      BY <1>2, <1>9, <1>11, <1>13, <1>16, <2>2, SoldFields
    <3>3. Open(i.o) => org[i.o].customer # Nobody
      BY <3>2 DEF Mirrors, CustomersTrue, CustomerTrue
    <3>4. ~Unanswered(s, "subscription.create")
      <4>1. ~(ev.n < sub[s].since)
        BY <1>2, <3>2 DEF InLine, LatestLeft
      <4>2. sub[s].since + 1 < sub[ev.s].since
        BY <1>2, <2>2, <3>2, <4>1 DEF InLine, SalesInLine
      <4> SUFFICES ASSUME NEW e \in inbox, e.s = s, e.kind = "subscription.create" PROVE FALSE
        BY DEF Unanswered
      <4>3. e.n = sub[s].since + 1 /\ ev.n <= e.n
        BY <1>2 DEF InLine, EventsInLine
      <4> QED
        BY <1>2, <3>2, <4>2, <4>3
    <3> QED
      BY <1>6, <1>10, <1>13, <1>15, <3>2, <3>3, <3>4 DEF CustomerTrue
  <2> QED
    BY <2>1, <2>2
<1>17. CustomersTrue'
  BY <1>16 DEF CustomersTrue
<1> QED
  BY <1>2, <1>5, <1>6, <1>9, <1>10, <1>14, <1>17, WriteAnswers

LEMMA WriterTrue ==
    ASSUME BillInv, Mirrors, NEW w \in Workers, NEW j \in Jobs, NEW o, Write(w, j, o), ~staleWrite'
    PROVE  MirrorTruth(job[w])
BY WriteDoes DEF BillInv, Mirrors, TruthsTrue

\* What is cancelled is what the organisation has a code of.
LEMMA MirrorsCanceled ==
    ASSUME BillInv, OrganisationsTyped, Mirrors, UNCHANGED account, NEW w \in Workers,
           cancelSubscription(w), ~staleWrite'
    PROVE  Mirrors'
<1>1. PICK o \in Organisations, s \in Codes, b \in BOOLEAN :
        job[w] = [pc |-> "cancelOrg", o |-> o, s |-> s, hadRow |-> b]
  BY JobFields DEF cancelSubscription, BillInv, BillTyped
<1>2. PICK j : j = IF b THEN [pc |-> "cancelRow", o |-> o, s |-> s, hadRow |-> b] ELSE Resting
  OBVIOUS
<1>3. /\ Open(o) /\ org' = [org EXCEPT ![o].billing = "CANCELED"] /\ Write(w, j, o)
      /\ UNCHANGED <<subscription, sub, inbox, emitted, managed>>
  BY <1>1, <1>2 DEF cancelSubscription, provider
<1>4. /\ j \in Jobs /\ j.pc \notin Handles /\ Suits(j)
      /\ j.pc = "resting" \/ (j.pc = "cancelRow" /\ j.o = o /\ j.s = s)
  BY <1>2, JobsMade DEF Handles, Suits, Resting
<1>5. /\ Written(o) /\ org'[o].plan = org[o].plan /\ org'[o].billing = "CANCELED"
      /\ org'[o].customer = org[o].customer /\ org'[o].code = org[o].code
  <2>0. UNCHANGED <<account, subscription, sub, emitted>> /\ OthersManaged(o)
    BY <1>3 DEF OthersManaged
  <2>1. PICK p, c, d : p = org[o].plan /\ c = org[o].customer /\ d = org[o].code
    OBVIOUS
  <2>2. org' = [org EXCEPT ![o] = OrgRow(o, p, "CANCELED", c, d)]
    BY <1>3, <2>1, OrgRowEdited
  <2>3. /\ Written(o) /\ org'[o].plan = p /\ org'[o].billing = "CANCELED"
        /\ org'[o].customer = c /\ org'[o].code = d
    BY <2>0, <2>2, OrgRowIs
  <2> QED
    BY <2>1, <2>3
<1>6. s = CodeToCancel(o) /\ s \in Sold /\ sub[s].status = "disabled"
  <2>1. MirrorTruth(job[w]) /\ job[w].pc = "cancelOrg" /\ job[w].o = o /\ job[w].s = s
    BY <1>1, <1>3, <1>4, WriterTrue
  <2> QED
    BY <1>3, <2>1 DEF MirrorTruth
<1>7. \A p : SoldTo(p)' = SoldTo(p) /\ \A q : Newest(q, p)' <=> Newest(q, p)
  BY <1>5, WrittenLeaves
<1>8. Sold' = Sold /\ (Open(o)' <=> Open(o))
  BY <1>5, WrittenLeaves
<1>9. \A q, k : Unanswered(q, k)' <=> Unanswered(q, k)
  BY <1>3 DEF Unanswered
<1>10. RowTrue(o)'
  <2>1. RowTrue(o)
    BY <1>3 DEF Mirrors, RowsTrue
  <2>2. ~Foreign(o, org[o].code)' /\ ~Foreign(o, subscription[o].code)'
    BY <1>3, <1>5, <2>1, StillTrueOf
  <2>3. ASSUME NEW t \in SoldTo(o)', Newest(t, o)', ~Unanswered(t, "subscription.create")'
        PROVE  /\ Coded(t, o)'
               /\ (\A kind \in Turned : ~Unanswered(t, kind)') => Mirrored(t, o)'
    <3>1. t \in SoldTo(o) /\ Newest(t, o) /\ ~Unanswered(t, "subscription.create")
      BY <1>7, <1>9, <2>3
    <3>2. /\ Coded(t, o) /\ t \in Codes
          /\ (\A kind \in Turned : ~Unanswered(t, kind)) => Mirrored(t, o)
      BY <2>1, <3>1, SoldFields DEF RowTrue, SoldTo
    <3>3. t = s
      BY <1>6, <3>2, TenantsAssumption DEF Coded, CodeToCancel
    <3>4. mapPaystackStatus[sub[t].status] = "CANCELED"
      BY <1>6, <3>3 DEF mapPaystackStatus
    <3> QED
      BY <1>3, <1>5, <1>9, <3>2, <3>4 DEF Coded, Mirrored
  <2> QED
    BY <2>2, <2>3 DEF RowTrue
<1>11. MirrorTruth(j)'
  <2>1. j.pc = "cancelRow" => /\ j.s = CodeToCancel(o)' /\ j.s \in Sold'
                              /\ sub'[j.s].status = "disabled" /\ org'[o].state # "none"
    BY <1>3, <1>4, <1>5, <1>6, <1>8 DEF CodeToCancel, Open
  <2> QED
    BY <1>4, <2>1 DEF MirrorTruth, Reads
<1>12. CustomersTrue'
  BY <1>3, <1>5, <1>9, CustomersAfterWrite DEF Mirrors
<1> QED
  BY <1>3, <1>4, <1>5, <1>10, <1>11, <1>12, WriteGoesOn

LEMMA MirrorsRowCanceled ==
    ASSUME BillInv, OrganisationsTyped, Mirrors, UNCHANGED account, NEW w \in Workers,
           cancelSubscriptionRow(w), ~staleWrite'
    PROVE  Mirrors'
<1>1. PICK o \in Organisations : job[w].pc = "cancelRow" /\ job[w].o = o
  BY JobFields DEF cancelSubscriptionRow, BillInv, BillTyped
<1>2. /\ subscription[o] # NoSubscription
      /\ subscription' = [subscription EXCEPT ![o].status = "CANCELED"]
      /\ Write(w, Resting, o) /\ UNCHANGED <<org, sub, inbox, emitted, managed>>
  BY <1>1 DEF cancelSubscriptionRow, provider
<1>3. /\ Written(o) /\ subscription'[o].status = "CANCELED"
      /\ subscription'[o].code = subscription[o].code
      /\ subscription'[o].plan = subscription[o].plan
  BY <1>2, StatusIs
<1>4. Open(o)
  BY <1>2 DEF BillInv, OrganisationPays
<1>5. PICK s : s = job[w].s
  OBVIOUS
<1>6. s = CodeToCancel(o) /\ s \in Sold /\ sub[s].status = "disabled"
  <2>1. MirrorTruth(job[w])
    BY <1>2, RestingKnown, WriterTrue
  <2> QED
    BY <1>1, <1>4, <1>5, <2>1 DEF MirrorTruth
<1>7. \A p : SoldTo(p)' = SoldTo(p) /\ \A q : Newest(q, p)' <=> Newest(q, p)
  BY <1>3, WrittenLeaves
<1>8. \A q, k : Unanswered(q, k)' <=> Unanswered(q, k)
  BY <1>2 DEF Unanswered
<1>9. RowTrue(o)'
  <2>1. RowTrue(o)
    BY <1>4 DEF Mirrors, RowsTrue
  <2>2. ~Foreign(o, org[o].code)' /\ ~Foreign(o, subscription[o].code)'
    BY <1>2, <1>3, <2>1, StillTrueOf
  <2>3. ASSUME NEW t \in SoldTo(o)', Newest(t, o)', ~Unanswered(t, "subscription.create")'
        PROVE  /\ Coded(t, o)'
               /\ (\A kind \in Turned : ~Unanswered(t, kind)') => Mirrored(t, o)'
    <3>1. t \in SoldTo(o) /\ Newest(t, o) /\ ~Unanswered(t, "subscription.create")
      BY <1>7, <1>8, <2>3
    <3>2. /\ Coded(t, o) /\ t \in Codes
          /\ (\A kind \in Turned : ~Unanswered(t, kind)) => Mirrored(t, o)
      BY <2>1, <3>1, SoldFields DEF RowTrue, SoldTo
    <3>3. t = s
      BY <1>6, <3>2, TenantsAssumption DEF Coded, CodeToCancel
    <3>4. mapPaystackStatus[sub[t].status] = "CANCELED"
      BY <1>6, <3>3 DEF mapPaystackStatus
    <3> QED
      BY <1>2, <1>3, <1>8, <3>2, <3>4 DEF Coded, Mirrored
  <2> QED
    BY <2>2, <2>3 DEF RowTrue
<1>10. CustomersTrue'
  BY <1>2, <1>3, <1>8, CustomersAfterWrite DEF Mirrors
<1>11. Suits(Resting)
  BY DEF Suits, Resting
<1> QED
  BY <1>2, <1>3, <1>9, <1>10, <1>11, RestGoesByNothing, RestingKnown, WriteGoesOn

LEMMA HandlesFirst ==
    ASSUME BillInv, Mirrors, NEW w \in Workers, job[w].pc \in Handles
    PROVE  /\ FirstOf(job[w].ev) /\ job[w].ev \in inbox /\ job[w].ev.s \in Sold
           /\ job[w].ev.s \in Codes /\ Unanswered(job[w].ev.s, job[w].ev.kind) /\ Suits(job[w])
BY EventFields DEF Mirrors, FirstHandled, FirstOf, AllSuit, Unanswered

LEMMA MirrorsCode ==
    ASSUME BillInv, OrganisationsTyped, Mirrors, UNCHANGED account, NEW w \in Workers,
           syncSubscription(w), ~staleWrite'
    PROVE  Mirrors'
<1>0. job[w] \in Jobs /\ job[w].pc = "syncOrg" /\ job[w].pc \in Handles
  BY DEF syncSubscription, BillInv, BillTyped, Handles
<1>1. PICK ev \in Events, o \in Organisations : job[w] = [pc |-> "syncOrg", ev |-> ev, o |-> o]
  BY <1>0, JobFields
<1>2. /\ FirstOf(ev) /\ ev.s \in Sold /\ ev.kind = "subscription.create"
      /\ Unanswered(ev.s, "subscription.create")
  BY <1>0, <1>1, HandlesFirst DEF Suits
<1>3. PICK j : j = [pc |-> "syncRow", ev |-> ev, o |-> o]
  OBVIOUS
<1>4. PICK plan : plan = sub[ev.s].sale.plan
  OBVIOUS
<1>5. /\ Open(o) /\ Write(w, j, o) /\ UNCHANGED <<subscription, sub, inbox, emitted>>
      /\ org' = [org EXCEPT ![o].plan = plan, ![o].billing = "ACTIVE", ![o].code = ev.s]
      /\ managed' = managed \ {o}
  BY <1>1, <1>3, <1>4 DEF syncSubscription, mapPaystackStatus, provider
<1>6. j \in Jobs /\ Suits(j)
  BY <1>2, <1>3, JobsMade DEF Suits
<1>7. /\ Written(o) /\ org'[o].plan = plan /\ org'[o].billing = "ACTIVE"
      /\ org'[o].customer = org[o].customer /\ org'[o].code = ev.s
  <2>0. UNCHANGED <<account, subscription, sub, emitted>> /\ OthersManaged(o)
    BY <1>5 DEF OthersManaged
  <2>1. PICK c : c = org[o].customer
    OBVIOUS
  <2>2. org' = ThreeIn(o, plan, "ACTIVE", ev.s)
    BY <1>5 DEF ThreeIn
  <2>3. org' = [org EXCEPT ![o] = OrgRow(o, plan, "ACTIVE", c, ev.s)]
    BY <2>1, <2>2, OrgRowEdited
  <2>4. /\ Written(o) /\ org'[o].plan = plan /\ org'[o].billing = "ACTIVE"
        /\ org'[o].customer = c /\ org'[o].code = ev.s
    BY <2>0, <2>3, OrgRowIs
  <2> QED
    BY <2>1, <2>4
<1>8. org[o].customer = sub[ev.s].sale.payer
  <2>1. MirrorTruth(job[w]) /\ job[w].pc = "syncOrg" /\ job[w].o = o /\ job[w].ev = ev
    BY <1>1, <1>5, <1>6, WriterTrue
  <2> QED
    BY <1>5, <2>1 DEF MirrorTruth
<1>9. /\ ~Foreign(o, ev.s)
      /\ \A t : Newest(t, o) => t = ev.s \/ Unanswered(t, "subscription.create")
  BY <1>2, <1>5, <1>8, SyncTarget
<1>10. \A q, k : Unanswered(q, k)' <=> Unanswered(q, k)
  BY <1>5 DEF Unanswered
<1>11. RowTrue(o)'
  <2>1. \A t : Newest(t, o)' => Unanswered(t, "subscription.create")'
    BY <1>2, <1>7, <1>9, <1>10, WrittenLeaves
  <2>2. ~Foreign(o, ev.s)'
    BY <1>2, <1>7, <1>9, StillNotForeign
  <2>3. PICK d : d = subscription[o].code
    OBVIOUS
  <2>4. ~Foreign(o, d)'
    BY <1>5, <1>7, <2>3, CodesKnown, StillNotForeign DEF Mirrors, RowsTrue, RowTrue
  <2>5. ~Foreign(o, org[o].code)' /\ ~Foreign(o, subscription[o].code)'
    BY <1>5, <1>7, <2>2, <2>3, <2>4 DEF Foreign
  <2> QED
    BY <2>1, <2>5 DEF RowTrue
<1>12. MirrorTruth(j)'
  <2>1. j.pc = "syncRow" /\ j.o = o /\ j.ev = ev
    BY <1>3
  <2>2. org'[o].state # "none" /\ sub'[ev.s].sale = sub[ev.s].sale
    BY <1>5, <1>7 DEF Written, Open
  <2> QED
    BY <1>4, <1>7, <1>8, <2>1, <2>2 DEF MirrorTruth, Reads
<1>13. CustomersTrue'
  BY <1>5, <1>7, <1>10, CustomersAfterWrite DEF Mirrors
<1>14. job[w].pc \in Handles /\ j.ev = job[w].ev
  BY <1>0, <1>1, <1>3
<1> QED
  BY <1>5, <1>6, <1>7, <1>11, <1>12, <1>13, <1>14, WriteGoesOn

LEMMA MirrorsRowActive ==
    ASSUME BillInv, OrganisationsTyped, Mirrors, UNCHANGED account, NEW w \in Workers,
           syncSubscriptionRow(w), ~staleWrite'
    PROVE  Mirrors'
<1>0. job[w] \in Jobs /\ job[w].pc = "syncRow" /\ job[w].pc \in Handles
  BY DEF syncSubscriptionRow, BillInv, BillTyped, Handles
<1>1. PICK ev \in Events, o \in Organisations : job[w] = [pc |-> "syncRow", ev |-> ev, o |-> o]
  BY <1>0, JobFields
<1>2. /\ FirstOf(ev) /\ ev \in inbox /\ ev.s \in Sold /\ ev.kind = "subscription.create"
      /\ Unanswered(ev.s, "subscription.create") /\ ev.s \in Codes
  BY <1>0, <1>1, HandlesFirst DEF Suits
<1>3. PICK plan : plan = sub[ev.s].sale.plan
  OBVIOUS
<1>4. /\ Open(o) /\ Write(w, Resting, o) /\ UNCHANGED <<org, sub, emitted, managed>>
      /\ inbox' \in {inbox, inbox \ {ev}}
      /\ subscription' = [subscription EXCEPT ![o] = [code |-> ev.s, plan |-> plan, status |-> "ACTIVE"]]
  BY <1>1, <1>3 DEF syncSubscriptionRow, mapPaystackStatus, Answer
<1>5. /\ Written(o) /\ subscription'[o].code = ev.s /\ subscription'[o].plan = plan
      /\ subscription'[o].status = "ACTIVE"
  BY <1>4 DEF Written, BillInv, BillTyped
<1>6. /\ org[o].customer = sub[ev.s].sale.payer
      /\ org[o].code = ev.s
      /\ o \notin managed => org[o].plan = plan /\ org[o].billing = "ACTIVE"
  <2>1. MirrorTruth(job[w]) /\ job[w].pc = "syncRow" /\ job[w].o = o /\ job[w].ev = ev
    BY <1>1, <1>4, RestingKnown, WriterTrue
  <2> QED
    BY <1>3, <1>4, <2>1 DEF MirrorTruth
<1>7. /\ ~Foreign(o, ev.s)
      /\ \A t : Newest(t, o) => t = ev.s \/ Unanswered(t, "subscription.create")
  BY <1>2, <1>4, <1>6, SyncTarget
<1>8. /\ inbox' \subseteq inbox
      /\ \A q, k : Unanswered(q, k)' => Unanswered(q, k)
      /\ \A q, k : (Unanswered(q, k) /\ ~Unanswered(q, k)') => q = ev.s /\ k = ev.kind
  BY <1>2, <1>4, AnswerTakes DEF Mirrors
<1>9. RowTrue(o)'
  <2>1. ~Foreign(o, ev.s)'
    BY <1>2, <1>5, <1>7, StillNotForeign
  <2>2. ~Foreign(o, org[o].code)' /\ ~Foreign(o, subscription[o].code)'
    BY <1>4, <1>5, <1>6, <2>1 DEF Foreign
  <2>3. ASSUME NEW t \in SoldTo(o)', Newest(t, o)', ~Unanswered(t, "subscription.create")'
        PROVE  /\ Coded(t, o)'
               /\ (\A kind \in Turned : ~Unanswered(t, kind)') => Mirrored(t, o)'
    <3>1. Newest(t, o)
      BY <1>5, <2>3, WrittenLeaves
    <3>2. t = ev.s
      BY <1>7, <1>8, <2>3, <3>1
    <3>3. Coded(t, o)'
      BY <1>3, <1>4, <1>5, <1>6, <3>2 DEF Coded
    <3>4. ASSUME \A kind \in Turned : ~Unanswered(t, kind)' PROVE Mirrored(t, o)'
      <4>1. \A kind \in Turned : ~Unanswered(ev.s, kind)
        BY <1>2, <1>8, <3>2, <3>4 DEF Turned
      <4>2. ~Unanswered(ev.s, "subscription.disable") /\ ~Unanswered(ev.s, "invoice.payment_failed")
        BY <4>1 DEF Turned
      <4>3. sub[ev.s].status \notin {"disabled", "attention"} /\ sub[ev.s].status \in SubStatus
        BY <1>2, <4>2, SoldFields DEF Mirrors, InLine, LatestLeft
      <4>4. mapPaystackStatus[sub[ev.s].status] = "ACTIVE"
        BY <4>3 DEF SubStatus, mapPaystackStatus
      <4> QED
        BY <1>4, <1>5, <1>6, <3>2, <4>4 DEF Mirrored
    <3> QED
      BY <3>3, <3>4
  <2> QED
    BY <2>2, <2>3 DEF RowTrue
<1>10. \A q : Unanswered(q, "charge.success")' <=> Unanswered(q, "charge.success")
  BY <1>2, <1>8
<1>11. CustomersTrue'
  BY <1>4, <1>5, <1>8, <1>10, CustomersAfterWrite DEF Mirrors
<1>12. ASSUME NEW p \in Organisations \ {o}, Open(p) PROVE ev.s \notin SoldTo(p)
  BY <1>2, <1>7, <1>12, TenantsAssumption DEF Foreign, SoldTo
<1> QED
  BY <1>0, <1>2, <1>4, <1>5, <1>9, <1>11, <1>12, WriteAnswers

LEMMA MirrorsStatus ==
    ASSUME BillInv, OrganisationsTyped, Mirrors, UNCHANGED account, NEW w \in Workers,
           handleStatus(w), ~staleWrite'
    PROVE  Mirrors'
<1>0. job[w] \in Jobs /\ job[w].pc = "statusOrg" /\ job[w].pc \in Handles
  BY DEF handleStatus, BillInv, BillTyped, Handles
<1>1. PICK ev \in Events, o \in Organisations, st \in BillingStatus :
        job[w] = [pc |-> "statusOrg", ev |-> ev, o |-> o, status |-> st]
  BY <1>0, JobFields
<1>2. /\ FirstOf(ev) /\ ev.s \in Codes /\ ev.kind \in Turned /\ Unanswered(ev.s, ev.kind)
      /\ Suits(job[w])
  BY <1>0, <1>1, HandlesFirst DEF Suits, Turned
<1>3. PICK j : j = [pc |-> "statusRow", ev |-> ev, o |-> o, status |-> st]
  OBVIOUS
<1>4. /\ Open(o) /\ Write(w, j, o) /\ UNCHANGED <<subscription, sub, inbox, emitted, managed>>
      /\ org' = [org EXCEPT ![o].billing = st]
  BY <1>1, <1>3 DEF handleStatus, provider
<1>5. j \in Jobs /\ Suits(j)
  BY <1>1, <1>2, <1>3, JobsMade DEF Suits
<1>6. /\ Written(o) /\ org'[o].plan = org[o].plan /\ org'[o].billing = st
      /\ org'[o].customer = org[o].customer /\ org'[o].code = org[o].code
  <2>0. UNCHANGED <<account, subscription, sub, emitted>> /\ OthersManaged(o)
    BY <1>4 DEF OthersManaged
  <2>1. PICK p, c, d : p = org[o].plan /\ c = org[o].customer /\ d = org[o].code
    OBVIOUS
  <2>2. org' = [org EXCEPT ![o] = OrgRow(o, p, st, c, d)]
    BY <1>4, <2>1, OrgRowEdited
  <2>3. /\ Written(o) /\ org'[o].plan = p /\ org'[o].billing = st
        /\ org'[o].customer = c /\ org'[o].code = d
    BY <2>0, <2>2, OrgRowIs
  <2> QED
    BY <2>1, <2>3
<1>7. subscription[o].code = ev.s
  <2>1. MirrorTruth(job[w]) /\ job[w].pc = "statusOrg" /\ job[w].o = o /\ job[w].ev = ev
    BY <1>1, <1>4, <1>5, WriterTrue
  <2> QED
    BY <1>4, <2>1 DEF MirrorTruth
<1>8. \A t : Newest(t, o) => t = ev.s \/ Unanswered(t, "subscription.create")
  BY <1>2, <1>4, <1>7, StatusTarget
<1>9. \A q, k : Unanswered(q, k)' <=> Unanswered(q, k)
  BY <1>4 DEF Unanswered
<1>10. RowTrue(o)'
  <2>1. RowTrue(o)
    BY <1>4 DEF Mirrors, RowsTrue
  <2>2. ~Foreign(o, org[o].code)' /\ ~Foreign(o, subscription[o].code)'
    BY <1>4, <1>6, <2>1, StillTrueOf
  <2>3. ASSUME NEW t \in SoldTo(o)', Newest(t, o)', ~Unanswered(t, "subscription.create")'
        PROVE  Coded(t, o)' /\ \E kind \in Turned : Unanswered(t, kind)'
    <3>1. t \in SoldTo(o) /\ Newest(t, o) /\ ~Unanswered(t, "subscription.create")
      BY <1>6, <1>9, <2>3, WrittenLeaves
    <3>2. Coded(t, o) /\ t = ev.s
      BY <1>8, <2>1, <3>1 DEF RowTrue
    <3> QED
      BY <1>2, <1>4, <1>6, <1>9, <3>2 DEF Coded
  <2> QED
    BY <2>2, <2>3 DEF RowTrue
<1>11. MirrorTruth(j)'
  <2>1. j.pc = "statusRow" /\ j.o = o /\ j.ev = ev /\ j.status = st
    BY <1>3
  <2>2. org'[o].state # "none"
    BY <1>4, <1>6 DEF Written, Open
  <2> QED
    BY <1>4, <1>6, <1>7, <2>1, <2>2 DEF MirrorTruth, Reads
<1>12. CustomersTrue'
  BY <1>4, <1>6, <1>9, CustomersAfterWrite DEF Mirrors
<1>13. job[w].pc \in Handles /\ j.ev = job[w].ev
  BY <1>0, <1>1, <1>3
<1> QED
  BY <1>4, <1>5, <1>6, <1>10, <1>11, <1>12, <1>13, WriteGoesOn

LEMMA MirrorsRowStatus ==
    ASSUME BillInv, OrganisationsTyped, Mirrors, UNCHANGED account, NEW w \in Workers,
           handleStatusRow(w), ~staleWrite'
    PROVE  Mirrors'
<1>0. job[w] \in Jobs /\ job[w].pc = "statusRow" /\ job[w].pc \in Handles
  BY DEF handleStatusRow, BillInv, BillTyped, Handles
<1>1. PICK ev \in Events, o \in Organisations, st \in BillingStatus :
        job[w] = [pc |-> "statusRow", ev |-> ev, o |-> o, status |-> st]
  BY <1>0, JobFields
<1>2. /\ FirstOf(ev) /\ ev \in inbox /\ ev.s \in Sold /\ ev.s \in Codes /\ ev.kind \in Turned
      /\ \/ ev.kind = "subscription.disable" /\ st = "CANCELED"
         \/ ev.kind = "invoice.payment_failed" /\ st = "PAST_DUE"
  BY <1>0, <1>1, HandlesFirst DEF Suits, Turned
<1>3. /\ subscription[o] # NoSubscription
      /\ subscription' = [subscription EXCEPT ![o].status = st]
      /\ Write(w, Resting, o) /\ inbox' \in {inbox, inbox \ {ev}} /\ UNCHANGED <<org, sub, emitted, managed>>
  BY <1>1 DEF handleStatusRow, Answer
<1>4. /\ Written(o) /\ subscription'[o].status = st
      /\ subscription'[o].code = subscription[o].code
      /\ subscription'[o].plan = subscription[o].plan
  BY <1>3, StatusIs
<1>5. Open(o)
  BY <1>3 DEF BillInv, OrganisationPays
<1>6. subscription[o].code = ev.s /\ (o \notin managed => org[o].billing = st)
  <2>1. /\ MirrorTruth(job[w]) /\ job[w].pc = "statusRow" /\ job[w].o = o /\ job[w].ev = ev
        /\ job[w].status = st
    BY <1>1, <1>3, RestingKnown, WriterTrue
  <2> QED
    BY <1>5, <2>1 DEF MirrorTruth
<1>7. /\ Open(sub[ev.s].sale.o) => sub[ev.s].sale.o = o
      /\ \A t : Newest(t, o) => t = ev.s \/ Unanswered(t, "subscription.create")
  BY <1>2, <1>5, <1>6, StatusTarget
<1>8. /\ inbox' \subseteq inbox
      /\ \A q, k : Unanswered(q, k)' => Unanswered(q, k)
      /\ \A q, k : (Unanswered(q, k) /\ ~Unanswered(q, k)') => q = ev.s /\ k = ev.kind
  BY <1>2, <1>3, AnswerTakes DEF Mirrors
<1>9. RowTrue(o)'
  <2>1. RowTrue(o)
    BY <1>5 DEF Mirrors, RowsTrue
  <2>2. ~Foreign(o, org[o].code)' /\ ~Foreign(o, subscription[o].code)'
    BY <1>3, <1>4, <2>1, StillTrueOf
  <2>3. ASSUME NEW t \in SoldTo(o)', Newest(t, o)', ~Unanswered(t, "subscription.create")'
        PROVE  /\ Coded(t, o)'
               /\ (\A kind \in Turned : ~Unanswered(t, kind)') => Mirrored(t, o)'
    <3>1. t \in SoldTo(o) /\ Newest(t, o)
      BY <1>4, <2>3, WrittenLeaves
    <3>2. ~Unanswered(t, "subscription.create")
      BY <1>2, <1>8, <2>3 DEF Turned
    <3>3. Coded(t, o) /\ t = ev.s
      BY <1>7, <2>1, <3>1, <3>2 DEF RowTrue
    <3>4. Coded(t, o)'
      BY <1>3, <1>4, <3>3 DEF Coded
    <3>5. ASSUME \A kind \in Turned : ~Unanswered(t, kind)' PROVE Mirrored(t, o)'
      <4>1. mapPaystackStatus[sub[ev.s].status] = st
        <5>1. CASE ev.kind = "subscription.disable"
          <6>1. sub[ev.s].status = "disabled"
            BY <1>2, <5>1, EventFields
          <6> QED
            BY <1>2, <5>1, <6>1 DEF mapPaystackStatus
        <5>2. CASE ev.kind = "invoice.payment_failed"
          <6>1. ~Unanswered(ev.s, "subscription.disable")
            BY <1>8, <3>3, <3>5, <5>2 DEF Turned
          <6>2. sub[ev.s].status # "disabled"
            BY <1>2, <6>1 DEF Mirrors, InLine, LatestLeft
          <6>3. sub[ev.s].status # "active" /\ sub[ev.s].status \in SubStatus
            BY <1>2, SoldFields DEF Mirrors, InLine, EventsInLine
          <6> QED
            BY <1>2, <5>2, <6>2, <6>3 DEF SubStatus, mapPaystackStatus
        <5> QED
          BY <1>2, <5>1, <5>2
      <4> QED
        BY <1>3, <1>4, <1>6, <3>3, <4>1 DEF Mirrored
    <3> QED
      BY <3>4, <3>5
  <2> QED
    BY <2>2, <2>3 DEF RowTrue
<1>10. \A q : Unanswered(q, "charge.success")' <=> Unanswered(q, "charge.success")
  BY <1>2, <1>8 DEF Turned
<1>11. CustomersTrue'
  BY <1>3, <1>4, <1>8, <1>10, CustomersAfterWrite DEF Mirrors
<1>12. ASSUME NEW p \in Organisations \ {o}, Open(p) PROVE ev.s \notin SoldTo(p)
  BY <1>7, <1>12 DEF SoldTo
<1> QED
  BY <1>0, <1>2, <1>3, <1>4, <1>9, <1>11, <1>12, WriteAnswers

(***************************************************************************)
(* All of billing, and what membership does to it.                         *)
(***************************************************************************)
\* A plan set by the platform changes nothing that a handler or the mirror goes by.
LEMMA MirrorsPlan ==
    ASSUME BillInv, OrganisationsTyped, Mirrors, NEW o \in Organisations,
           NEW plan \in SubscriptionPlan, NEW billing \in BillingStatus, PlanSet(o, plan, billing)
    PROVE  Mirrors'
<1> USE DEF PlanSet
<1>1. /\ Sold' = Sold /\ \A s, k : Unanswered(s, k)' <=> Unanswered(s, k)
      /\ \A p : SoldTo(p)' = SoldTo(p)
  BY DEF Sold, Unanswered, SoldTo
<1>2. \A p : \A s \in SoldTo(p)' : NothingNew(s, p)
  BY <1>1 DEF NothingNew, Newest
<1>3. SubsEndure
  BY <1>1 DEF SubsEndure, BillInv, BillTyped
<1>4. InLine'
  BY InLineStays DEF Mirrors
<1>5. org'[o] = OrgRow(o, plan, billing, org[o].customer, org[o].code)
      /\ \A p \in Organisations \ {o} : org'[p] = org[p]
  BY DEF OrganisationsTyped
<1>6. /\ org'[o].state = org[o].state /\ org'[o].customer = org[o].customer
      /\ org'[o].code = org[o].code
  BY <1>5 DEF OrgRow
<1>7. \A p \in Organisations : org'[p].state = org[p].state /\ Settled(p)
  BY <1>5, <1>6 DEF Settled, PlanKept
<1>8. JobsGoOn
  BY DEF JobsGoOn
<1> QED
  BY <1>1, <1>2, <1>3, <1>4, <1>7, <1>8, RowsUnwritten

LEMMA StaysDisordered == BillingNext => (disordered => disordered')
<1> SUFFICES ASSUME BillingNext, disordered PROVE disordered'
  OBVIOUS
<1>1. CASE Pay \/ PaymentFails \/ SubscriptionEnds \/ updateOrganisationPlan
  BY <1>1 DEF Pay, PaymentFails, SubscriptionEnds, Turns, updateOrganisationPlan
<1>2. ASSUME NEW w \in Workers,
             \/ ensureCustomerRead(w) \/ ensureCustomer(w) \/ createCheckoutSession(w)
             \/ cancelSubscriptionRead(w) \/ disableSubscription(w)
      PROVE  disordered'
  BY <1>2 DEF ensureCustomerRead, ensureCustomer, createCheckoutSession, cancelSubscriptionRead,
              disableSubscription, Write, GoOn
<1>3. ASSUME NEW w \in Workers,
             \/ cancelSubscription(w) \/ cancelSubscriptionRow(w)
             \/ handleWebhook(w) \/ handleChargeSuccess(w)
      PROVE  disordered'
  BY <1>3 DEF cancelSubscription, cancelSubscriptionRow, handleWebhook, handleChargeSuccess, Write
<1>4. ASSUME NEW w \in Workers,
             \/ syncSubscription(w) \/ syncSubscriptionRow(w)
             \/ handleStatus(w) \/ handleStatusRow(w) \/ JobFails(w)
      PROVE  disordered'
  BY <1>4 DEF syncSubscription, syncSubscriptionRow, handleStatus, handleStatusRow, JobFails,
              Write, GoOn
<1> QED
  BY <1>1, <1>2, <1>3, <1>4 DEF BillingNext

LEMMA MirrorsBilling ==
    ASSUME BillInv, OrganisationsTyped, MirrorInv, UNCHANGED account, BillingNext
    PROVE  MirrorInv'
<1> SUFFICES ASSUME ~disordered', ~staleWrite' PROVE Mirrors'
  BY DEF MirrorInv
<1>1. SubsEndure /\ (staleWrite => staleWrite')
  BY BillingSteps DEF BillStep, BillDo
<1>2. Mirrors
  BY <1>1, StaysDisordered DEF MirrorInv
<1>3. CASE Pay \/ PaymentFails \/ SubscriptionEnds
  BY <1>1, <1>2, <1>3, MirrorsProvider
<1>4. ASSUME NEW w \in Workers,
             \/ ensureCustomerRead(w) \/ ensureCustomer(w) \/ createCheckoutSession(w)
             \/ cancelSubscriptionRead(w) \/ disableSubscription(w) \/ JobFails(w)
      PROVE  Mirrors'
  BY <1>1, <1>2, <1>4, MirrorsCheckoutRead, MirrorsCustomer, MirrorsRest, MirrorsCancelRead,
     MirrorsDisabling
<1>5. ASSUME NEW w \in Workers,
             \/ cancelSubscription(w) \/ cancelSubscriptionRow(w)
             \/ handleWebhook(w) \/ handleChargeSuccess(w)
             \/ syncSubscription(w) \/ syncSubscriptionRow(w)
             \/ handleStatus(w) \/ handleStatusRow(w)
      PROVE  Mirrors'
  BY <1>1, <1>2, <1>5, MirrorsCanceled, MirrorsRowCanceled, MirrorsDelivery, MirrorsActive,
     MirrorsCode, MirrorsRowActive, MirrorsStatus, MirrorsRowStatus
<1>6. ASSUME updateOrganisationPlan PROVE Mirrors'
  BY <1>2, <1>6, PlanIsSet, MirrorsPlan
<1> QED
  BY <1>3, <1>4, <1>5, <1>6 DEF BillingNext

\* The rows of an organisation that stays stay; one that is new has bought nothing.
LEMMA MembersMirror ==
    ASSUME MemberInv, MembershipNext, BillInv, MirrorInv, Cascade, UNCHANGED billingOnly
    PROVE  MirrorInv'
<1>1. UNCHANGED <<sub, checkouts, inbox, emitted, newest, job, late, staleWrite, disordered,
                 managed>>
  BY DEF billingOnly, provider, billingHistory
<1> SUFFICES ASSUME Mirrors PROVE Mirrors'
  BY <1>1 DEF MirrorInv
<1>2. SubsEndure /\ OrgsKeepMembers
  BY MembersEndure
<1>3. InLine' /\ FirstHandled' /\ AllSuit'
  BY <1>1, InLineStays DEF Mirrors, FirstHandled, FirstOf, AllSuit
<1>4. /\ Sold' = Sold /\ \A s, k : Unanswered(s, k)' <=> Unanswered(s, k)
      /\ \A o : SoldTo(o)' = SoldTo(o)
  BY <1>1 DEF Sold, Unanswered, SoldTo
<1>5. ASSUME NEW o \in Organisations, Open(o)'
      PROVE  \/ Open(o) /\ org'[o] = org[o] /\ subscription'[o] = subscription[o]
             \/ /\ org[o].state = "none" /\ org'[o] = NewOrganisation("open")
                /\ subscription'[o] = NoSubscription
  <2>1. org'[o].state = "open" /\ subscription'[o] = subscription[o]
    BY <1>5 DEF Open, Cascade
  <2>2. \/ org'[o] = org[o]
        \/ org[o].state = "none" /\ org'[o] = NewOrganisation("open")
    BY <2>1, OrganisationsComeAndGo DEF NewOrganisation
  <2>3. ~Open(o) => subscription[o] = NoSubscription
    BY DEF BillInv, OrganisationPays
  <2> QED
    BY <2>1, <2>2, <2>3 DEF Open
<1>6. ASSUME NEW s \in Sold
      PROVE  /\ sub[s].sale.o \in Organisations /\ sub[s].sale.payer \in Emails
             /\ org[sub[s].sale.o].state # "none"
             /\ Open(sub[s].sale.o) => account[sub[s].sale.payer].org = sub[s].sale.o
             /\ Open(sub[s].sale.o)' => /\ Open(sub[s].sale.o)
                                        /\ org'[sub[s].sale.o] = org[sub[s].sale.o]
  BY <1>1, <1>5, SoldFields DEF BillInv, SaleTrue, Open
<1>7. CustomersTrue'
  <2> SUFFICES ASSUME NEW s \in Sold, ~Unanswered(s, "charge.success"), NEW k, k = sub[s].sale
               PROVE  CustomerTrue(s, k)'
    BY <1>1, <1>4 DEF CustomersTrue
  <2>1. CustomerTrue(s, k)
    BY DEF Mirrors, CustomersTrue
  <2>2. /\ k.o \in Organisations /\ k.payer \in Emails /\ k.payer # Nobody
        /\ Open(k.o) => account[k.payer].org = k.o
        /\ Open(k.o)' => Open(k.o) /\ org'[k.o] = org[k.o]
    BY <1>1, <1>6, TenantsAssumption DEF Open
  <2>3. ASSUME Unanswered(s, "subscription.create"), ~Open(k.o)', NEW o \in Organisations,
               Open(o)', org'[o].customer = k.payer, NEW q \in SoldTo(o)
        PROVE  Unanswered(q, "charge.success")
    <3>1. Open(o) /\ org[o].customer = k.payer /\ org'[o] = org[o]
      BY <1>5, <2>2, <2>3 DEF NewOrganisation
    <3>2. account[k.payer].org = o
      BY <2>2, <3>1 DEF BillInv, OrganisationPays
    <3>3. ~Open(k.o)
      BY <2>2, <2>3, <3>1, <3>2 DEF Open
    <3> QED
      BY <2>1, <2>3, <3>1, <3>3 DEF CustomerTrue
  <2> QED
    BY <1>4, <2>1, <2>2, <2>3 DEF CustomerTrue
<1>8. RowsTrue'
  <2> SUFFICES ASSUME NEW o \in Organisations, Open(o)' PROVE RowTrue(o)'
    BY DEF RowsTrue
  <2>1. CASE Open(o) /\ org'[o] = org[o] /\ subscription'[o] = subscription[o]
    <3>1. \A s \in SoldTo(o)' : NothingNew(s, o)
      BY <1>1, <1>4 DEF NothingNew, Newest
    <3> QED
      BY <1>1, <1>2, <2>1, <3>1, RowStays DEF Mirrors, RowsTrue, PlanKept
  <2>2. CASE /\ org[o].state = "none" /\ org'[o] = NewOrganisation("open")
             /\ subscription'[o] = NoSubscription
    <3>1. SoldTo(o) = {}
      BY <1>6, <2>2 DEF SoldTo
    <3>2. org'[o].code = NoCode /\ subscription'[o].code = NoCode
      BY <2>2 DEF NewOrganisation, NoSubscription
    <3> QED
      BY <1>4, <3>1, <3>2 DEF RowTrue, Foreign
  <2> QED
    BY <1>5, <2>1, <2>2
<1>9. TruthsTrue'
  <2> SUFFICES ASSUME NEW v \in Workers, v \notin late, NEW j, j = job[v]
               PROVE  MirrorTruth(j)'
    BY <1>1 DEF TruthsTrue, MirrorTruth, Reads
  <2>1. j \in Jobs /\ JobKnown(j) /\ MirrorTruth(j)
    BY DEF BillInv, BillTyped, Mirrors, TruthsTrue
  <2>2. \A o \in Reads(j) : o \in Organisations /\ org[o].state # "none"
    BY <2>1, JobFields DEF MirrorTruth, Reads, Handles, Checkouts
  <2> QED
    <3>1. \A o \in Reads(j) : Open(o)' => Settled(o)
      BY <1>1, <1>5, <2>2 DEF Settled, PlanKept
    <3> QED
      BY <1>2, <2>1, <3>1, TruthRemains
<1> QED
  BY <1>3, <1>7, <1>8, <1>9 DEF Mirrors

LEMMA MirrorUndisturbed ==
    ASSUME BillInv, MirrorInv, UNCHANGED <<org, account, subscription, billingOnly>>
    PROVE  MirrorInv'
<1>1. UNCHANGED <<sub, inbox, emitted, job, late, staleWrite, disordered, managed>>
  BY DEF billingOnly, provider, billingHistory
<1>2. JobsGoOn
  BY <1>1 DEF JobsGoOn
<1> QED
  BY <1>1, <1>2, QuietMirrors DEF MirrorInv

LEMMA MirrorFirst == Init => MirrorInv
<1> SUFFICES ASSUME Init PROVE Mirrors
  BY DEF MirrorInv
<1>1. /\ inbox = {} /\ sub = [s \in Codes |-> Unsold] /\ job = [w \in Workers |-> Resting]
      /\ subscription = [o \in Organisations |-> NoSubscription]
      /\ \A o \in Organisations : org[o].code = NoCode
  BY DEF Init, BillingInit, NewOrganisation
<1>2. Sold = {}
  BY <1>1 DEF Sold
<1>3. \A w \in Workers : job[w].pc = "resting"
  BY <1>1 DEF Resting
<1>4. InLine /\ CustomersTrue
  BY <1>1, <1>2 DEF InLine, SalesInLine, EventsInLine, LatestLeft, SoldTo, CustomersTrue
<1>5. FirstHandled /\ AllSuit /\ TruthsTrue
  BY <1>3 DEF FirstHandled, Handles, AllSuit, Suits, TruthsTrue, MirrorTruth, Reads
<1>6. RowsTrue
  BY <1>1, <1>2 DEF RowsTrue, RowTrue, Foreign, NoSubscription, SoldTo
<1> QED
  BY <1>4, <1>5, <1>6 DEF Mirrors

LEMMA MirrorFromTruth == BillInv /\ MirrorInv => MirrorsTheProvider
<1> SUFFICES ASSUME BillInv, Mirrors, inbox = {}, NEW o \in Organisations, Open(o), SoldTo(o) # {}
             PROVE  \E s \in SoldTo(o) :
                LET plan == sub[s].sale.plan
                    status == mapPaystackStatus[sub[s].status]
                IN  /\ \A q \in SoldTo(o) : sub[q].since <= sub[s].since
                    /\ org[o].code = s
                    /\ subscription[o] = [code |-> s, plan |-> plan, status |-> status]
                    /\ o \notin managed => org[o].plan = plan /\ org[o].billing = status
  BY DEF MirrorInv, MirrorsTheProvider
<1>1. PICK s \in SoldTo(o) : Newest(s, o)
  BY DEF Mirrors, InLine, SalesInLine
<1>2. Coded(s, o) /\ Mirrored(s, o)
  BY <1>1 DEF Mirrors, RowsTrue, RowTrue, Unanswered
<1>3. subscription[o] = [code |-> subscription[o].code, plan |-> subscription[o].plan,
                         status |-> subscription[o].status]
  BY SubscriptionFields DEF BillInv, BillTyped
<1> QED
  BY <1>1, <1>2, <1>3 DEF Coded, Mirrored, Newest

(***************************************************************************)
(* Everything together.                                                    *)
(***************************************************************************)
IndInv == /\ MemberInv /\ AcceptedInv /\ MemberTrueInv
          /\ AuthInv /\ AuthTrueInv
          /\ BillInv /\ BillTrueInv /\ MirrorInv
          /\ PlatformInv /\ ManagedTyped

LEMMA IndInvFirst == Init => IndInv
BY MembershipFirst, AuthFirst, BillingFirst, MirrorFirst
   DEF IndInv, ManagedTyped, Init, BillingInit

LEMMA IndInvNext == IndInv /\ [Next]_vars => IndInv'
<1> SUFFICES ASSUME IndInv, [Next]_vars PROVE IndInv'
  OBVIOUS
<1>1. /\ MemberInv /\ AcceptedInv /\ MemberTrueInv /\ AuthInv /\ AuthTrueInv
      /\ BillInv /\ BillTrueInv /\ MirrorInv /\ OrganisationsTyped
      /\ PlatformInv /\ ManagedTyped
  BY DEF IndInv, MemberInv
<1>2. CASE MembershipNext /\ Cascade /\ AccountsGo(Gone) /\ UNCHANGED billingOnly
  <2>1. MemberInv' /\ AcceptedInv' /\ MemberTrueInv' /\ PlatformInv'
    BY <1>1, <1>2, MemberInvNext, AcceptedNext, MemberTrueNext, PlatformNext
  <2>2. AuthInv' /\ AuthTrueInv'
    BY <1>1, <1>2, WritesGone, TruthWhenGone
  <2>3. BillInv' /\ BillTrueInv' /\ MirrorInv'
    BY <1>1, <1>2, MembersPay, MembersMirror
  <2>4. ManagedTyped'
    BY <1>1, <1>2, ManagedStays DEF billingOnly, billingHistory
  <2> QED
    BY <2>1, <2>2, <2>3, <2>4 DEF IndInv
<1>3. CASE BillingNext /\ UNCHANGED <<account, membershipOnly, authOnly>>
  <2>1. BillInv' /\ BillTrueInv' /\ MirrorInv' /\ OrganisationsEndure
    BY <1>1, <1>3, BillingNextKeeps, MirrorsBilling
  <2>2. MemberInv' /\ AcceptedInv' /\ MemberTrueInv' /\ PlatformInv'
    BY <1>1, <1>3, <2>1, MembershipUndisturbed
  <2>3. AuthInv' /\ AuthTrueInv'
    BY <1>1, <1>3, AuthUndisturbed
  <2>4. ManagedTyped'
    BY <1>1, <1>3, ManagedStays
  <2> QED
    BY <2>1, <2>2, <2>3, <2>4 DEF IndInv
<1>4. ASSUME UNCHANGED <<org, account, membershipOnly, subscription, billingOnly>>
      PROVE  /\ MemberInv' /\ AcceptedInv' /\ MemberTrueInv' /\ PlatformInv'
             /\ BillInv' /\ BillTrueInv' /\ MirrorInv' /\ ManagedTyped'
  <2>1. OrganisationsEndure
    BY <1>1, <1>4 DEF OrganisationsEndure, OrganisationsTyped
  <2>2. ManagedTyped'
    BY <1>1, <1>4, ManagedStays DEF billingOnly, billingHistory
  <2> QED
    BY <1>1, <1>4, <2>1, <2>2, MembershipUndisturbed, BillingUndisturbed,
       MirrorUndisturbed
<1>5. CASE AuthNext /\ UNCHANGED <<org, account, membershipOnly, subscription, billingOnly>>
  BY <1>1, <1>4, <1>5, AuthNextKeeps DEF IndInv
<1>6. CASE UNCHANGED vars
  BY <1>1, <1>4, <1>6, AuthUndisturbed DEF IndInv, vars
<1> QED
  BY <1>2, <1>3, <1>5, <1>6 DEF Next

LEMMA IndInvAlways == Spec => []IndInv
BY IndInvFirst, IndInvNext, PTL DEF Spec

\* Every row, handler, token and event holds values of its type, and nothing
\* refers to an organisation that is not there.
THEOREM TypeCorrect == Spec => []TypeOK
<1>1. IndInv => BillingTypeOK
  BY DEF IndInv, BillInv, BillTyped, ManagedTyped, BillingTypeOK
<1>2. IndInv => MembershipTypeOK
  BY MemberTypes DEF IndInv, PlatformInv
<1>3. IndInv => TypeOK
  BY <1>1, <1>2 DEF IndInv, AuthInv, BillInv, OrganisationPays, TypeOK
<1> QED
  BY <1>3, IndInvAlways, PTL

\* Who was invited and is said to have accepted is a member, however handlers of
\* accept, cancel and the end of an organisation overlap, fail or die.
THEOREM AcceptedAreMembers == Spec => []AcceptedMeansMember
<1>1. IndInv => AcceptedMeansMember
  BY DEF IndInv, AcceptedInv
<1> QED
  BY <1>1, IndInvAlways, PTL

\* No person holds two invitations to one organisation that can be taken up, as
\* long as no handler writes on an overtaken read.
THEOREM InvitationsStaySingle == Spec => []OneLiveInvitation
<1>1. IndInv => OneLiveInvitation
  <2> SUFFICES ASSUME IndInv, ~staleCommit, NEW e \in Emails, NEW o \in Organisations
               PROVE  Cardinality({i \in Pending(e, o) : ~Lapsed(i)}) <= 1
    BY DEF OneLiveInvitation
  <2> DEFINE live == {i \in Pending(e, o) : ~Lapsed(i)}
  <2>1. OnePending
    BY DEF IndInv, MemberTrueInv
  <2>2. \A i, j \in live : i = j
    BY <2>1 DEF OnePending, Pending
  <2>3. live = {} \/ \E i : live = {i}
    BY <2>2
  <2> HIDE DEF live
  <2>4. Cardinality(live) \in {0, 1}
    BY <2>3, FS_EmptySet, FS_Singleton
  <2>5. Cardinality(live) <= 1
    BY <2>4
  <2> QED
    BY <2>5 DEF live
<1> QED
  BY <1>1, IndInvAlways, PTL

\* An organisation that was founded with a member always has one, and an administrator
\* as long as no handler writes on an overtaken read; one the platform opened has
\* nobody, and nobody is ever invited to it.
THEOREM AdminsRemain == Spec => []AdminRemains
<1>1. IndInv => AdminRemains
  BY AdminRemainsFrom DEF IndInv
<1> QED
  BY <1>1, IndInvAlways, PTL

\* A session that was logged out, revoked or found replayed has no live token,
\* and none outlives the reset of its password, as long as no handler stores on
\* an outdated read.
THEOREM SessionsStayEnded == Spec => []EndedStaysEnded
<1>1. IndInv => EndedStaysEnded
  BY EndedFromTruth DEF IndInv
<1> QED
  BY <1>1, IndInvAlways, PTL

\* In whatever order and however often events come, a subscription that the
\* database calls cancelled has been disabled at the provider.
THEOREM CancellationIsReal == Spec => []CanceledIsDisabled
<1>1. IndInv => CanceledIsDisabled
  BY CanceledFromTruth DEF IndInv
<1> QED
  BY <1>1, IndInvAlways, PTL

\* Once every event is answered, an organisation and its row say what the provider
\* says of the subscription it bought last, whatever answers were lost and handlers
\* died, as long as events were handled in order and none wrote on an overtaken read;
\* of the organisation's plan and status, unless the platform has set them since.
THEOREM MirrorIsTrue == Spec => []MirrorsTheProvider
<1>1. IndInv => MirrorsTheProvider
  BY MirrorFromTruth DEF IndInv
<1> QED
  BY <1>1, IndInvAlways, PTL
=============================================================================
