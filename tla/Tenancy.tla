------------------------------ MODULE Tenancy ------------------------------
(***************************************************************************)
(* Membership, authentication and billing together.  They meet in the rows *)
(* of organisations and accounts: a webhook changes the plan that limits   *)
(* invitations, members sign in, buy and cancel, and an organisation may   *)
(* be deleted while its subscription is being paid and its members are     *)
(* signed in, with the Subscription row and their tokens (onDelete:        *)
(* Cascade) but without a word to the provider.                            *)
(***************************************************************************)
EXTENDS Membership, Billing, Authentication

CONSTANTS
    Home,       \* the organisation there is at first
    Cases       \* bound: the roles its first members have, the requests to
                \* membership and authentication, and the requests and
                \* turns of billing

\* The first organisation was founded like any other, with an administrator.
ASSUME TenancyAssumption ==
    /\ Home \in Organisations
    /\ \A case \in Cases :
          /\ DOMAIN case.roster \subseteq Emails
          /\ \A e \in DOMAIN case.roster : case.roster[e] \in Role
          /\ \E e \in DOMAIN case.roster : case.roster[e] = "ADMIN"
          /\ case.requests \in Nat /\ case.orders \in Nat /\ case.calls \in Nat

membershipOnly == <<invitation, registration, demoted, op, memberHistory, byPlatform>>
billingOnly == <<provider, job, billingHistory>>
vars == <<org, account, membershipOnly, subscription, billingOnly, authOnly>>

Init == /\ org = [o \in Organisations |-> NewOrganisation(IF o = Home THEN "open" ELSE "none")]
        /\ \E case \in Cases :
            /\ account = [e \in Emails |-> IF e \in DOMAIN case.roster
                                           THEN [org |-> Home, role |-> case.roster[e]]
                                           ELSE NoAccount]
            /\ budget = case.requests /\ orders = case.orders /\ calls = case.calls
        /\ MembershipInit /\ BillingInit /\ AuthInit

\* The row of a deleted organisation goes with it, as do the members' tokens.
Cascade == subscription' = [o \in Organisations |-> IF org'[o].state = "open" THEN subscription[o]
                                                    ELSE NoSubscription]

Gone == {e \in Emails : account[e] # NoAccount /\ account'[e] = NoAccount}

Next == \/ MembershipNext /\ Cascade /\ AccountsGo(Gone) /\ UNCHANGED billingOnly
        \/ BillingNext /\ UNCHANGED <<account, membershipOnly, authOnly>>
        \/ AuthNext /\ UNCHANGED <<org, account, membershipOnly, subscription, billingOnly>>

Spec == Init /\ [][Next]_vars

\* The type invariants of the three, and no Subscription row without its organisation.
TypeOK == /\ MembershipTypeOK
          /\ BillingTypeOK
          /\ AuthTypeOK
          /\ \A o \in Organisations : subscription[o] # NoSubscription => Open(o)
=============================================================================
