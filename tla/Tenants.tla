----------------------------- MODULE Tenants -----------------------------
(***************************************************************************)
(* The rows that membership and billing share: organisations and the       *)
(* accounts of their members.                                              *)
(*                                                                         *)
(* An organisation is identified by its slug and an account by its email,  *)
(* which are unique keys; the name of a deleted organisation is not taken  *)
(* again.                                                                  *)
(***************************************************************************)
EXTENDS Integers, FiniteSets

CONSTANTS
    Organisations,  \* the names organisations have or may be given
    Emails,         \* the people who have accounts or may be given one
    Codes           \* subscriptions the payment provider may create

VARIABLES org, account

SubscriptionPlan == {"FREE", "STARTER", "PROFESSIONAL", "ENTERPRISE"}
BillingStatus == {"TRIALING", "ACTIVE", "PAST_DUE", "CANCELED", "UNPAID"}

\* The users a plan allows, -1 for any number.
PLAN_LIMITS == [FREE |-> 3, STARTER |-> 10, PROFESSIONAL |-> 50, ENTERPRISE |-> -1]

\* The roles of which one matters: that of an administrator.
Role == {"ADMIN", "USER"}

\* customer is the member whose customer at the provider pays, code the
\* subscription; there may be neither.
Nobody == "nobody"
NoCode == "no code"
OrganisationRows ==
    [state : {"none", "open", "deleted"}, plan : SubscriptionPlan, billing : BillingStatus,
     customer : Emails \cup {Nobody}, code : Codes \cup {NoCode}]
NewOrganisation(st) == [state |-> st, plan |-> "FREE", billing |-> "TRIALING",
                        customer |-> Nobody, code |-> NoCode]

\* No mark for nothing is the name of something.
ASSUME TenantsAssumption ==
    "nowhere" \notin Organisations /\ Nobody \notin Emails /\ NoCode \notin Codes

\* Who has no account belongs to no organisation.
NoAccount == [org |-> "nowhere", role |-> "USER"]
Accounts == {NoAccount} \cup [org : Organisations, role : Role]

Open(o) == org[o].state = "open"
Members(o) == {e \in Emails : account[e].org = o}
Admins(o) == {e \in Members(o) : account[e].role = "ADMIN"}

\* assertWithinLimit: the limit of the plan against the accounts there are.
WithinLimit(o) == LET limit == PLAN_LIMITS[org[o].plan]
                  IN  limit < 0 \/ Cardinality(Members(o)) < limit
=============================================================================
