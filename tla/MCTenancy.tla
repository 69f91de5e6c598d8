----------------------------- MODULE MCTenancy -----------------------------
(***************************************************************************)
(* One organisation with an administrator and a colleague, and another     *)
(* that may be founded.                                                    *)
(***************************************************************************)
EXTENDS Tenancy, TLC

CONSTANTS c1, c2, w1, w2, e1, e2, e3, i1, i2, r1, r2, o1, o2, s1, s2,
          v1, v2, t1, t2, t3, k1, k2

Case(roster, members, bills, signins) ==
    [roster |-> roster, requests |-> members, orders |-> bills, calls |-> signins]
Alone == e1 :> "ADMIN"
Boss == e1 :> "ADMIN" @@ e2 :> "USER"
Peers == e1 :> "ADMIN" @@ e2 :> "ADMIN"
MCCases == {Case(Peers, 3, 0, 0), Case(Boss, 4, 0, 0), Case(Alone, 1, 2, 0),
            Case(Alone, 0, 4, 0), Case(Boss, 0, 3, 0),
            Case(Alone, 0, 0, 5), Case(Alone, 1, 0, 3)}
MCGrants == {[plan |-> "ENTERPRISE", billing |-> "ACTIVE"], [plan |-> "FREE", billing |-> "CANCELED"]}

Symmetry == Permutations(Clients) \cup Permutations(Workers) \cup Permutations(Codes)
            \cup Permutations(Callers)
=============================================================================
