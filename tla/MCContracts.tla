----------------------------- MODULE MCContracts -----------------------------
(***************************************************************************)
(* Two contracts of one organisation and one of another, terms of one or   *)
(* two days.                                                               *)
(***************************************************************************)
EXTENDS Contracts, TLC

CONSTANTS c1, c2, k1, k2, k3, o1, o2

MCOrganisation == k1 :> o1 @@ k2 :> o1 @@ k3 :> o2

Symmetry == Permutations(Clients) \cup Permutations({k1, k2})
=============================================================================
