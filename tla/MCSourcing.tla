----------------------------- MODULE MCSourcing -----------------------------
(***************************************************************************)
(* Two vendors, two bids of one item each and one evaluator who may give   *)
(* either of two scores.                                                   *)
(***************************************************************************)
EXTENDS Sourcing, TLC

CONSTANTS c1, c2, acme, apex, b1, b2, chair, ann, low, high

MCPrice == chair :> 1

Symmetry == Permutations(Clients) \cup Permutations(Bids)
            \cup Permutations(Vendors) \cup Permutations(Scores)
=============================================================================
