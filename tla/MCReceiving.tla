---------------------------- MODULE MCReceiving ----------------------------
(***************************************************************************)
(* An order with one line of two units and two receipts against it.        *)
(***************************************************************************)
EXTENDS Receiving, TLC

CONSTANTS c1, c2, g1, g2, bolts

MCQuantity == bolts :> 2

Symmetry == Permutations(Clients) \cup Permutations(Receipts)
=============================================================================
