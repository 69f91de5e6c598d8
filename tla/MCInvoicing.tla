----------------------------- MODULE MCInvoicing -----------------------------
(***************************************************************************)
(* An order of one chair and one desk at the same price.  The vendor may   *)
(* bill both, one chair at its price or at the double, and two chairs in   *)
(* one item or in two.                                                     *)
(***************************************************************************)
EXTENDS Invoicing, TLC

CONSTANTS c1, c2, chair, desk

MCOrdered == chair :> 1 @@ desk :> 1

Item(l, q, price) == [line |-> l, quantity |-> q, unitPrice |-> price]

Both == SetToBag({Item(chair, 1, 1), Item(desk, 1, 1)})
ChairAlone == SetToBag({Item(chair, 1, 1)})
TwoChairs == SetToBag({Item(chair, 2, 1)})
ChairTwice == Item(chair, 1, 1) :> 2
ChairTooDear == SetToBag({Item(chair, 1, 2)})

MCBills == {Both, ChairAlone, TwoChairs, ChairTooDear}
MCBillsAndDouble == {Both, ChairTwice}

Symmetry == Permutations(Clients)
=============================================================================
