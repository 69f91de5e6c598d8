------------------------------ MODULE Payable ------------------------------
(***************************************************************************)
(* What a vendor invoice promises finance: a claim is drawn up, made once, *)
(* verified against the goods delivered, cleared and paid, or refused      *)
(* before it is cleared.  What has been claimed is what is paid.           *)
(*                                                                         *)
(* Invoicing.tla shows how far the API implements this.                    *)
(***************************************************************************)
CONSTANTS NoClaim,              \* the bill of a claim that does not exist
          Agrees(_, _)          \* may a bill be paid, given the goods delivered?

VARIABLES stage, bill, delivered

payableVars == <<stage, bill, delivered>>

PayableInit == stage = "none" /\ bill = NoClaim

\* A draft may be written again and again, and thrown away.
Draft == /\ stage \in {"none", "draft"}
         /\ stage' = "draft"
         /\ UNCHANGED delivered

Discard == /\ stage = "draft"
           /\ stage' = "none" /\ bill' = NoClaim
           /\ UNCHANGED delivered

\* From here on a step moves the stage and leaves the bill as it was claimed.
Move(from, to) == stage \in from /\ stage' = to /\ UNCHANGED <<bill, delivered>>

Claim == Move({"draft"}, "claimed")
Verify == Agrees(bill, delivered) /\ Move({"claimed"}, "verified")
Clear == Move({"verified"}, "cleared")
Pay == Move({"cleared"}, "paid")
Refuse == Move({"claimed", "verified"}, "refused")

Deliver == UNCHANGED <<stage, bill>>

PayableNext == Draft \/ Discard \/ Claim \/ Verify \/ Clear \/ Pay \/ Refuse \/ Deliver

PayableSpec == PayableInit /\ [][PayableNext]_payableVars
=============================================================================
