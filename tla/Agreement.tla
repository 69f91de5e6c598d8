----------------------------- MODULE Agreement -----------------------------
(***************************************************************************)
(* What a contract promises its parties: it is drafted, comes into force   *)
(* and ends.  Only a draft may be edited or thrown away; the term of a     *)
(* contract in force changes by renewal alone; one that has ended is never *)
(* touched again.                                                          *)
(*                                                                         *)
(* Contracts.tla shows how far the API implements this.                    *)
(***************************************************************************)
EXTENDS Naturals

VARIABLES stage, term, annexes

agreementVars == <<stage, term, annexes>>

AgreementInit == stage = "none"

DrawUp == stage = "none" /\ stage' = "draft" /\ annexes' = 0
Edit == stage = "draft" /\ UNCHANGED <<stage, annexes>>
Discard == stage = "draft" /\ stage' = "discarded"
Conclude == stage = "draft" /\ stage' = "inForce" /\ UNCHANGED <<term, annexes>>
Renew == stage = "inForce" /\ UNCHANGED <<stage, annexes>>
End == stage \in {"draft", "inForce"} /\ stage' = "ended" /\ UNCHANGED <<term, annexes>>

Annex == /\ stage \in {"draft", "inForce"}
         /\ annexes' = annexes + 1
         /\ UNCHANGED <<stage, term>>

AgreementNext == DrawUp \/ Edit \/ Discard \/ Conclude \/ Renew \/ End \/ Annex

AgreementSpec == AgreementInit /\ [][AgreementNext]_agreementVars
=============================================================================
