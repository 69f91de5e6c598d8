--------------------------- MODULE ApprovalLadder ---------------------------
(***************************************************************************)
(* What a procurement request promises the organisation, with no handler,  *)
(* no transaction and no table in sight: a request is submitted once, its  *)
(* approval levels are signed one after the other from the lowest, and the *)
(* request is approved by the last signature or rejected at the level      *)
(* whose turn it is.  Nothing changes afterwards.                          *)
(*                                                                         *)
(* ApprovalWorkflow.tla shows how far the API implements this.             *)
(***************************************************************************)
EXTENDS Integers

CONSTANT LastLevel     \* the level whose signature approves the request

VARIABLES stage, signed

ladderVars == <<stage, signed>>

Stages == {"draft", "review", "approved", "rejected", "gone"}

LadderInit == stage = "draft" /\ signed = {}

Submit == /\ stage = "draft"
          /\ stage' = "review"
          /\ UNCHANGED signed

Discard == /\ stage = "draft"
           /\ stage' = "gone"
           /\ UNCHANGED signed

\* The level signed is the successor of those signed so far: none is skipped
\* and none is signed twice.
Sign(l) == /\ stage = "review"
           /\ signed = 1 .. (l - 1)
           /\ signed' = 1 .. l
           /\ stage' = IF l = LastLevel THEN "approved" ELSE "review"

Reject == /\ stage = "review"
          /\ stage' = "rejected"
          /\ UNCHANGED signed

LadderNext == Submit \/ Discard \/ Reject \/ \E l \in 1 .. LastLevel : Sign(l)

LadderSpec == LadderInit /\ [][LadderNext]_ladderVars
=============================================================================
