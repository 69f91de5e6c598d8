------------------------ MODULE MCApprovalWorkflow ------------------------
(***************************************************************************)
(* An organisation with an admin, who stands in for the procurement manager *)
(* and for finance, a department head and a requester; two line items and   *)
(* two budgets, of which only one equals the sum of both items.             *)
(***************************************************************************)
EXTENDS ApprovalWorkflow, TLC

CONSTANTS c1, c2, admin, head, requester, chair, desk

MCRoleOf == admin :> "ADMIN" @@ head :> "DEPARTMENT_HEAD" @@ requester :> "REQUESTER"
MCPrice == chair :> 1 @@ desk :> 2
MCBudgets == {1, 3}
ClientSymmetry == Permutations(Clients)
=============================================================================
