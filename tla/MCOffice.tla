------------------------------- MODULE MCOffice -------------------------------
(* Purchasing and Billing, for TLC. They share no row, so a run looks at one    *)
(* scene, chosen in the initial state: those of MCPurchasing, and the invoices  *)
(* of a visit.                                                                  *)
EXTENDS MCPurchasing, MCBilling

OfficeInit == SceneInit /\ BillingInit

OfficeNext ==
  \/ SceneNext /\ scene # "invoices" /\ UNCHANGED billingVars
  \/ scene = "invoices" /\ BillingNext /\ UNCHANGED <<scene, vars>>

OfficeSpec == OfficeInit /\ [][OfficeNext]_<<scene, vars, billingVars>>
=============================================================================
