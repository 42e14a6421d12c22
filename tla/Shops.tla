--------------------------------- MODULE Shops ---------------------------------
(***************************************************************************)
(* The three shops that sell beside the workshop. They share the invoices, *)
(* each tagged with the shop's row it is for, and the people who serve.    *)
(***************************************************************************)
EXTENDS TireZone, Cafe, Uxb

\* The shops' rows are in tables of their own.
ASSUME ShopsAssumption ==
  TireOrder \cap CafeOrder = {} /\ TireOrder \cap Job = {} /\ CafeOrder \cap Job = {}

Sold == TireOrder \cup CafeOrder \cup Job

shopVars == <<deskVars, tireVars, cafeVars, uxbVars>>

ShopsInit ==
  /\ serving = [c \in Seller |-> Free]
  /\ billed = [x \in Sold |-> <<>>]
  /\ TireInit /\ CafeInit /\ UxbInit

\* A request is refused at its write, its transaction fails, or its client goes.
Withdraw(c) ==
  /\ serving[c] # Free
  /\ Done(c)
  /\ UNCHANGED <<billed, tireVars, cafeVars, uxbVars>>

TireStep == TireNext /\ UNCHANGED <<cafeVars, uxbVars>>
CafeStep == CafeNext /\ UNCHANGED <<tireVars, uxbVars>>
UxbStep  == UxbNext /\ UNCHANGED <<tireVars, cafeVars>>

ShopsNext == TireStep \/ CafeStep \/ UxbStep \/ \E c \in Seller : Withdraw(c)

ShopsSpec == ShopsInit /\ [][ShopsNext]_shopVars

-----------------------------------------------------------------------------
InvoiceOf(x) ==
  CASE x \in TireOrder -> tire[x].invoice
    [] x \in CafeOrder -> cup[x].invoice
    [] x \in Job       -> job[x].invoice

\* The goods of every shop are accounted for: the tyres that left the shelf are on
\* invoices, the ingredients in orders or the waste log, the film on consumption
\* records, whichever requests overlap, fail or are given up halfway.
GoodsAccounted == ShelfMatchesInvoices /\ PantryAgrees /\ MaterialIsAccounted

\* A second invoice for one order or job needs a second request that read it
\* before the first was raised: one after the other they raise one, even for an
\* order that is made ready and closed again. And a row refers to an invoice as
\* soon as it has one.
InvoicesNeedOverlap ==
  \A x \in Sold :
    /\ Len(billed[x]) <= Cardinality(Seller)
    /\ InvoiceOf(x) = 0 <=> billed[x] = <<>>
=============================================================================
