------------------------------- MODULE TireZone -------------------------------
(***************************************************************************)
(* tireszone.service.ts, and the order integration.service.ts opens for a  *)
(* visit: the catalogue, the lines of an order, its completion, which      *)
(* issues stock, raises an invoice and starts warranties in one            *)
(* transaction, and its cancellation.                                      *)
(*                                                                         *)
(* A line is an edit's number and an item: each product at most once in an *)
(* edit, and one service. An edit deletes lines with their warranties and  *)
(* inserts its own; rev counts the edits. Amounts are left out.            *)
(***************************************************************************)
EXTENDS ShopDesk

CONSTANTS TireOrder,
          Product,    \* inventory parts that can be sold as tyres
          Warranted,  \* those with warranty terms
          Fits,       \* those that fit the visit's vehicle
          Supply,     \* per product, what the shop has at first
          MaxRev      \* bound: edits of an order's lines

ASSUME TireAssumption ==
  /\ Warranted \subseteq Product /\ Fits \subseteq Product
  /\ IsFiniteSet(Product) /\ Supply \in [Product -> Nat] /\ MaxRev \in Nat

VARIABLES catalogue,  \* products registered as tyres
          shelf,      \* per product, what is on hand and not reserved
          tire        \* tireszone.sales_orders

tireVars == <<catalogue, shelf, tire>>

Fitting == "fitting"  \* the service line

Basket == SUBSET (catalogue \cup {Fitting})

\* The lines among the given ones that sell product p, and those with a warranty.
Of(lines, p) == {l \in lines : l[2] = p}
WithTerms(lines) == {l \in lines : l[2] \in Warranted}

TireTypeOK ==
  /\ catalogue \subseteq Product
  /\ shelf \in [Product -> Nat]
  /\ \A o \in TireOrder :
       /\ tire[o].status \in {"none", "draft", "completed", "cancelled"}
       /\ tire[o].rev \in 0..MaxRev
       /\ tire[o].lines \subseteq (0..MaxRev) \X (Product \cup {Fitting})
       /\ tire[o].customer \in BOOLEAN /\ tire[o].covered \subseteq (0..MaxRev) \X Product
       /\ tire[o].invoice \in 0..Len(billed[o])

NoTireOrder == [status |-> "none", customer |-> FALSE, lines |-> {}, rev |-> 0,
                covered |-> {}, invoice |-> 0]

TireInit ==
  /\ catalogue = {}
  /\ shelf = Supply
  /\ tire = [o \in TireOrder |-> NoTireOrder]

-----------------------------------------------------------------------------
\* createProduct: a part is registered once; part_id is unique, so a second
\* registration that passed the look-up fails at the insert.
RegisterProduct(p) ==
  /\ p \notin catalogue
  /\ catalogue' = catalogue \cup {p}
  /\ UNCHANGED <<deskVars, shelf, tire>>

\* createOrder: a draft, with or without a customer.
OpenTireOrder(o, customer) ==
  /\ tire[o].status = "none"
  /\ tire' = [tire EXCEPT ![o].status = "draft", ![o].customer = customer]
  /\ UNCHANGED <<deskVars, catalogue, shelf>>

\* requestTires: a draft for the visit's customer; the tyre, if one was chosen,
\* is among the products that fit.
RequestTires(o, chosen) ==
  /\ tire[o].status = "none"
  /\ chosen \subseteq Fits \cap catalogue
  /\ tire' = [tire EXCEPT ![o].status = "draft", ![o].customer = TRUE,
                          ![o].lines = Inserted(0, chosen)]
  /\ UNCHANGED <<deskVars, catalogue, shelf>>

\* assertOpen; no code sets the other open status, confirmed.
TireOpen(o) == tire[o].status = "draft"

ReadForItems(c, o) ==
  /\ TireOpen(o)
  /\ ReadRow(c, "items", o, NoLines)
  /\ UNCHANGED <<billed, tireVars>>

\* setOrderItems: the lines that are there, whatever the order has become, are
\* deleted, with their warranties;
DeleteOrderItems(c) ==
  /\ Serving(c, "items")
  /\ ReadOn(c, "replace", [lines |-> tire[serving[c].ref].lines])
  /\ UNCHANGED <<billed, tireVars>>

\* and the new ones inserted, and all of it committed.
SetOrderItems(c, items) ==
  LET o == serving[c].ref IN
  /\ Serving(c, "replace")
  /\ tire[o].rev < MaxRev
  /\ tire' = [tire EXCEPT
       ![o].lines = (@ \ serving[c].saw.lines) \cup Inserted(tire[o].rev + 1, items),
       ![o].covered = @ \ serving[c].saw.lines, ![o].rev = @ + 1]
  /\ Done(c)
  /\ UNCHANGED <<billed, catalogue, shelf>>

\* findOrderOrFail: the row of the order, and then its lines.
ReadForCompletion(c, o) ==
  /\ TireOpen(o)
  /\ tire[o].customer
  /\ ReadRow(c, "completing", o, NoLines)
  /\ UNCHANGED <<billed, tireVars>>

ReadOrderLines(c) ==
  LET o == serving[c].ref IN
  /\ Serving(c, "completing")
  /\ tire[o].lines # {}
  /\ ReadOn(c, "complete", [lines |-> tire[o].lines])
  /\ UNCHANGED <<billed, tireVars>>

\* Mutant: warranties are inserted without a look at the lines they are for.
WarrantiesFitAlways(o, saw) == TRUE

\* A warranty row refers to its line and is the only one to: the line must
\* still be there, without a warranty, or the transaction fails.
WarrantiesFit(o, saw) ==
  WithTerms(saw) \subseteq (tire[o].lines \ tire[o].covered) \ Deleted("replace", o)

\* The tyres of the given lines leave the shelf.
Issue(lines) == shelf' = [p \in Product |-> shelf[p] - Cardinality(Of(lines, p))]

OnShelf(lines) == \A p \in Product : Cardinality(Of(lines, p)) <= shelf[p]

\* Mutant: the tyres are issued as the order stands now, the invoice bills what
\* was read.
CompleteOrderReread(c) ==
  LET o == serving[c].ref  saw == serving[c].saw.lines IN
  /\ Serving(c, "complete")
  /\ OnShelf(tire[o].lines)
  /\ WarrantiesFit(o, saw)
  /\ Issue(tire[o].lines)
  /\ RaiseInvoice(o, saw)
  /\ tire' = [tire EXCEPT ![o].status = "completed", ![o].invoice = NewInvoice(o),
                          ![o].covered = @ \cup WithTerms(saw)]
  /\ Done(c)
  /\ UNCHANGED catalogue

\* completeOrder's transaction: the lines that were read are issued and billed.
CompleteOrder(c) ==
  LET o == serving[c].ref  saw == serving[c].saw.lines IN
  /\ Serving(c, "complete")
  /\ OnShelf(saw)
  /\ WarrantiesFit(o, saw)
  /\ Issue(saw)
  /\ RaiseInvoice(o, saw)
  /\ tire' = [tire EXCEPT ![o].status = "completed", ![o].invoice = NewInvoice(o),
                          ![o].covered = @ \cup WithTerms(saw)]
  /\ Done(c)
  /\ UNCHANGED catalogue

ReadForCancel(c, o) ==
  /\ tire[o].status \in {"draft", "cancelled"}
  /\ ReadRow(c, "cancel", o, NoLines)
  /\ UNCHANGED <<billed, tireVars>>

\* cancelOrder: the status is written whatever it has become.
CancelOrder(c) ==
  /\ Serving(c, "cancel")
  /\ tire' = [tire EXCEPT ![serving[c].ref].status = "cancelled"]
  /\ Done(c)
  /\ UNCHANGED <<billed, catalogue, shelf>>

TireNext ==
  \/ \E p \in Product : RegisterProduct(p)
  \/ \E o \in TireOrder, customer \in BOOLEAN : OpenTireOrder(o, customer)
  \/ \E o \in TireOrder, p \in Product : RequestTires(o, {p})
  \/ \E o \in TireOrder : RequestTires(o, {})
  \/ \E c \in Seller, o \in TireOrder :
       ReadForItems(c, o) \/ ReadForCompletion(c, o) \/ ReadForCancel(c, o)
  \/ \E c \in Seller, items \in Basket : SetOrderItems(c, items)
  \/ \E c \in Seller : DeleteOrderItems(c) \/ ReadOrderLines(c)
                        \/ CompleteOrder(c) \/ CancelOrder(c)

-----------------------------------------------------------------------------
\* The invoice lines for product p: an order, the place of the invoice and a line.
SoldLines(p) ==
  UNION {UNION {{<<o, i>>} \X Of(billed[o][i], p) : i \in DOMAIN billed[o]} : o \in TireOrder}

\* Stock and ledger agree on the tyres sold: every one that left the shelf is on
\* an invoice, however edits, completions and cancellations of an order overlap.
ShelfMatchesInvoices ==
  \A p \in Product : shelf[p] + Cardinality(SoldLines(p)) = Supply[p]

\* No line with warranty terms is billed twice, however completions of its order
\* overlap: the row of the warranty it gets is the only one it can have. Two invoices
\* with warranted tyres can still be raised for one order: for different lines, when
\* an edit came between what the two completions read of it.
WarrantedLineSoldOnce ==
  \A o \in TireOrder : \A i, k \in DOMAIN billed[o] :
    i # k => WithTerms(billed[o][i]) \cap WithTerms(billed[o][k]) = {}
=============================================================================
