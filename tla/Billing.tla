------------------------------- MODULE Billing -------------------------------
(***************************************************************************)
(* invoices.service and the payment gate of vehicle-visits.service: the    *)
(* invoices of one visit, drawn up from its approved quotations, issued,   *)
(* paid in parts, cancelled, and the visit's delivery, which asks that all *)
(* of them are paid or that a manager overrides it.                        *)
(*                                                                         *)
(* issue compares-and-sets the one thing it reads and is one action. The   *)
(* other routines read first; what cashier c's has read is reading[c]. A   *)
(* write whose comparison fails ends the routine (Abandon) and leaves      *)
(* nothing behind, the payment row it had inserted included.               *)
(***************************************************************************)
EXTENDS Totals

CONSTANTS Quote,         \* the approved quotations of the visit
          Price,         \* their totals
          MaxInvoices,   \* bound: rows of invoices
          MaxPayments,   \* bound: rows of payments
          Cashier        \* requests handled at the same time

ASSUME BillingAssumption ==
  /\ Price \in [Quote -> Nat]
  /\ MaxInvoices \in Nat /\ MaxPayments \in Nat

Unquoted == "no quotation"

ASSUME UnquotedAssumption == Unquoted \notin Quote

VARIABLES invoice,   \* invoices, by id
          payment,   \* payments, by id
          delivered, \* whether the visit, ready for delivery, is completed
          reading    \* what each cashier's routine has read and not written

billingVars == <<invoice, payment, delivered, reading>>

Invoice == 1..MaxInvoices
Payment == 1..MaxPayments

InvoiceStatus == {"none", "draft", "issued", "partial", "paid", "cancelled"}

\* A routine under way: the invoice, or the quotation, and what was read of it.
Read(op, i, q) == [op |-> op, id |-> i, quote |-> q, status |-> "none", paid |-> 0,
                   amount |-> 0, seen |-> {}]
Free == Read("idle", 0, Unquoted)

InvoiceRow == [status: InvoiceStatus, quote: Quote \cup {Unquoted}, paid: Nat]
PaymentRow == [invoice: {0} \cup Invoice, amount: Nat]
Reading == [op: {"idle", "create", "pay", "cancel", "deliver", "override"},
            id: {0} \cup Invoice, quote: Quote \cup {Unquoted}, status: InvoiceStatus,
            paid: Nat, amount: Nat, seen: SUBSET Invoice]

BillingTypeOK ==
  /\ invoice \in [Invoice -> InvoiceRow]
  /\ payment \in [Payment -> PaymentRow]
  /\ delivered \in BOOLEAN
  /\ reading \in [Cashier -> Reading]

BillingInit ==
  /\ invoice = [i \in Invoice |-> [status |-> "none", quote |-> Unquoted, paid |-> 0]]
  /\ payment = [p \in Payment |-> [invoice |-> 0, amount |-> 0]]
  /\ delivered = FALSE
  /\ reading = [c \in Cashier |-> Free]

Total(i) == IF invoice[i].quote = Unquoted THEN 0 ELSE Price[invoice[i].quote]

Reads(c, r) ==
  /\ reading' = [reading EXCEPT ![c] = r]
  /\ UNCHANGED <<invoice, payment, delivered>>

Finish(c) == reading' = [reading EXCEPT ![c] = Free]

-----------------------------------------------------------------------------
\* createFromQuotation: the search for an active invoice comes before the
\* transaction that inserts.
ReadCreate(c, q) ==
  /\ reading[c] = Free
  /\ \A i \in Invoice : invoice[i].quote = q => invoice[i].status = "cancelled"
  /\ Reads(c, Read("create", 0, q))

Create(c) ==
  /\ reading[c].op = "create"
  /\ \E i \in Invoice :
       /\ invoice[i].status = "none"
       /\ \A j \in Invoice : j < i => invoice[j].status # "none"
       /\ invoice' = [invoice EXCEPT ![i] = [status |-> "draft",
                                             quote |-> reading[c].quote, paid |-> 0]]
  /\ Finish(c)
  /\ UNCHANGED <<payment, delivered>>

Issue(i) ==
  /\ invoice[i].status = "draft"
  /\ invoice' = [invoice EXCEPT ![i].status = "issued"]
  /\ UNCHANGED <<payment, delivered, reading>>

-----------------------------------------------------------------------------
\* Mutant: the amount is compared with the total.
ReadPayTotal(c, i) ==
  /\ reading[c] = Free
  /\ invoice[i].status \in {"issued", "partial"}
  /\ \E n \in 1..Total(i) :
       Reads(c, [Read("pay", i, Unquoted) EXCEPT !.status = invoice[i].status,
                                                !.paid = invoice[i].paid, !.amount = n])

\* pay: an amount of at most what is left of the invoice as read.
ReadPay(c, i) ==
  /\ reading[c] = Free
  /\ invoice[i].status \in {"issued", "partial"}
  /\ \E n \in 1..(Total(i) - invoice[i].paid) :
       Reads(c, [Read("pay", i, Unquoted) EXCEPT !.status = invoice[i].status,
                                                !.paid = invoice[i].paid, !.amount = n])

\* A new row of payments.
AddPayment(i, n) ==
  \E p \in Payment :
    /\ payment[p].invoice = 0
    /\ \A o \in Payment : o < p => payment[o].invoice # 0
    /\ payment' = [payment EXCEPT ![p] = [invoice |-> i, amount |-> n]]

Collected(i, paid) ==
  invoice' = [invoice EXCEPT ![i].paid = paid,
                             ![i].status = IF paid >= Total(i) THEN "paid" ELSE "partial"]

\* Mutant: the write names the status it read and not the amount.
PayByStatus(c, i) ==
  /\ reading[c].op = "pay" /\ reading[c].id = i
  /\ invoice[i].status = reading[c].status
  /\ AddPayment(i, reading[c].amount)
  /\ Collected(i, reading[c].paid + reading[c].amount)
  /\ Finish(c)
  /\ UNCHANGED delivered

\* The payment and the new balance, if the invoice still is as it was read.
Pay(c, i) ==
  /\ reading[c].op = "pay" /\ reading[c].id = i
  /\ invoice[i].status = reading[c].status /\ invoice[i].paid = reading[c].paid
  /\ AddPayment(i, reading[c].amount)
  /\ Collected(i, reading[c].paid + reading[c].amount)
  /\ Finish(c)
  /\ UNCHANGED delivered

ReadCancel(c, i) ==
  /\ reading[c] = Free
  /\ invoice[i].status \in {"draft", "issued"}
  /\ invoice[i].paid = 0
  /\ Reads(c, [Read("cancel", i, Unquoted) EXCEPT !.status = invoice[i].status])

\* Mutant: the write names the invoice alone.
CancelAnyway(c, i) ==
  /\ reading[c].op = "cancel" /\ reading[c].id = i
  /\ invoice' = [invoice EXCEPT ![i].status = "cancelled"]
  /\ Finish(c)
  /\ UNCHANGED <<payment, delivered>>

Cancel(c, i) ==
  /\ reading[c].op = "cancel" /\ reading[c].id = i
  /\ invoice[i].status = reading[c].status /\ invoice[i].paid = 0
  /\ invoice' = [invoice EXCEPT ![i].status = "cancelled"]
  /\ Finish(c)
  /\ UNCHANGED <<payment, delivered>>

-----------------------------------------------------------------------------
\* visitOutstanding: the invoices that count, and whether they are fully paid.
Counted == {i \in Invoice : invoice[i].status \in {"issued", "partial", "paid"}}

\* Mutant: a visit without invoices owes nothing.
FullyPaidOrNone == \A i \in Counted : invoice[i].status = "paid"

FullyPaid == Counted # {} /\ \A i \in Counted : invoice[i].status = "paid"

\* deliver, and transition to completed, ask for the payments before their
\* transaction; deliver accepts a manager's override instead.
ReadDeliver(c) ==
  /\ reading[c] = Free
  /\ ~delivered
  /\ \/ FullyPaid /\ Reads(c, [Read("deliver", 0, Unquoted) EXCEPT !.seen = Counted])
     \/ ~FullyPaid /\ Reads(c, Read("override", 0, Unquoted))

Deliver(c) ==
  /\ reading[c].op \in {"deliver", "override"}
  /\ ~delivered
  /\ delivered' = TRUE
  /\ Finish(c)
  /\ UNCHANGED <<invoice, payment>>

Abandon(c) ==
  /\ reading[c] # Free
  /\ Finish(c)
  /\ UNCHANGED <<invoice, payment, delivered>>

BillingNext ==
  \/ \E i \in Invoice : Issue(i)
  \/ \E c \in Cashier :
       \/ Create(c) \/ ReadDeliver(c) \/ Deliver(c) \/ Abandon(c)
       \/ \E q \in Quote : ReadCreate(c, q)
       \/ \E i \in Invoice : \/ ReadPay(c, i) \/ Pay(c, i)
                             \/ ReadCancel(c, i) \/ Cancel(c, i)

BillingSpec == BillingInit /\ [][BillingNext]_billingVars

-----------------------------------------------------------------------------
\* What was received for invoice i, from the payments themselves.
AmountFor(i, p) == IF payment[p].invoice = i THEN payment[p].amount ELSE 0
Received(i) == SumTo([p \in Payment |-> AmountFor(i, p)], MaxPayments)

\* The invoice's own record of its payments is the sum of their rows, however
\* many payments were taken at the same time.
PaymentsExplainInvoice == \A i \in Invoice : invoice[i].paid = Received(i)

\* An invoice is paid exactly when it was due and everything, and at least
\* something, has come in; it is partial when some of it has. An invoice over
\* nothing is therefore never paid, and holds up delivery without an override.
StatusFollowsMoney ==
  \A i \in Invoice :
    /\ invoice[i].status = "paid" => invoice[i].paid = Total(i) /\ Total(i) > 0
    /\ invoice[i].status = "partial" => 0 < invoice[i].paid /\ invoice[i].paid < Total(i)
    /\ invoice[i].status \notin {"paid", "partial"} => invoice[i].paid = 0

\* Without an override a visit is delivered only if something was invoiced and
\* all invoices the routine found are paid, by then too.
DeliveryWasPaid ==
  [][~delivered /\ delivered' =>
       \E c \in Cashier :
         /\ reading[c] # Free /\ reading'[c] = Free
         /\ \/ reading[c].op = "override"
            \/ /\ reading[c].seen # {}
               /\ \A i \in reading[c].seen : invoice[i].status = "paid"]_billingVars

\* The invoice as an account: what is owed of it, by its payments.
AccountState(i) ==
  CASE invoice[i].status \in {"none", "draft", "cancelled"} -> invoice[i].status
    [] invoice[i].status \in {"issued", "partial", "paid"}  -> "due"

Owed(i) == Total(i) - Received(i)

Ledger == INSTANCE Account WITH Amount <- {Price[q] : q \in Quote},
                               state  <- [i \in Invoice |-> AccountState(i)],
                               amount <- [i \in Invoice |-> Total(i)],
                               owed   <- [i \in Invoice |-> Owed(i)]

\* Every invoice behaves as an account: no money is taken for a cancelled or a
\* draft invoice, none beyond what is owed, and none is lost by a cancellation.
InvoicesAreAccounts == Ledger!Spec
=============================================================================
