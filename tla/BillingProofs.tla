---------------------------- MODULE BillingProofs ----------------------------
(***************************************************************************)
(* Proofs about Billing, for any number of invoices, payments, cashiers:  *)
(* the invoices' records agree with the payments, delivery saw everything  *)
(* paid, and every invoice behaves as the account of module Account.       *)
(***************************************************************************)
EXTENDS Billing, TotalsProofs, TLAPS

\* A row that is there has a quotation, and a row that is not has none.
Drawn == \A i \in Invoice : invoice[i].status = "none" <=> invoice[i].quote = Unquoted

\* What a reading still says when its routine writes: the amount to pay was
\* within what was left, and the invoices a delivery found are paid for good.
ReadingHolds(r) ==
  /\ r.op = "create" => r.quote \in Quote
  /\ r.op = "pay" => /\ r.id \in Invoice
                     /\ invoice[r.id].quote # Unquoted
                     /\ r.status \in {"issued", "partial"}
                     /\ r.amount > 0 /\ r.paid + r.amount <= Total(r.id)
  /\ r.op = "cancel" => r.id \in Invoice /\ r.status \in {"draft", "issued"}
  /\ r.op = "deliver" => /\ r.seen # {}
                         /\ \A i \in r.seen : invoice[i].status = "paid"

ReadingsHold == \A c \in Cashier : ReadingHolds(reading[c])

Inv == /\ BillingTypeOK /\ Drawn /\ PaymentsExplainInvoice /\ StatusFollowsMoney
       /\ ReadingsHold

-----------------------------------------------------------------------------
\* Arithmetic of totals and receipts.
LEMMA TotalType ==
  ASSUME BillingTypeOK, NEW i \in Invoice
  PROVE  Total(i) \in Nat
BY BillingAssumption, UnquotedAssumption DEF Total, BillingTypeOK, InvoiceRow

LEMMA ReceivedType ==
  ASSUME BillingTypeOK, NEW i
  PROVE  /\ [p \in Payment |-> AmountFor(i, p)] \in [1..MaxPayments -> Int]
         /\ Received(i) \in Int
<1>1. [p \in Payment |-> AmountFor(i, p)] \in [1..MaxPayments -> Int]
  BY DEF BillingTypeOK, PaymentRow, AmountFor, Payment
<1> QED
  BY <1>1, SumToType, BillingAssumption DEF Received

LEMMA SameReceived ==
  ASSUME payment' = payment, NEW i
  PROVE  Received(i)' = Received(i)
BY DEF Received, AmountFor

LEMMA NewPayment ==
  ASSUME BillingTypeOK, NEW i \in Invoice, NEW n \in Nat, AddPayment(i, n),
          NEW k \in Invoice
  PROVE  /\ payment' \in [Payment -> PaymentRow]
         /\ Received(k)' = Received(k) + (IF k = i THEN n ELSE 0)
<1>1. PICK p \in Payment :
        /\ payment[p].invoice = 0
        /\ payment' = [payment EXCEPT ![p] = [invoice |-> i, amount |-> n]]
  BY DEF AddPayment
<1>2. payment' \in [Payment -> PaymentRow]
  BY <1>1 DEF BillingTypeOK, PaymentRow
<1> DEFINE x == [o \in Payment |-> AmountFor(k, o)]
           y == [o \in Payment |-> AmountFor(k, o)']
<1>3. x \in [1..MaxPayments -> Int]
  BY ReceivedType
<1>4. y \in [1..MaxPayments -> Int]
  BY <1>2 DEF PaymentRow, AmountFor, Payment
<1>5. \A o \in 1..MaxPayments : o # p => y[o] = x[o]
  BY <1>1 DEF AmountFor, BillingTypeOK, Payment
<1>6. p \in 1..MaxPayments /\ MaxPayments \in Nat
  BY BillingAssumption DEF Payment
<1>7. SumTo(y, MaxPayments) = SumTo(x, MaxPayments) + (y[p] - x[p])
  <2> HIDE DEF x, y
  <2> QED
    BY <1>3, <1>4, <1>5, <1>6, SumToUpdate
<1>8. x[p] = 0
  BY <1>1 DEF AmountFor, Invoice
<1>9. y[p] = IF k = i THEN n ELSE 0
  BY <1>1 DEF AmountFor, BillingTypeOK, PaymentRow
<1>10. SumTo(x, MaxPayments) = Received(k) /\ SumTo(y, MaxPayments) = Received(k)'
  BY DEF Received
<1>11. Received(k) \in Int
  BY ReceivedType
<1> HIDE DEF x, y
<1>12. Received(k)' = Received(k) + (IF k = i THEN n ELSE 0)
  BY <1>7, <1>8, <1>9, <1>10, <1>11
<1> QED
  BY <1>2, <1>12

-----------------------------------------------------------------------------
\* The readings.
LEMMA ReadType ==
  ASSUME NEW op \in {"idle", "create", "pay", "cancel", "deliver", "override"},
         NEW i \in {0} \cup Invoice, NEW q \in Quote \cup {Unquoted}
  PROVE  Read(op, i, q) \in Reading
BY DEF Read, Reading, InvoiceStatus

LEMMA FreeHolds == Free \in Reading /\ ReadingHolds(Free)
<1>1. Free \in Reading
  BY ReadType DEF Free
<1>2. ReadingHolds(Free)
  BY DEF ReadingHolds, Free, Read
<1> QED
  BY <1>1, <1>2

\* An invoice that keeps its quotation, and stays paid once it is, keeps every
\* reading in force.
LEMMA HoldsOn ==
  ASSUME BillingTypeOK, ReadingsHold,
         \A i \in Invoice : /\ invoice[i].quote # Unquoted =>
                                 invoice'[i].quote = invoice[i].quote
                            /\ invoice[i].status = "paid" => invoice'[i].status = "paid",
         NEW c, Finish(c) \/ reading' = reading
  PROVE  ReadingsHold' /\ reading' \in [Cashier -> Reading]
<1>1. reading' \in [Cashier -> Reading]
  BY FreeHolds DEF BillingTypeOK, Finish
<1>2. ASSUME NEW d \in Cashier
      PROVE  ReadingHolds(reading[d])'
  <2>1. CASE reading'[d] = Free
    BY <2>1 DEF ReadingHolds, Free, Read
  <2>2. CASE reading'[d] = reading[d]
    <3> DEFINE r == reading[d]
    <3>0. ReadingHolds(r) /\ r \in Reading
      BY DEF ReadingsHold, BillingTypeOK
    <3>1. r.op = "pay" => Total(r.id)' = Total(r.id) /\ invoice'[r.id].quote # Unquoted
      <4> SUFFICES ASSUME r.op = "pay"
                   PROVE  Total(r.id)' = Total(r.id) /\ invoice'[r.id].quote # Unquoted
        OBVIOUS
      <4>1. r.id \in Invoice /\ invoice[r.id].quote # Unquoted
        BY <3>0 DEF ReadingHolds
      <4>2. invoice'[r.id].quote = invoice[r.id].quote
        BY <4>1
      <4>3. Total(r.id)' = IF invoice'[r.id].quote = Unquoted
                           THEN 0 ELSE Price[invoice'[r.id].quote]
        BY <2>2 DEF Total
      <4> QED
        BY <4>1, <4>2, <4>3 DEF Total
    <3>2. r.op = "deliver" => \A i \in r.seen : invoice'[i].status = "paid"
      BY <3>0 DEF ReadingHolds, Reading
    <3> QED
      BY <2>2, <3>0, <3>1, <3>2 DEF ReadingHolds
  <2> QED
    BY <2>1, <2>2 DEF Finish, BillingTypeOK
<1> QED
  BY <1>1, <1>2 DEF ReadingsHold

\* A new reading.
LEMMA ReadsKeeps ==
  ASSUME Inv, NEW c \in Cashier, NEW r \in Reading, ReadingHolds(r), Reads(c, r)
  PROVE  Inv'
<1>1. invoice' = invoice /\ payment' = payment /\ delivered' = delivered
  BY DEF Reads
<1>2. BillingTypeOK'
  BY <1>1 DEF Inv, BillingTypeOK, Reads
<1>3. ReadingsHold'
  <2> SUFFICES ASSUME NEW d \in Cashier PROVE ReadingHolds(reading[d])'
    BY DEF ReadingsHold
  <2>1. reading'[d] = IF d = c THEN r ELSE reading[d]
    BY DEF Reads, Inv, BillingTypeOK
  <2>2. ReadingHolds(reading[d])
    BY DEF Inv, ReadingsHold
  <2> QED
    BY <1>1, <2>1, <2>2 DEF ReadingHolds, Total
<1>4. (Drawn /\ PaymentsExplainInvoice /\ StatusFollowsMoney)'
  BY <1>1, SameReceived DEF Inv, Drawn, PaymentsExplainInvoice, StatusFollowsMoney, Total
<1> QED
  BY <1>2, <1>3, <1>4 DEF Inv

-----------------------------------------------------------------------------
\* A write to the invoices that takes no payment and changes no balance.
LEMMA RewriteKeeps ==
  ASSUME Inv, payment' = payment, delivered' \in BOOLEAN,
         invoice' \in [Invoice -> InvoiceRow],
         \A i \in Invoice :
           /\ invoice'[i].paid = invoice[i].paid
           /\ invoice'[i].status = "none" <=> invoice'[i].quote = Unquoted
           /\ invoice[i].quote # Unquoted => invoice'[i].quote = invoice[i].quote
           /\ \/ invoice'[i] = invoice[i]
              \/ /\ invoice[i].paid = 0
                 /\ invoice[i].status \notin {"partial", "paid"}
                 /\ invoice'[i].status \notin {"partial", "paid"},
         NEW c, Finish(c) \/ reading' = reading
  PROVE  Inv'
<1>1. ReadingsHold' /\ reading' \in [Cashier -> Reading]
  BY HoldsOn DEF Inv
<1>2. BillingTypeOK'
  BY <1>1 DEF Inv, BillingTypeOK
<1>3. Drawn'
  BY DEF Drawn
<1>4. PaymentsExplainInvoice'
  BY SameReceived DEF Inv, PaymentsExplainInvoice
<1>5. StatusFollowsMoney'
  <2> SUFFICES ASSUME NEW i \in Invoice
               PROVE  /\ invoice'[i].status = "paid" =>
                           invoice'[i].paid = Total(i)' /\ Total(i)' > 0
                      /\ invoice'[i].status = "partial" =>
                           0 < invoice'[i].paid /\ invoice'[i].paid < Total(i)'
                      /\ invoice'[i].status \notin {"paid", "partial"} =>
                           invoice'[i].paid = 0
    BY DEF StatusFollowsMoney
  <2>1. CASE invoice'[i] = invoice[i]
    BY <2>1 DEF Inv, StatusFollowsMoney, Total
  <2>2. CASE invoice'[i] # invoice[i]
    BY <2>2
  <2> QED
    BY <2>1, <2>2
<1> QED
  BY <1>1, <1>2, <1>3, <1>4, <1>5 DEF Inv

\* One step per action.
LEMMA CreateKeeps ==
  ASSUME Inv, NEW c \in Cashier, Create(c)
  PROVE  Inv'
<1>1. PICK i \in Invoice :
        /\ invoice[i].status = "none"
        /\ invoice' = [invoice EXCEPT ![i] = [status |-> "draft",
                                             quote |-> reading[c].quote, paid |-> 0]]
  BY DEF Create
<1>2. reading[c].quote \in Quote
  BY DEF Create, Inv, ReadingsHold, ReadingHolds
<1>3. reading[c].quote # Unquoted
  BY <1>2, UnquotedAssumption
<1>4. invoice' \in [Invoice -> InvoiceRow]
  BY <1>1, <1>2 DEF Inv, BillingTypeOK, InvoiceRow, InvoiceStatus
<1>5. invoice[i].paid = 0 /\ invoice[i].quote = Unquoted
  BY <1>1 DEF Inv, StatusFollowsMoney, Drawn
<1>6. \A k \in Invoice : invoice'[k] = IF k = i THEN [status |-> "draft",
                                        quote |-> reading[c].quote, paid |-> 0]
                                                ELSE invoice[k]
  BY <1>1 DEF Inv, BillingTypeOK
<1>7. payment' = payment /\ delivered' \in BOOLEAN /\ Finish(c)
  BY DEF Create, Inv, BillingTypeOK
<1>8. \A k \in Invoice :
        /\ invoice'[k].paid = invoice[k].paid
        /\ invoice'[k].status = "none" <=> invoice'[k].quote = Unquoted
        /\ invoice[k].quote # Unquoted => invoice'[k].quote = invoice[k].quote
        /\ \/ invoice'[k] = invoice[k]
           \/ /\ invoice[k].paid = 0
              /\ invoice[k].status \notin {"partial", "paid"}
              /\ invoice'[k].status \notin {"partial", "paid"}
  BY <1>1, <1>3, <1>5, <1>6 DEF Inv, Drawn
<1> QED
  BY <1>4, <1>7, <1>8, RewriteKeeps

\* Issue and Cancel move an invoice nothing was received for.
LEMMA MoveKeeps ==
  ASSUME Inv, NEW i \in Invoice, NEW st \in {"issued", "cancelled"},
         invoice[i].status \in {"draft", "issued"},
         invoice' = [invoice EXCEPT ![i].status = st],
         payment' = payment, delivered' = delivered,
         NEW c, Finish(c) \/ reading' = reading
  PROVE  Inv'
<1>1. invoice' \in [Invoice -> InvoiceRow]
  BY DEF Inv, BillingTypeOK, InvoiceRow, InvoiceStatus
<1>2. \A k \in Invoice : /\ invoice'[k].paid = invoice[k].paid
                         /\ invoice'[k].quote = invoice[k].quote
                         /\ k # i => invoice'[k] = invoice[k]
  BY DEF Inv, BillingTypeOK, InvoiceRow
<1>3. invoice'[i].status = st /\ st # "none" /\ invoice[i].status # "none"
  BY DEF Inv, BillingTypeOK, InvoiceRow
<1>4. invoice[i].paid = 0
  BY DEF Inv, StatusFollowsMoney
<1>5. \A k \in Invoice :
        /\ invoice'[k].paid = invoice[k].paid
        /\ invoice'[k].status = "none" <=> invoice'[k].quote = Unquoted
        /\ invoice[k].quote # Unquoted => invoice'[k].quote = invoice[k].quote
        /\ \/ invoice'[k] = invoice[k]
           \/ /\ invoice[k].paid = 0
              /\ invoice[k].status \notin {"partial", "paid"}
              /\ invoice'[k].status \notin {"partial", "paid"}
  BY <1>2, <1>3, <1>4 DEF Inv, Drawn
<1>6. delivered' \in BOOLEAN
  BY DEF Inv, BillingTypeOK
<1> QED
  BY <1>1, <1>5, <1>6, RewriteKeeps

\* A payment, with what was read of the invoice unchanged.
LEMMA PayFacts ==
  ASSUME Inv, NEW c \in Cashier, NEW i \in Invoice, Pay(c, i)
  PROVE  /\ invoice[i].quote # Unquoted /\ invoice[i].status \in {"issued", "partial"}
         /\ reading[c].amount \in Nat /\ reading[c].amount > 0
         /\ invoice[i].paid + reading[c].amount <= Total(i)
         /\ invoice'[i].quote = invoice[i].quote
         /\ invoice'[i].paid = invoice[i].paid + reading[c].amount
         /\ invoice'[i].status = IF invoice'[i].paid >= Total(i) THEN "paid" ELSE "partial"
         /\ \A k \in Invoice : k # i => invoice'[k] = invoice[k]
         /\ invoice' \in [Invoice -> InvoiceRow]
<1> DEFINE r == reading[c]
           st == IF r.paid + r.amount >= Total(i) THEN "paid" ELSE "partial"
<1>1. ReadingHolds(r) /\ r \in Reading /\ r.op = "pay" /\ r.id = i
  BY DEF Inv, ReadingsHold, BillingTypeOK, Pay
<1>2. /\ invoice[i].quote # Unquoted /\ r.status \in {"issued", "partial"}
      /\ r.amount > 0 /\ r.paid + r.amount <= Total(i)
  BY <1>1 DEF ReadingHolds
<1>3. r.amount \in Nat /\ r.paid \in Nat
  BY <1>1 DEF Reading
<1>4. invoice[i].status = r.status /\ invoice[i].paid = r.paid
  BY DEF Pay
<1>5. invoice' = [invoice EXCEPT ![i].paid = r.paid + r.amount, ![i].status = st]
  BY DEF Pay, Collected
<1>6. st \in InvoiceStatus /\ r.paid + r.amount \in Nat
  BY <1>3 DEF InvoiceStatus
<1>7. invoice' \in [Invoice -> InvoiceRow]
  <2> HIDE DEF st
  <2> QED
    BY <1>5, <1>6 DEF Inv, BillingTypeOK, InvoiceRow
<1>8. /\ invoice'[i].quote = invoice[i].quote /\ invoice'[i].paid = r.paid + r.amount
      /\ invoice'[i].status = st
      /\ \A k \in Invoice : k # i => invoice'[k] = invoice[k]
  <2> HIDE DEF st
  <2> QED
    BY <1>5, <1>6 DEF Inv, BillingTypeOK, InvoiceRow
<1> QED
  BY <1>2, <1>3, <1>4, <1>7, <1>8

LEMMA PayKeeps ==
  ASSUME Inv, NEW c \in Cashier, NEW i \in Invoice, Pay(c, i)
  PROVE  Inv'
<1> DEFINE n == reading[c].amount
<1>1. /\ AddPayment(i, n) /\ Finish(c) /\ delivered' = delivered
  BY DEF Pay
<1>2. /\ n \in Nat /\ n > 0 /\ invoice[i].paid + n <= Total(i)
      /\ invoice[i].status \in {"issued", "partial"} /\ invoice[i].quote # Unquoted
      /\ invoice'[i].quote = invoice[i].quote /\ invoice'[i].paid = invoice[i].paid + n
      /\ invoice'[i].status = IF invoice'[i].paid >= Total(i) THEN "paid" ELSE "partial"
      /\ \A k \in Invoice : k # i => invoice'[k] = invoice[k]
      /\ invoice' \in [Invoice -> InvoiceRow]
  BY PayFacts
<1>3. \A k \in Invoice : Received(k)' = Received(k) + (IF k = i THEN n ELSE 0)
  BY <1>1, <1>2, NewPayment DEF Inv
<1>4. payment' \in [Payment -> PaymentRow]
  BY <1>1, <1>2, NewPayment DEF Inv
<1>5. ReadingsHold' /\ reading' \in [Cashier -> Reading]
  BY <1>1, <1>2, HoldsOn DEF Inv
<1>6. BillingTypeOK'
  BY <1>1, <1>2, <1>4, <1>5 DEF Inv, BillingTypeOK
<1>7. Drawn'
  <2> SUFFICES ASSUME NEW k \in Invoice
               PROVE  invoice'[k].status = "none" <=> invoice'[k].quote = Unquoted
    BY DEF Drawn
  <2>1. CASE k = i
    BY <1>2, <2>1
  <2>2. CASE k # i
    BY <1>2, <2>2 DEF Inv, Drawn
  <2> QED
    BY <2>1, <2>2
<1>8. PaymentsExplainInvoice'
  <2> SUFFICES ASSUME NEW k \in Invoice PROVE invoice'[k].paid = Received(k)'
    BY DEF PaymentsExplainInvoice
  <2>1. Received(k) \in Int /\ invoice[k].paid = Received(k)
    BY ReceivedType DEF Inv, PaymentsExplainInvoice
  <2>2. Received(k)' = Received(k) + (IF k = i THEN n ELSE 0)
    BY <1>3
  <2> HIDE DEF n
  <2>3. CASE k = i
    BY <1>2, <2>1, <2>2, <2>3
  <2>4. CASE k # i
    BY <1>2, <2>1, <2>2, <2>4
  <2> QED
    BY <2>3, <2>4
<1>9. StatusFollowsMoney'
  <2> SUFFICES ASSUME NEW k \in Invoice
               PROVE  /\ invoice'[k].status = "paid" =>
                           invoice'[k].paid = Total(k)' /\ Total(k)' > 0
                      /\ invoice'[k].status = "partial" =>
                           0 < invoice'[k].paid /\ invoice'[k].paid < Total(k)'
                      /\ invoice'[k].status \notin {"paid", "partial"} =>
                           invoice'[k].paid = 0
    BY DEF StatusFollowsMoney
  <2>1. Total(k)' = Total(k)
    BY <1>2 DEF Total
  <2>2. CASE k = i
    <3>1. Total(i) \in Nat /\ invoice[i].paid \in Nat
      BY TotalType DEF Inv, BillingTypeOK, InvoiceRow
    <3> HIDE DEF n
    <3> QED
      BY <1>2, <2>1, <2>2, <3>1
  <2>3. CASE k # i
    BY <1>2, <2>1, <2>3 DEF Inv, StatusFollowsMoney
  <2> QED
    BY <2>2, <2>3
<1> QED
  BY <1>5, <1>6, <1>7, <1>8, <1>9 DEF Inv

\* The readings the routines make are true when they are made.
LEMMA ReadingsAreTrue ==
  ASSUME Inv, NEW c \in Cashier
  PROVE  /\ \A q \in Quote : ReadCreate(c, q) => Inv'
         /\ \A i \in Invoice : ReadPay(c, i) \/ ReadCancel(c, i) => Inv'
         /\ ReadDeliver(c) => Inv'
<1>1. ASSUME NEW q \in Quote, ReadCreate(c, q) PROVE Inv'
  <2> DEFINE r == Read("create", 0, q)
  <2>1. r \in Reading
    BY ReadType
  <2>2. ReadingHolds(r)
    BY DEF Read, ReadingHolds
  <2> QED
    BY <1>1, <2>1, <2>2, ReadsKeeps DEF ReadCreate
<1>2. ASSUME NEW i \in Invoice, ReadPay(c, i) PROVE Inv'
  <2>1. PICK n \in 1..(Total(i) - invoice[i].paid) :
          Reads(c, [Read("pay", i, Unquoted) EXCEPT !.status = invoice[i].status,
                                                   !.paid = invoice[i].paid, !.amount = n])
    BY <1>2 DEF ReadPay
  <2> DEFINE r == [Read("pay", i, Unquoted) EXCEPT !.status = invoice[i].status,
                                                  !.paid = invoice[i].paid, !.amount = n]
  <2>2. /\ invoice[i].paid \in Nat /\ invoice[i].status \in InvoiceStatus
        /\ invoice[i].status \in {"issued", "partial"} /\ Total(i) \in Nat
    BY <1>2, TotalType DEF Inv, BillingTypeOK, InvoiceRow, ReadPay
  <2>3. n \in Nat /\ n > 0 /\ invoice[i].paid + n <= Total(i)
    BY <2>2
  <2>4. invoice[i].quote # Unquoted
    BY <2>2 DEF Inv, Drawn
  <2>5. r \in Reading
    BY <2>2, <2>3 DEF Read, Reading, InvoiceStatus
  <2>6. ReadingHolds(r)
    BY <2>2, <2>3, <2>4 DEF ReadingHolds, Read
  <2> QED
    BY <2>1, <2>5, <2>6, ReadsKeeps
<1>3. ASSUME NEW i \in Invoice, ReadCancel(c, i) PROVE Inv'
  <2> DEFINE r == [Read("cancel", i, Unquoted) EXCEPT !.status = invoice[i].status]
  <2>1. r \in Reading
    BY DEF Read, Reading, InvoiceStatus, Inv, BillingTypeOK, InvoiceRow
  <2>2. ReadingHolds(r)
    BY <1>3 DEF ReadingHolds, Read, ReadCancel
  <2> QED
    BY <1>3, <2>1, <2>2, ReadsKeeps DEF ReadCancel
<1>4. ASSUME ReadDeliver(c) PROVE Inv'
  <2>1. CASE FullyPaid /\ Reads(c, [Read("deliver", 0, Unquoted) EXCEPT !.seen = Counted])
    <3> DEFINE r == [Read("deliver", 0, Unquoted) EXCEPT !.seen = Counted]
    <3>1. r \in Reading
      BY DEF Read, Reading, InvoiceStatus, Counted
    <3>2. ReadingHolds(r)
      BY <2>1 DEF ReadingHolds, Read, FullyPaid
    <3> QED
      BY <2>1, <3>1, <3>2, ReadsKeeps
  <2>2. CASE Reads(c, Read("override", 0, Unquoted))
    <3> DEFINE r == Read("override", 0, Unquoted)
    <3>1. r \in Reading
      BY ReadType
    <3>2. ReadingHolds(r)
      BY DEF ReadingHolds, Read
    <3> QED
      BY <2>2, <3>1, <3>2, ReadsKeeps
  <2> QED
    BY <1>4, <2>1, <2>2 DEF ReadDeliver
<1> QED
  BY <1>1, <1>2, <1>3, <1>4

LEMMA QuietKeeps ==
  ASSUME Inv, NEW c \in Cashier, invoice' = invoice, payment' = payment,
         delivered' \in BOOLEAN, Finish(c)
  PROVE  Inv'
BY RewriteKeeps DEF Inv, BillingTypeOK, Drawn

LEMMA IssueKeeps ==
  ASSUME Inv, NEW i \in Invoice, Issue(i)
  PROVE  Inv'
BY MoveKeeps DEF Issue

LEMMA StepKeeps ==
  ASSUME Inv, [BillingNext]_billingVars
  PROVE  Inv'
<1>1. ASSUME NEW i \in Invoice, Issue(i) PROVE Inv'
  BY <1>1, IssueKeeps
<1>2. ASSUME NEW c \in Cashier, Create(c) \/ ReadDeliver(c) \/ Deliver(c) \/ Abandon(c)
      PROVE  Inv'
  <2>1. CASE Create(c)
    BY <2>1, CreateKeeps
  <2>2. CASE ReadDeliver(c)
    BY <2>2, ReadingsAreTrue
  <2>3. CASE Deliver(c)
    BY <2>3, QuietKeeps DEF Deliver
  <2>4. CASE Abandon(c)
    BY <2>4, QuietKeeps DEF Abandon, Inv, BillingTypeOK
  <2> QED
    BY <1>2, <2>1, <2>2, <2>3, <2>4
<1>3. ASSUME NEW c \in Cashier, NEW q \in Quote, ReadCreate(c, q) PROVE Inv'
  BY <1>3, ReadingsAreTrue
<1>4. ASSUME NEW c \in Cashier, NEW i \in Invoice,
             \/ ReadPay(c, i) \/ Pay(c, i)
             \/ ReadCancel(c, i) \/ Cancel(c, i)
      PROVE  Inv'
  <2>1. CASE Pay(c, i)
    BY <2>1, PayKeeps
  <2>2. CASE Cancel(c, i)
    <3>1. invoice[i].status \in {"draft", "issued"}
      BY <2>2 DEF Cancel, Inv, ReadingsHold, ReadingHolds
    <3> QED
      BY <2>2, <3>1, MoveKeeps DEF Cancel
  <2> QED
    BY <1>4, <2>1, <2>2, ReadingsAreTrue
<1>5. CASE UNCHANGED billingVars
  <2>1. (Drawn /\ BillingTypeOK)'
    BY <1>5 DEF billingVars, Inv, BillingTypeOK, Drawn
  <2>2. PaymentsExplainInvoice'
    BY <1>5, SameReceived DEF billingVars, Inv, PaymentsExplainInvoice
  <2>3. (StatusFollowsMoney /\ ReadingsHold)'
    BY <1>5 DEF billingVars, Inv, StatusFollowsMoney, ReadingsHold, ReadingHolds, Total
  <2> QED
    BY <2>1, <2>2, <2>3 DEF Inv
<1> QED
  BY <1>1, <1>2, <1>3, <1>4, <1>5 DEF BillingNext

LEMMA InitHolds == BillingInit => Inv
<1> SUFFICES ASSUME BillingInit PROVE Inv
  OBVIOUS
<1>1. BillingTypeOK
  BY FreeHolds DEF BillingInit, BillingTypeOK, InvoiceRow, PaymentRow, InvoiceStatus
<1>2. ReadingsHold
  BY FreeHolds DEF BillingInit, ReadingsHold
<1>3. \A i \in Invoice : Received(i) = 0
  <2> TAKE i \in Invoice
  <2> DEFINE x == [p \in Payment |-> AmountFor(i, p)]
  <2>1. \A p \in 1..MaxPayments : x[p] = 0
    BY DEF BillingInit, AmountFor, Payment, Invoice
  <2>2. SumTo(x, MaxPayments) = 0
    <3> HIDE DEF x
    <3> QED
      BY <2>1, SumToZero, BillingAssumption
  <2> QED
    BY <2>2 DEF Received
<1>4. Drawn /\ StatusFollowsMoney /\ PaymentsExplainInvoice
  BY <1>3 DEF BillingInit, Drawn, StatusFollowsMoney, PaymentsExplainInvoice
<1> QED
  BY <1>1, <1>2, <1>4 DEF Inv

LEMMA Invariance == BillingSpec => []Inv
BY InitHolds, StepKeeps, PTL DEF BillingSpec

\* Every state's values are in their types: the statuses of invoices.service,
\* balances that are naturals, and readings of rows.
THEOREM TypeCorrect == BillingSpec => []BillingTypeOK
<1>1. Inv => BillingTypeOK
  BY DEF Inv
<1> QED
  BY <1>1, Invariance, PTL

\* The amountPaid that pay writes is the sum of the invoice's payment rows,
\* whatever payments, cancellations and deliveries overlap.
THEOREM PaymentsAreRecorded == BillingSpec => []PaymentsExplainInvoice
<1>1. Inv => PaymentsExplainInvoice
  BY DEF Inv
<1> QED
  BY <1>1, Invariance, PTL

\* An invoice's status says how much of it came in: none, some, or all.
THEOREM StatusIsEarned == BillingSpec => []StatusFollowsMoney
<1>1. Inv => StatusFollowsMoney
  BY DEF Inv
<1> QED
  BY <1>1, Invariance, PTL

\* A delivery without override found invoices, and they are paid when it is
\* written: no payment is ever undone in between.
THEOREM DeliveriesArePaid == BillingSpec => DeliveryWasPaid
<1>1. ASSUME Inv, [BillingNext]_billingVars, ~delivered, delivered'
      PROVE  \E c \in Cashier :
               /\ reading[c] # Free /\ reading'[c] = Free
               /\ \/ reading[c].op = "override"
                  \/ /\ reading[c].seen # {}
                     /\ \A i \in reading[c].seen : invoice[i].status = "paid"
  <2>1. PICK c \in Cashier : Deliver(c)
    BY <1>1 DEF BillingNext, billingVars, Issue, Create, ReadDeliver, Abandon, ReadCreate, ReadPay, Pay,
                ReadCancel, Cancel, Reads
  <2>2. reading'[c] = Free
    BY <2>1, <1>1 DEF Deliver, Finish, Inv, BillingTypeOK
  <2>3. reading[c] # Free
    BY <2>1 DEF Deliver, Free, Read
  <2>4. ReadingHolds(reading[c])
    BY <1>1 DEF Inv, ReadingsHold
  <2> QED
    BY <2>1, <2>2, <2>3, <2>4 DEF Deliver, ReadingHolds
<1>2. Inv /\ [BillingNext]_billingVars =>
        [~delivered /\ delivered' =>
           \E c \in Cashier :
             /\ reading[c] # Free /\ reading'[c] = Free
             /\ \/ reading[c].op = "override"
                \/ /\ reading[c].seen # {}
                   /\ \A i \in reading[c].seen : invoice[i].status = "paid"]_billingVars
  BY <1>1
<1> QED
  BY <1>2, Invariance, PTL DEF BillingSpec, DeliveryWasPaid

-----------------------------------------------------------------------------
\* The refinement: each write of Billing is one of Account's steps on one
\* account, everything else leaves the accounts alone.
states  == [i \in Invoice |-> AccountState(i)]
amounts == [i \in Invoice |-> Total(i)]
owing   == [i \in Invoice |-> Owed(i)]

SameAccount(k) ==
  AccountState(k)' = AccountState(k) /\ Total(k)' = Total(k) /\ Owed(k)' = Owed(k)

LEMMA UntouchedAccount ==
  ASSUME NEW k \in Invoice, invoice'[k] = invoice[k], Received(k)' = Received(k)
  PROVE  SameAccount(k)
BY DEF SameAccount, AccountState, Total, Owed

\* One account changes, to what is said of it.
LEMMA OneAccount ==
  ASSUME NEW i \in Invoice, \A k \in Invoice : k # i => SameAccount(k)
  PROVE  /\ states' = [states EXCEPT ![i] = AccountState(i)']
         /\ amounts' = [amounts EXCEPT ![i] = Total(i)']
         /\ owing' = [owing EXCEPT ![i] = Owed(i)']
BY DEF SameAccount, states, amounts, owing

\* A change of the account's state alone.
LEMMA OneState ==
  ASSUME NEW i \in Invoice, \A k \in Invoice : k # i => SameAccount(k),
         Total(i)' = Total(i), Owed(i)' = Owed(i)
  PROVE  /\ states' = [states EXCEPT ![i] = AccountState(i)']
         /\ amounts' = amounts /\ owing' = owing
<1>1. \A k \in Invoice : Total(k)' = Total(k) /\ Owed(k)' = Owed(k)
  BY DEF SameAccount
<1> QED
  BY <1>1, OneAccount DEF amounts, owing

LEMMA CreateDraws ==
  ASSUME Inv, Inv', NEW c \in Cashier, Create(c)
  PROVE  \E i \in Invoice : Ledger!Draw(i)
<1>1. PICK i \in Invoice :
        /\ invoice[i].status = "none"
        /\ invoice' = [invoice EXCEPT ![i] = [status |-> "draft",
                                             quote |-> reading[c].quote, paid |-> 0]]
  BY DEF Create
<1> DEFINE q == reading[c].quote
<1>2. q \in Quote /\ q # Unquoted
  BY UnquotedAssumption DEF Create, Inv, ReadingsHold, ReadingHolds
<1>3. /\ invoice'[i].status = "draft" /\ invoice'[i].quote = q
      /\ \A k \in Invoice : k # i => invoice'[k] = invoice[k]
  BY <1>1 DEF Inv, BillingTypeOK
<1>4. \A k \in Invoice : Received(k)' = Received(k)
  BY SameReceived DEF Create
<1>5. Received(i)' = 0
  BY <1>1, <1>4 DEF Inv, PaymentsExplainInvoice, StatusFollowsMoney
<1>6. Total(i)' = Price[q] /\ Price[q] \in Nat
  BY <1>2, <1>3, BillingAssumption DEF Total
<1>7. AccountState(i)' = "draft" /\ Owed(i)' = Price[q]
  BY <1>3, <1>5, <1>6 DEF AccountState, Owed
<1>8. /\ states' = [states EXCEPT ![i] = "draft"]
      /\ amounts' = [amounts EXCEPT ![i] = Price[q]]
      /\ owing' = [owing EXCEPT ![i] = Price[q]]
  BY <1>3, <1>4, <1>6, <1>7, UntouchedAccount, OneAccount
<1>9. states[i] = "none"
  BY <1>1 DEF states, AccountState
<1>10. Price[q] \in {Price[o] : o \in Quote}
  BY <1>2
<1> QED
  BY <1>8, <1>9, <1>10 DEF Ledger!Draw, states, amounts, owing

\* Issue and Cancel: nothing was received.
LEMMA MoveMoves ==
  ASSUME Inv, NEW i \in Invoice, NEW st \in {"issued", "cancelled"},
         invoice[i].status \in {"draft", "issued"},
         st = "issued" => invoice[i].status = "draft",
         invoice' = [invoice EXCEPT ![i].status = st], payment' = payment
  PROVE  Ledger!Issue(i) \/ Ledger!Cancel(i)
<1>1. /\ invoice'[i].status = st /\ invoice'[i].quote = invoice[i].quote
      /\ \A k \in Invoice : k # i => invoice'[k] = invoice[k]
  BY DEF Inv, BillingTypeOK, InvoiceRow
<1>2. \A k \in Invoice : Received(k)' = Received(k)
  BY SameReceived
<1>3. Received(i) = 0 /\ Total(i) \in Nat
  BY TotalType DEF Inv, PaymentsExplainInvoice, StatusFollowsMoney
<1>4. Total(i)' = Total(i) /\ Owed(i)' = Owed(i)
  BY <1>1, <1>2 DEF Total, Owed
<1> DEFINE to == IF st = "issued" THEN "due" ELSE "cancelled"
<1>5. AccountState(i)' = to
  BY <1>1 DEF AccountState
<1>6. /\ states' = [states EXCEPT ![i] = to]
      /\ amounts' = amounts /\ owing' = owing
  BY <1>1, <1>2, <1>4, <1>5, UntouchedAccount, OneState
<1>7. /\ states[i] = IF invoice[i].status = "draft" THEN "draft" ELSE "due"
      /\ owing[i] = amounts[i]
  BY <1>3 DEF states, amounts, owing, Owed, AccountState
<1>8. CASE st = "issued"
  BY <1>6, <1>7, <1>8 DEF Ledger!Issue, states, amounts, owing
<1>9. CASE st = "cancelled"
  BY <1>6, <1>7, <1>9 DEF Ledger!Cancel, states, amounts, owing
<1> QED
  BY <1>8, <1>9

LEMMA PayReceives ==
  ASSUME Inv, NEW c \in Cashier, NEW i \in Invoice, Pay(c, i)
  PROVE  Ledger!Receive(i)
<1> DEFINE n == reading[c].amount
           left == Total(i) - (Received(i) + n)
<1>1. /\ n \in Nat /\ n > 0 /\ invoice[i].paid + n <= Total(i)
      /\ invoice[i].status \in {"issued", "partial"}
      /\ invoice'[i].quote = invoice[i].quote
      /\ invoice'[i].status \in {"partial", "paid"}
      /\ \A k \in Invoice : k # i => invoice'[k] = invoice[k]
  BY PayFacts
<1>2. \A k \in Invoice : Received(k)' = Received(k) + (IF k = i THEN n ELSE 0)
  BY <1>1, NewPayment DEF Inv, Pay
<1>3. Received(i) = invoice[i].paid /\ Total(i) \in Nat /\ invoice[i].paid \in Nat
  BY TotalType DEF Inv, PaymentsExplainInvoice, BillingTypeOK, InvoiceRow
<1>4. Total(i)' = Total(i)
  BY <1>1 DEF Total
<1>5. \A k \in Invoice : Received(k) \in Int
  BY ReceivedType DEF Inv
<1>6. AccountState(i)' = AccountState(i) /\ Owed(i)' = left
  BY <1>1, <1>2, <1>4 DEF AccountState, Owed
<1>7. \A k \in Invoice : k # i => SameAccount(k)
  BY <1>1, <1>2, <1>5, UntouchedAccount
<1>8. /\ states' = states /\ amounts' = amounts
      /\ owing' = [owing EXCEPT ![i] = left]
  <2>1. \A k \in Invoice : AccountState(k)' = AccountState(k) /\ Total(k)' = Total(k)
    BY <1>4, <1>6, <1>7 DEF SameAccount
  <2>2. states' = states /\ amounts' = amounts
    BY <2>1 DEF states, amounts
  <2> QED
    BY <1>6, <1>7, <2>2, OneAccount
<1>9. states[i] = "due" /\ owing[i] = Total(i) - Received(i)
  BY <1>1 DEF states, owing, Owed, AccountState
<1>10. left \in 0..owing[i] /\ left # owing[i]
  <2> HIDE DEF n
  <2> QED
    BY <1>1, <1>3, <1>9
<1> QED
  BY <1>8, <1>9, <1>10 DEF Ledger!Receive, states, amounts, owing

LEMMA StepRefines ==
  ASSUME Inv, Inv', [BillingNext]_billingVars
  PROVE  [Ledger!Next]_(Ledger!vars)
<1>1. ASSUME NEW i \in Invoice, Issue(i) PROVE Ledger!Next
  BY <1>1, MoveMoves DEF Issue, Ledger!Next
<1>2. ASSUME NEW c \in Cashier, Create(c) PROVE Ledger!Next
  BY <1>2, CreateDraws DEF Ledger!Next
<1>3. ASSUME NEW c \in Cashier, NEW i \in Invoice, Pay(c, i) PROVE Ledger!Next
  BY <1>3, PayReceives DEF Ledger!Next
<1>4. ASSUME NEW c \in Cashier, NEW i \in Invoice, Cancel(c, i) PROVE Ledger!Next
  <2>1. invoice[i].status \in {"draft", "issued"}
    BY <1>4 DEF Cancel, Inv, ReadingsHold, ReadingHolds
  <2>2. Ledger!Issue(i) \/ Ledger!Cancel(i)
    BY <1>4, <2>1, MoveMoves DEF Cancel
  <2> QED
    BY <2>2 DEF Ledger!Next
<1>5. ASSUME invoice' = invoice, payment' = payment PROVE UNCHANGED Ledger!vars
  <2>1. \A k \in Invoice : SameAccount(k)
    BY <1>5, SameReceived, UntouchedAccount
  <2>2. states' = states /\ amounts' = amounts /\ owing' = owing
    BY <2>1 DEF SameAccount, states, amounts, owing
  <2> QED
    BY <2>2 DEF Ledger!vars, states, amounts, owing
<1>6. ASSUME NEW c \in Cashier,
             \/ ReadDeliver(c) \/ Deliver(c) \/ Abandon(c)
             \/ \E q \in Quote : ReadCreate(c, q)
             \/ \E i \in Invoice : ReadPay(c, i) \/ ReadCancel(c, i)
      PROVE  UNCHANGED Ledger!vars
  <2>1. invoice' = invoice /\ payment' = payment
    BY <1>6 DEF ReadDeliver, Deliver, Abandon, ReadCreate, ReadPay, ReadCancel, Reads
  <2> QED
    BY <1>5, <2>1
<1>7. CASE UNCHANGED billingVars
  BY <1>5, <1>7 DEF billingVars
<1> QED
  BY <1>1, <1>2, <1>3, <1>4, <1>6, <1>7 DEF BillingNext

\* Billing implements Account: an invoice, as its status and its payments show
\* it, is drawn up once, takes money only while due and never beyond what is
\* owed, and is cancelled only before anything came in.
THEOREM BillingImplementsAccount == BillingSpec => InvoicesAreAccounts
<1>1. BillingInit => Ledger!Init
  <2> SUFFICES ASSUME BillingInit PROVE Ledger!Init
    OBVIOUS
  <2>1. Inv
    BY InitHolds
  <2>2. \A i \in Invoice : Received(i) = 0 /\ Total(i) = 0 /\ AccountState(i) = "none"
    BY <2>1 DEF BillingInit, Inv, PaymentsExplainInvoice, Total, AccountState
  <2> QED
    BY <2>2 DEF Ledger!Init, Owed
<1>2. Inv /\ Inv' /\ [BillingNext]_billingVars => [Ledger!Next]_(Ledger!vars)
  BY StepRefines
<1> QED
  BY <1>1, <1>2, Invariance, PTL DEF BillingSpec, InvoicesAreAccounts, Ledger!Spec
=============================================================================
