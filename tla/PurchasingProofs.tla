--------------------------- MODULE PurchasingProofs ---------------------------
(***************************************************************************)
(* Goods are shelved once and orders are received when they have arrived,  *)
(* for any parts, clerks and tables. Inv says what a clerk's readings are  *)
(* still worth when they are written: a quantity read is no more than has  *)
(* arrived since, a draft that is being committed is nobody else's.        *)
(***************************************************************************)
EXTENDS Purchasing, TotalsProofs, SequenceTheorems

\* Lines are sequences.
LEMMA LinesSeq ==
  ASSUME NEW lines \in Lines
  PROVE  /\ Len(lines) \in Nat /\ lines \in [1..Len(lines) -> Line]
         /\ DOMAIN lines = 1..Len(lines)
<1>1. PICK n \in 0..MaxLines : lines \in [1..n -> Line]
  BY DEF Lines
<1>2. n \in Nat /\ lines \in Seq(Line)
  BY <1>1, PurchasingAssumption, SMT
<1> QED
  BY <1>2, LenProperties

\* The quantity of a part in some lines.
LEMMA QtyOfLines ==
  ASSUME NEW lines \in Lines, NEW p
  PROVE  /\ QtyOf(lines, p) \in Nat
         /\ p \notin PartsOf(lines) => QtyOf(lines, p) = 0
         /\ \A i \in DOMAIN lines : lines[i].part = p => lines[i].qty <= QtyOf(lines, p)
<1> DEFINE n == Len(lines)
           x == [i \in 1..n |-> IF lines[i].part = p THEN lines[i].qty ELSE 0]
<1>1. n \in Nat /\ lines \in [1..n -> Line] /\ DOMAIN lines = 1..n
  BY LinesSeq
<1>2. \A i \in 1..n : lines[i].qty \in Nat
  BY <1>1, PurchasingAssumption DEF Line
<1>3. QtyOf(lines, p) = SumTo(x, n)
  BY DEF QtyOf
<1>4. x \in [1..n -> Nat]
  BY <1>2
<1>5. \A i \in 1..n : lines[i].part = p => x[i] = lines[i].qty
  OBVIOUS
<1>6. p \notin PartsOf(lines) => \A i \in 1..n : x[i] = 0
  BY <1>1 DEF PartsOf
<1> HIDE DEF x, n
<1>7. SumTo(x, n) \in Nat /\ \A j \in 1..n : x[j] <= SumTo(x, n)
  BY <1>1, <1>4, SumToAtLeast
<1>8. p \notin PartsOf(lines) => SumTo(x, n) = 0
  BY <1>1, <1>6, SumToZero
<1> QED
  BY <1>1, <1>3, <1>5, <1>7, <1>8

\* The last line of a part brings no more than all its lines.
LEMMA LastQtyOfLines ==
  ASSUME NEW lines \in Lines, NEW p \in PartsOf(lines)
  PROVE  LastQty(lines, p) \in Nat /\ LastQty(lines, p) <= QtyOf(lines, p)
<1> DEFINE n == Len(lines)
           Last(i) == /\ lines[i].part = p
                      /\ \A j \in DOMAIN lines : lines[j].part = p => j <= i
           J == {j \in 1..n : lines[j].part = p}
           T == {n - j : j \in J}
<1>1. n \in Nat /\ lines \in [1..n -> Line] /\ DOMAIN lines = 1..n
  BY LinesSeq
<1>2. J # {}
  BY <1>1 DEF PartsOf
<1>3. \A j \in J : j \in 1..n /\ lines[j].part = p /\ n - j \in Nat
  BY <1>1
<1>4. PICK m \in T : \A k \in T : m <= k
  <2>1. T \in SUBSET Nat /\ T # {}
    <3> HIDE DEF J
    <3> QED
      BY <1>2, <1>3
  <2> QED
    BY <2>1, LeastNat
<1>5. PICK i \in J : m = n - i
  BY <1>4
<1>6. \A j \in J : j <= i
  <2> TAKE j \in J
  <2>1. n - i <= n - j
    BY <1>4, <1>5
  <2>2. i \in Nat /\ j \in Nat
    BY <1>3
  <2> QED
    BY <1>1, <2>1, <2>2
<1>7. \E k \in DOMAIN lines : Last(k)
  <2>1. i \in DOMAIN lines /\ Last(i)
    BY <1>1, <1>6
  <2> QED
    BY <2>1
<1> DEFINE l == CHOOSE k \in DOMAIN lines : Last(k)
<1>8. l \in DOMAIN lines /\ lines[l].part = p
  BY <1>7
<1>9. LastQty(lines, p) = lines[l].qty
  BY DEF LastQty
<1> HIDE DEF l
<1>10. lines[l].qty \in Nat
  BY <1>1, <1>8, PurchasingAssumption DEF Line
<1> QED
  BY <1>8, <1>9, <1>10, QtyOfLines

-----------------------------------------------------------------------------
\* What has arrived is a natural.
LEMMA ArrivedType ==
  ASSUME TypeOK, NEW o \in Order, NEW p \in Part
  PROVE  /\ [g \in Receipt |-> ReceiptQty(g, o, p)] \in [1..MaxReceipts -> Nat]
         /\ Arrived(o, p) \in Nat
<1> USE PurchasingAssumption
<1>1. \A g \in Receipt : ReceiptQty(g, o, p) \in Nat
  BY QtyOfLines DEF ReceiptQty, TypeOK
<1>2. [g \in Receipt |-> ReceiptQty(g, o, p)] \in [1..MaxReceipts -> Nat]
  BY <1>1 DEF Receipt
<1> QED
  BY <1>2, SumToAtLeast DEF Arrived

\* Receipts that count as before leave what has arrived.
LEMMA ArrivedSame ==
  ASSUME \A g \in Receipt, o \in Order, p \in Part : ReceiptQty(g, o, p)' = ReceiptQty(g, o, p)
  PROVE  \A o \in Order, p \in Part : Arrived(o, p)' = Arrived(o, p)
<1> TAKE o \in Order, p \in Part
<1>1. [g \in Receipt |-> ReceiptQty(g, o, p)'] = [g \in Receipt |-> ReceiptQty(g, o, p)]
  OBVIOUS
<1> QED
  BY <1>1 DEF Arrived

\* A draft that becomes received adds its lines to what has arrived for its order.
LEMMA ArrivedMore ==
  ASSUME TypeOK, TypeOK', NEW g \in Receipt, receipt[g].status = "draft",
         receipt[g].order \in Order,
         receipt' = [receipt EXCEPT ![g].status = "received"]
  PROVE  \A o \in Order, p \in Part :
           Arrived(o, p)' = Arrived(o, p)
             + (IF o = receipt[g].order THEN QtyOf(receipt[g].lines, p) ELSE 0)
<1> USE PurchasingAssumption
<1> TAKE o \in Order, p \in Part
<1> DEFINE x == [h \in Receipt |-> ReceiptQty(h, o, p)]
           y == [h \in Receipt |-> ReceiptQty(h, o, p)']
<1>1. /\ receipt'[g].status = "received" /\ receipt'[g].order = receipt[g].order
      /\ receipt'[g].lines = receipt[g].lines
      /\ \A h \in Receipt : h # g => receipt'[h] = receipt[h]
  BY DEF TypeOK
<1>2. x \in [1..MaxReceipts -> Nat] /\ Arrived(o, p) = SumTo(x, MaxReceipts)
  BY ArrivedType DEF Arrived
<1>3. y \in [1..MaxReceipts -> Nat] /\ Arrived(o, p)' = SumTo(y, MaxReceipts)
  <2>1. \A h \in Receipt : ReceiptQty(h, o, p)' \in Nat
    BY QtyOfLines DEF ReceiptQty, TypeOK
  <2> QED
    BY <2>1 DEF Arrived, Receipt
<1>4. \A h \in 1..MaxReceipts : h # g => y[h] = x[h]
  BY <1>1 DEF ReceiptQty, Receipt
<1>5. /\ g \in 1..MaxReceipts /\ x[g] = 0
      /\ y[g] = IF o = receipt[g].order THEN QtyOf(receipt[g].lines, p) ELSE 0
  BY <1>1 DEF ReceiptQty, Receipt
<1> HIDE DEF x, y
<1>6. SumTo(y, MaxReceipts) = SumTo(x, MaxReceipts) + (y[g] - x[g])
  <2>1. x \in [1..MaxReceipts -> Int] /\ y \in [1..MaxReceipts -> Int]
    BY <1>2, <1>3
  <2> QED
    BY <2>1, <1>4, <1>5, SumToUpdate
<1>7. Arrived(o, p) \in Nat /\ y[g] \in Nat
  BY <1>3, <1>5, ArrivedType
<1> QED
  BY <1>2, <1>3, <1>5, <1>6, <1>7

-----------------------------------------------------------------------------
\* What a clerk's task is made of.
LEMMA TaskKinds ==
  ASSUME NEW t \in Task
  PROVE  /\ t.op = "new request" => t.quote \in Quotation
         /\ t.op \in {"new order", "order request"} => t.request \in Request
         /\ t.op = "order request" => t.status \in RequestStatus
         /\ t.op = "cancel order" => t.order \in Order
         /\ t.op \in {"receive", "receiving", "received"} => t.receipt \in Receipt
         /\ t.op = "receiving" => t.seen \in [Part -> Nat] /\ t.status \in OrderStatus
         /\ t.op = "received" => /\ t.written \in [Part -> Nat]
                                 /\ t.status \in OrderStatus /\ t.next \in OrderStatus
<1>1. CASE t = Idle
  BY <1>1 DEF Idle
<1>2. CASE t \in [op: {"new request"}, quote: Quotation]
  BY <1>2
<1>3. CASE t \in [op: {"new order"}, request: Request]
  BY <1>3
<1>4. CASE t \in [op: {"order request"}, request: Request, status: RequestStatus]
  BY <1>4
<1>5. CASE t \in [op: {"cancel order"}, order: Order]
  BY <1>5
<1>6. CASE t \in [op: {"receive"}, receipt: Receipt]
  BY <1>6
<1>7. CASE t \in [op: {"receiving"}, receipt: Receipt, seen: [Part -> Nat],
                  status: OrderStatus]
  BY <1>7
<1>8. CASE t \in [op: {"received"}, receipt: Receipt, written: [Part -> Nat],
                  status: OrderStatus, next: OrderStatus]
  BY <1>8
<1> QED
  BY <1>1, <1>2, <1>3, <1>4, <1>5, <1>6, <1>7, <1>8 DEF Task

\* A task that changes is that of its clerk.
LEMMA TaskTo ==
  ASSUME task \in [Clerk -> Task], NEW c \in Clerk, NEW t \in Task,
         task' = [task EXCEPT ![c] = t]
  PROVE  task' \in [Clerk -> Task] /\ task'[c] = t /\ \A d \in Clerk : d # c => task'[d] = task[d]
OBVIOUS

\* A routine that ends.
LEMMA Ended ==
  ASSUME task \in [Clerk -> Task], NEW c \in Clerk, End(c)
  PROVE  task' \in [Clerk -> Task] /\ task'[c] = Idle
         /\ \A d \in Clerk : d # c => task'[d] = task[d]
<1>1. Idle \in Task
  BY DEF Task
<1> QED
  BY <1>1 DEF End

\* A routine that begins.
LEMMA Begun ==
  ASSUME task \in [Clerk -> Task], NEW c \in Clerk, NEW t \in Task, Begin(c, t)
  PROVE  task' \in [Clerk -> Task] /\ task'[c] = t
         /\ \A d \in Clerk : d # c => task'[d] = task[d]
BY DEF Begin

RequestRow == [status: RequestStatus, quote: Quotation \cup {NoQuote}]
OrderRow   == [status: OrderStatus, request: Request \cup {NoRequest},
               ordered: [Part -> Nat], received: [Part -> Nat]]
ReceiptRow == [status: {"none", "draft", "received"}, order: Order \cup {0}, lines: Lines]

\* The lines of an order to be created are quantities.
LEMMA OrderedType ==
  ASSUME NEW lines \in OrderedLines
  PROVE  lines \in [Part -> Nat]
BY PurchasingAssumption DEF OrderedLines

\* What a receipt writes are quantities.
LEMMA WrittenType ==
  ASSUME TypeOK, NEW g \in Receipt, receipt[g].order \in Order, NEW seen \in [Part -> Nat]
  PROVE  [p \in Part |-> IF p \in PartsOf(receipt[g].lines)
                           THEN seen[p] + LastQty(receipt[g].lines, p)
                           ELSE order[receipt[g].order].received[p]] \in [Part -> Nat]
<1>1. receipt[g].lines \in Lines /\ order[receipt[g].order].received \in [Part -> Nat]
  BY DEF TypeOK
<1>2. \A p \in PartsOf(receipt[g].lines) : LastQty(receipt[g].lines, p) \in Nat
  BY <1>1, LastQtyOfLines
<1> QED
  BY <1>1, <1>2

\* Orders goods are, or were, received against; requests that have an order.
Opened == {"approved", "partially_received", "received", "cancelled"}
Passed == {"ordered", "received", "cancelled"}

Rows ==
  /\ \A g \in Receipt : receipt[g].status # "none" =>
       receipt[g].order \in Order /\ order[receipt[g].order].status \in Opened
  /\ \A o \in Order : order[o].status = "none" => order[o].received = Nothing
  /\ \A o \in Order : order[o].status # "none" /\ order[o].request # NoRequest =>
       request[order[o].request].status \in Passed

\* What has arrived according to the receipts R.
ArrivedIn(R, o, p) ==
  SumTo([g \in Receipt |-> IF R[g].status = "received" /\ R[g].order = o
                           THEN QtyOf(R[g].lines, p) ELSE 0], MaxReceipts)

\* What a task has read of the requests Q, orders O and receipts R holds no more
\* than what is there now.
Reads(t, Q, O, R) ==
  /\ t.op = "order request" =>
       /\ t.status \in {"approved", "ordered"}
       /\ t.status = "ordered" => Q[t.request].status \in Passed
  /\ t.op = "cancel order" => O[t.order].status # "none"
  /\ t.op \in {"receive", "receiving"} => R[t.receipt].status # "none"
  /\ t.op = "receiving" => \A p \in Part : t.seen[p] <= ArrivedIn(R, R[t.receipt].order, p)

\* A receipt being received is a draft; no more is written than its lines add to
\* what has arrived, and the order is completed by what is written.
Writes(t, O, R) ==
  t.op = "received" =>
    LET o == R[t.receipt].order
    IN  /\ R[t.receipt].status = "draft"
        /\ \A p \in Part : t.written[p] <= ArrivedIn(R, o, p) + QtyOf(R[t.receipt].lines, p)
        /\ t.next # t.status => t.next \in {"received", "partially_received"}
        /\ t.next # t.status /\ t.next = "received" => Complete(O[o].ordered, t.written)

Tasks == \A c \in Clerk : /\ Reads(task[c], request, order, receipt)
                          /\ Writes(task[c], order, receipt)

\* No two clerks commit one receipt.
Exclusive == \A c, d \in Clerk : c # d /\ task[c].op = "received" /\ task[d].op = "received" =>
                                   task[c].receipt # task[d].receipt

-----------------------------------------------------------------------------
\* Every step keeps the types.
LEMMA TypesStep ==
  ASSUME TypeOK, Rows, Tasks, [Next]_vars
  PROVE  TypeOK'
<1> USE PurchasingAssumption
<1>0. /\ request \in [Request -> RequestRow] /\ order \in [Order -> OrderRow]
      /\ receipt \in [Receipt -> ReceiptRow] /\ shelved \in [Part -> Nat]
      /\ task \in [Clerk -> Task]
  BY DEF TypeOK, RequestRow, OrderRow, ReceiptRow
<1>1. ASSUME request' \in [Request -> RequestRow], order' \in [Order -> OrderRow],
             receipt' \in [Receipt -> ReceiptRow], shelved' \in [Part -> Nat],
             task' \in [Clerk -> Task]
      PROVE  TypeOK'
  BY <1>1 DEF TypeOK, RequestRow, OrderRow, ReceiptRow
<1>2. CASE UNCHANGED vars
  BY <1>2 DEF vars, TypeOK
<1>3. ASSUME NEW c \in Clerk, NEW q \in Quotation, CheckQuotation(c, q) PROVE TypeOK'
  <2>1. [op |-> "new request", quote |-> q] \in Task
    BY DEF Task
  <2> QED
    BY <1>0, <1>1, <1>3, <2>1, Begun DEF CheckQuotation
<1>4. ASSUME NEW c \in Clerk, NEW r \in Request, CreateRequest(c, r) PROVE TypeOK'
  <2>1. [status |-> "draft", quote |-> task[c].quote] \in RequestRow
    BY <1>0, <1>4, TaskKinds DEF CreateRequest, RequestRow, RequestStatus
  <2> QED
    BY <1>0, <1>1, <1>4, <2>1, Ended DEF CreateRequest
<1>5. ASSUME NEW c \in Clerk, NEW r \in Request, CheckRequest(c, r) PROVE TypeOK'
  <2>1. [op |-> "new order", request |-> r] \in Task
    BY DEF Task
  <2> QED
    BY <1>0, <1>1, <1>5, <2>1, Begun DEF CheckRequest
<1>6. ASSUME NEW r \in Request, CreatePlainRequest(r) PROVE TypeOK'
  <2>1. [status |-> "draft", quote |-> NoQuote] \in RequestRow
    BY DEF RequestRow, RequestStatus
  <2> QED
    BY <1>0, <1>1, <1>6, <2>1 DEF CreatePlainRequest
<1>7. ASSUME NEW r \in Request, NEW to \in {"pending_approval", "approved", "cancelled"},
             MoveRequest(r, to)
      PROVE  TypeOK'
  <2>1. [request[r] EXCEPT !.status = to] \in RequestRow
    BY <1>0 DEF RequestRow, RequestStatus
  <2> QED
    BY <1>0, <1>1, <1>7, <2>1 DEF MoveRequest
<1>8. ASSUME NEW c \in Clerk, ReadRequest(c) PROVE TypeOK'
  <2>1. [op |-> "order request", request |-> task[c].request,
         status |-> request[task[c].request].status] \in Task
    BY <1>0, <1>8, TaskKinds DEF ReadRequest, Task, RequestRow
  <2> QED
    BY <1>0, <1>1, <1>8, <2>1, TaskTo DEF ReadRequest
<1>9. ASSUME NEW c \in Clerk, CancelOrder(c) PROVE TypeOK'
  <2>1. task[c].order \in Order
    BY <1>0, <1>9, TaskKinds DEF CancelOrder
  <2>2. [order[task[c].order] EXCEPT !.status = "cancelled"] \in OrderRow
    BY <1>0, <2>1 DEF OrderRow, OrderStatus
  <2> QED
    BY <1>0, <1>1, <1>9, <2>1, <2>2, Ended DEF CancelOrder
<1>10. ASSUME NEW c \in Clerk, NEW o \in Order, NEW lines \in OrderedLines,
              CreateOrder(c, o, lines)
       PROVE  TypeOK'
  <2>1. task[c].request \in Request
    BY <1>0, <1>10, TaskKinds DEF CreateOrder
  <2>2. [status |-> "new", request |-> task[c].request, ordered |-> lines,
         received |-> Nothing] \in OrderRow
    BY <2>1, OrderedType DEF OrderRow, OrderStatus, Nothing
  <2>3. [request[task[c].request] EXCEPT !.status = "ordered"] \in RequestRow
    BY <1>0, <2>1 DEF RequestRow, RequestStatus
  <2>4. request' \in [Request -> RequestRow]
    BY <1>0, <1>10, <2>1, <2>3 DEF CreateOrder
  <2> QED
    BY <1>0, <1>1, <1>10, <2>2, <2>4, Ended DEF CreateOrder
<1>11. ASSUME NEW o \in Order, NEW lines \in OrderedLines, CreateDirectOrder(o, lines)
       PROVE  TypeOK'
  <2>1. [status |-> "new", request |-> NoRequest, ordered |-> lines,
         received |-> Nothing] \in OrderRow
    BY OrderedType DEF OrderRow, OrderStatus, Nothing
  <2> QED
    BY <1>0, <1>1, <1>11, <2>1 DEF CreateDirectOrder
<1>12. ASSUME NEW o \in Order, NEW to \in {"pending_approval", "approved"}, MoveOrder(o, to)
       PROVE  TypeOK'
  <2>1. [order[o] EXCEPT !.status = to] \in OrderRow
    BY <1>0 DEF OrderRow, OrderStatus
  <2> QED
    BY <1>0, <1>1, <1>12, <2>1 DEF MoveOrder
<1>13. ASSUME NEW c \in Clerk, NEW o \in Order, CheckCancel(c, o) PROVE TypeOK'
  <2>1. [op |-> "cancel order", order |-> o] \in Task
    BY DEF Task
  <2> QED
    BY <1>0, <1>1, <1>13, <2>1, Begun DEF CheckCancel
<1>14. ASSUME NEW g \in Receipt, NEW o \in Order, NEW lines \in Lines, CreateReceipt(g, o, lines)
       PROVE  TypeOK'
  <2>1. [status |-> "draft", order |-> o, lines |-> lines] \in ReceiptRow
    BY DEF ReceiptRow
  <2> QED
    BY <1>0, <1>1, <1>14, <2>1 DEF CreateReceipt
<1>15. ASSUME NEW c \in Clerk, NEW g \in Receipt, CheckReceive(c, g) PROVE TypeOK'
  <2>1. [op |-> "receive", receipt |-> g] \in Task
    BY DEF Task
  <2> QED
    BY <1>0, <1>1, <1>15, <2>1, Begun DEF CheckReceive
<1>16. ASSUME NEW c \in Clerk, ReadOrder(c) PROVE TypeOK'
  <2> DEFINE g == task[c].receipt
             o == receipt[g].order
  <2>1. task[c].op = "receive" /\ g \in Receipt /\ o \in Order
    <3>1. task[c].op = "receive"
      BY <1>16 DEF ReadOrder
    <3>2. g \in Receipt /\ receipt[g].status # "none"
      BY <1>0, <3>1, TaskKinds DEF Tasks, Reads
    <3> QED
      BY <3>1, <3>2 DEF Rows
  <2>2. order[o].received \in [Part -> Nat] /\ order[o].status \in OrderStatus
    BY <1>0, <2>1 DEF OrderRow
  <2>3. [op |-> "receiving", receipt |-> g, seen |-> order[o].received,
         status |-> order[o].status] \in Task
    BY <2>1, <2>2 DEF Task
  <2> QED
    BY <1>0, <1>1, <1>16, <2>3, TaskTo DEF ReadOrder
<1>17. ASSUME NEW c \in Clerk, WriteLines(c) PROVE TypeOK'
  <2> DEFINE g == task[c].receipt
             o == receipt[g].order
             items == [p \in Part |-> IF p \in PartsOf(receipt[g].lines)
                                        THEN task[c].seen[p] + LastQty(receipt[g].lines, p)
                                        ELSE order[o].received[p]]
             t == [op |-> "received", receipt |-> g, written |-> items,
                   status |-> task[c].status, next |-> NextStatus(o, items, task[c].status)]
  <2>1. task[c].op = "receiving"
    BY <1>17 DEF WriteLines
  <2>2. g \in Receipt /\ o \in Order /\ task[c].seen \in [Part -> Nat]
        /\ task[c].status \in OrderStatus
    BY <1>0, <2>1, TaskKinds DEF Tasks, Reads, Rows
  <2>3. items \in [Part -> Nat]
    BY <2>2, WrittenType
  <2>4. NextStatus(o, items, task[c].status) \in OrderStatus
    BY <2>2 DEF NextStatus, OrderStatus
  <2>5. UNCHANGED <<request, order, receipt, shelved>> /\ task' = [task EXCEPT ![c] = t]
    BY <1>17 DEF WriteLines
  <2>6. t \in Task
    <3> HIDE DEF items, o, g
    <3> QED
      BY <2>2, <2>3, <2>4 DEF Task
  <2> HIDE DEF t
  <2> QED
    BY <1>0, <1>1, <2>5, <2>6, TaskTo
<1>18. ASSUME NEW c \in Clerk, CommitReceive(c) PROVE TypeOK'
  <2> DEFINE t == task[c]
             g == t.receipt
             o == receipt[g].order
  <2>1. t.op = "received"
    BY <1>18 DEF CommitReceive
  <2>2. g \in Receipt /\ receipt[g].status = "draft" /\ o \in Order
        /\ t.written \in [Part -> Nat] /\ t.status \in OrderStatus /\ t.next \in OrderStatus
    BY <1>0, <2>1, TaskKinds DEF Tasks, Writes, Rows
  <2>3. order' \in [Order -> OrderRow]
    <3> DEFINE items == [p \in Part |-> IF p \in PartsOf(receipt[g].lines)
                                          THEN t.written[p] ELSE order[o].received[p]]
               next  == IF t.next # t.status THEN t.next ELSE order[o].status
               row   == [order[o] EXCEPT !.received = items, !.status = next]
    <3>0. items \in [Part -> Nat] /\ next \in OrderStatus
      BY <1>0, <2>2 DEF OrderRow
    <3>2. order' = [order EXCEPT ![o] = row]
      BY <1>0, <1>18, <2>2 DEF CommitReceive
    <3>1. row \in OrderRow
      <4> HIDE DEF items, next
      <4> QED
        BY <1>0, <2>2, <3>0 DEF OrderRow
    <3> HIDE DEF row
    <3> QED
      BY <1>0, <2>2, <3>1, <3>2
  <2>4. request' \in [Request -> RequestRow]
    <3>1. order[o].request \in Request \cup {NoRequest}
      BY <1>0, <2>2 DEF OrderRow
    <3>2. \A r \in Request : [request[r] EXCEPT !.status = "received"] \in RequestRow
      BY <1>0 DEF RequestRow, RequestStatus
    <3> QED
      BY <1>0, <1>18, <3>1, <3>2 DEF CommitReceive
  <2>5. receipt' \in [Receipt -> ReceiptRow]
    <3>1. [receipt[g] EXCEPT !.status = "received"] \in ReceiptRow
      BY <1>0, <2>2 DEF ReceiptRow
    <3> QED
      BY <1>0, <1>18, <2>2, <3>1 DEF CommitReceive
  <2>6. shelved' \in [Part -> Nat]
    <3>1. \A p \in Part : QtyOf(receipt[g].lines, p) \in Nat
      BY <1>0, <2>2, QtyOfLines DEF ReceiptRow
    <3>2. shelved' = [p \in Part |-> shelved[p] + QtyOf(receipt[g].lines, p)]
      BY <1>18 DEF CommitReceive
    <3> HIDE DEF g
    <3> QED
      BY <1>0, <3>1, <3>2
  <2>7. End(c)
    BY <1>18 DEF CommitReceive
  <2> QED
    BY <1>0, <1>1, <2>3, <2>4, <2>5, <2>6, <2>7, Ended
<1>19. ASSUME NEW c \in Clerk, GiveUp(c) PROVE TypeOK'
  BY <1>0, <1>1, <1>19, Ended DEF GiveUp
<1> QED
  BY <1>2, <1>3, <1>4, <1>5, <1>6, <1>7, <1>8, <1>9, <1>10, <1>11, <1>12, <1>13, <1>14, <1>15,
     <1>16, <1>17, <1>18, <1>19 DEF Next, RequestNext, OrderNext, ReceiptNext

-----------------------------------------------------------------------------
\* What a step leaves to those who have read: rows are never unmade, and what
\* has arrived stays.
Grows ==
  /\ \A r \in Request : request[r].status \in Passed => request'[r].status \in Passed
  /\ \A g \in Receipt : receipt[g].status # "none" =>
       /\ receipt'[g].status # "none"
       /\ receipt'[g].order = receipt[g].order /\ receipt'[g].lines = receipt[g].lines
  /\ \A o \in Order : order[o].status # "none" =>
       /\ order'[o].status # "none"
       /\ order'[o].ordered = order[o].ordered /\ order'[o].request = order[o].request
       /\ order[o].status \in Opened => order'[o].status \in Opened
  /\ \A o \in Order, p \in Part : Arrived(o, p)' >= Arrived(o, p)

\* The commit of a receipt.
LEMMA CommitRows ==
  ASSUME TypeOK, TypeOK', Rows, Tasks, NEW c \in Clerk, CommitReceive(c),
         NEW g, g = task[c].receipt, NEW o, o = receipt[g].order
  PROVE  /\ task[c].op = "received" /\ g \in Receipt /\ receipt[g].status = "draft"
         /\ o \in Order /\ order[o].status \in Opened
         /\ \A h \in Receipt : h # g => receipt'[h] = receipt[h]
         /\ receipt'[g].status = "received" /\ receipt'[g].order = o
         /\ receipt'[g].lines = receipt[g].lines
         /\ \A u \in Order : u # o => order'[u] = order[u]
         /\ order'[o].ordered = order[o].ordered /\ order'[o].request = order[o].request
         /\ order'[o].status = (IF task[c].next # task[c].status THEN task[c].next
                                ELSE order[o].status)
         /\ \A p \in Part : order'[o].received[p] =
              IF p \in PartsOf(receipt[g].lines) THEN task[c].written[p]
              ELSE order[o].received[p]
         /\ task'[c] = Idle /\ \A d \in Clerk : d # c => task'[d] = task[d]
<1>1. task[c].op = "received" /\ End(c)
  BY DEF CommitReceive
<1>2. g \in Receipt /\ receipt[g].status = "draft" /\ o \in Order /\ order[o].status \in Opened
  BY <1>1, TaskKinds DEF TypeOK, Tasks, Writes, Rows
<1>3. receipt' = [receipt EXCEPT ![g].status = "received"]
  BY DEF CommitReceive
<1>4. /\ receipt'[g].status = "received" /\ receipt'[g].order = o
      /\ receipt'[g].lines = receipt[g].lines
      /\ \A h \in Receipt : h # g => receipt'[h] = receipt[h]
  BY <1>2, <1>3 DEF TypeOK
<1>5. order' = [order EXCEPT
        ![o].received = [p \in Part |-> IF p \in PartsOf(receipt[g].lines)
                                          THEN task[c].written[p] ELSE @[p]],
        ![o].status = IF task[c].next # task[c].status THEN task[c].next ELSE @]
  BY DEF CommitReceive
<1>6. /\ \A u \in Order : u # o => order'[u] = order[u]
      /\ order'[o].ordered = order[o].ordered /\ order'[o].request = order[o].request
  BY <1>2, <1>5 DEF TypeOK
<1>7. order'[o].status = (IF task[c].next # task[c].status THEN task[c].next
                          ELSE order[o].status)
  BY <1>2, <1>5 DEF TypeOK
<1>8. order'[o].received = [p \in Part |-> IF p \in PartsOf(receipt[g].lines)
                                             THEN task[c].written[p] ELSE order[o].received[p]]
  BY <1>2, <1>5 DEF TypeOK
<1>9. task'[c] = Idle /\ \A d \in Clerk : d # c => task'[d] = task[d]
  BY <1>1, Ended DEF TypeOK
<1> QED
  BY <1>1, <1>2, <1>4, <1>6, <1>7, <1>8, <1>9

\* The tasks at the commit of a receipt.
LEMMA CommitTasks ==
  ASSUME TypeOK, TypeOK', Rows, Tasks, NEW c \in Clerk, CommitReceive(c)
  PROVE  /\ task[c].op = "received" /\ task[c].receipt \in Receipt
         /\ \A h \in Receipt : h # task[c].receipt => receipt'[h] = receipt[h]
         /\ task'[c] = Idle /\ \A d \in Clerk : d # c => task'[d] = task[d]
<1>1. task[c].op = "received" /\ End(c)
      /\ receipt' = [receipt EXCEPT ![task[c].receipt].status = "received"]
  BY DEF CommitReceive
<1>2. task[c].receipt \in Receipt
  BY <1>1, TaskKinds DEF TypeOK
<1>3. \A h \in Receipt : h # task[c].receipt => receipt'[h] = receipt[h]
  BY <1>1, <1>2 DEF TypeOK
<1>4. task'[c] = Idle /\ \A d \in Clerk : d # c => task'[d] = task[d]
  BY <1>1, Ended DEF TypeOK
<1> QED
  BY <1>1, <1>2, <1>3, <1>4

\* The request of the commit of a receipt.
LEMMA CommitRequest ==
  ASSUME TypeOK, NEW c \in Clerk, CommitReceive(c),
         NEW g, g = task[c].receipt, NEW o, o = receipt[g].order, NEW r \in Request,
         request'[r] # request[r]
  PROVE  /\ r = order[o].request
         /\ request[r].status \in {"ordered", "approved"} /\ request'[r].status = "received"
         /\ Complete(order[o].ordered, task[c].written)
<1>1. request' =
        IF /\ Complete(order[o].ordered, task[c].written)
           /\ order[o].request # NoRequest
           /\ request[order[o].request].status \in {"ordered", "approved"}
        THEN [request EXCEPT ![order[o].request].status = "received"]
        ELSE request
  BY DEF CommitReceive
<1> HIDE DEF Complete
<1>2. /\ Complete(order[o].ordered, task[c].written)
      /\ request[order[o].request].status \in {"ordered", "approved"}
      /\ request' = [request EXCEPT ![order[o].request].status = "received"]
  BY <1>1
<1>3. r = order[o].request
  BY <1>2 DEF TypeOK
<1> QED
  BY <1>2, <1>3 DEF TypeOK

\* What the commit of a receipt adds to what has arrived.
LEMMA CommitArrives ==
  ASSUME TypeOK, TypeOK', Rows, Tasks, NEW c \in Clerk, CommitReceive(c),
         NEW g, g = task[c].receipt, NEW o, o = receipt[g].order
  PROVE  \A u \in Order, p \in Part :
           /\ QtyOf(receipt[g].lines, p) \in Nat
           /\ Arrived(u, p)' = Arrived(u, p) + (IF u = o THEN QtyOf(receipt[g].lines, p) ELSE 0)
<1>0. receipt' = [receipt EXCEPT ![g].status = "received"]
  BY DEF CommitReceive
<1>1. g \in Receipt /\ receipt[g].status = "draft" /\ o \in Order
  BY CommitRows
<1>2. \A p \in Part : QtyOf(receipt[g].lines, p) \in Nat
  BY <1>1, QtyOfLines DEF TypeOK
<1> QED
  BY <1>0, <1>1, <1>2, ArrivedMore

\* Every step keeps the rows and leaves them to those who have read.
LEMMA RowsStep ==
  ASSUME TypeOK, TypeOK', Rows, Tasks, [Next]_vars
  PROVE  Rows' /\ Grows
<1>1. ASSUME UNCHANGED receipt
      PROVE  \A o \in Order, p \in Part : Arrived(o, p)' >= Arrived(o, p)
  <2>1. \A o \in Order, p \in Part : Arrived(o, p)' = Arrived(o, p)
    BY <1>1, ArrivedSame DEF ReceiptQty
  <2> QED
    BY <2>1, ArrivedType
\* Steps that only deal with requests, or only with orders.
<1>2. ASSUME UNCHANGED <<order, receipt>>,
             \A r \in Request : request[r].status \in Passed => request'[r].status \in Passed
      PROVE  Rows' /\ Grows
  <2>1. Grows
    BY <1>1, <1>2 DEF Grows
  <2>2. ASSUME NEW o \in Order, order[o].status # "none", order[o].request # NoRequest
        PROVE  request'[order[o].request].status \in Passed
    BY <1>2, <2>2 DEF Rows, TypeOK
  <2> QED
    BY <1>2, <2>1, <2>2 DEF Rows
<1>3. ASSUME NEW o \in Order, UNCHANGED <<request, receipt>>,
             NEW to, order' = [order EXCEPT ![o].status = to],
             order[o].status # "none", to # "none",
             order[o].status \in Opened => to \in Opened
      PROVE  Rows' /\ Grows
  <2>1. /\ \A u \in Order : u # o => order'[u] = order[u]
        /\ order'[o] = [order[o] EXCEPT !.status = to]
    BY <1>3 DEF TypeOK
  <2>2. /\ order'[o].status = to /\ order'[o].received = order[o].received
        /\ order'[o].ordered = order[o].ordered /\ order'[o].request = order[o].request
    BY <2>1 DEF TypeOK
  <2>3. Grows
    BY <1>1, <1>3, <2>1, <2>2 DEF Grows
  <2>4. Rows'
    BY <1>3, <2>1, <2>2 DEF Rows
  <2> QED
    BY <2>3, <2>4
<1>4. ASSUME NEW o \in Order, NEW row, row.status = "new", UNCHANGED receipt,
             NextRow(order, o), order' = [order EXCEPT ![o] = row],
             \A r \in Request : request[r].status \in Passed => request'[r].status \in Passed,
             row.request # NoRequest => request'[row.request].status \in Passed
      PROVE  Rows' /\ Grows
  <2>1. /\ \A u \in Order : u # o => order'[u] = order[u]
        /\ order'[o] = row /\ order[o].status = "none"
    BY <1>4 DEF TypeOK, NextRow
  <2>2. Grows
    BY <1>1, <1>4, <2>1 DEF Grows
  <2>3. ASSUME NEW g \in Receipt, receipt[g].status # "none"
        PROVE  receipt[g].order \in Order /\ order'[receipt[g].order].status \in Opened
    <3>1. receipt[g].order \in Order /\ order[receipt[g].order].status \in Opened
      BY <2>3 DEF Rows
    <3> QED
      BY <2>1, <3>1 DEF Opened
  <2>4. ASSUME NEW u \in Order, order'[u].status = "none" PROVE order'[u].received = Nothing
    BY <1>4, <2>1, <2>4 DEF Rows
  <2>5. ASSUME NEW u \in Order, order'[u].status # "none", order'[u].request # NoRequest
        PROVE  request'[order'[u].request].status \in Passed
    <3>1. CASE u = o
      BY <1>4, <2>1, <2>5, <3>1
    <3>2. CASE u # o
      <4>1. order[u].request \in Request /\ request[order[u].request].status \in Passed
        BY <2>1, <2>5, <3>2 DEF Rows, TypeOK
      <4> QED
        BY <1>4, <2>1, <3>2, <4>1
    <3> QED
      BY <3>1, <3>2
  <2> QED
    BY <1>4, <2>2, <2>3, <2>4, <2>5 DEF Rows
<1>5. CASE UNCHANGED <<request, order, receipt>>
  BY <1>2, <1>5
<1>6. ASSUME NEW r \in Request, NEW row, NextRow(request, r), UNCHANGED <<order, receipt>>,
             request' = [request EXCEPT ![r] = row]
      PROVE  Rows' /\ Grows
  BY <1>2, <1>6 DEF NextRow, TypeOK, Passed
<1>7. ASSUME NEW r \in Request, NEW to \in {"pending_approval", "approved", "cancelled"},
             MoveRequest(r, to)
      PROVE  Rows' /\ Grows
  <2>1. request[r].status \in Passed => to \in Passed
    BY <1>7 DEF MoveRequest, RequestMoves, Passed
  <2> QED
    BY <1>2, <1>7, <2>1 DEF MoveRequest, TypeOK
<1>8. ASSUME NEW o \in Order, NEW to \in {"pending_approval", "approved"}, MoveOrder(o, to)
      PROVE  Rows' /\ Grows
  <2>1. order[o].status \notin Opened
    BY <1>8 DEF MoveOrder, OrderMoves, Opened
  <2> QED
    BY <1>3, <1>8, <2>1 DEF MoveOrder
<1>9. ASSUME NEW c \in Clerk, CancelOrder(c) PROVE Rows' /\ Grows
  <2>1. task[c].op = "cancel order" /\ task[c].order \in Order
    BY <1>9, TaskKinds DEF CancelOrder, TypeOK
  <2>2. order[task[c].order].status # "none"
    BY <2>1 DEF Tasks, Reads
  <2> QED
    BY <1>3, <1>9, <2>1, <2>2 DEF CancelOrder, Opened
<1>10. ASSUME NEW c \in Clerk, NEW o \in Order, NEW lines \in OrderedLines, CreateOrder(c, o, lines)
       PROVE  Rows' /\ Grows
  <2> DEFINE r == task[c].request
             row == [status |-> "new", request |-> r, ordered |-> lines, received |-> Nothing]
  <2>1. task[c].op = "order request" /\ r \in Request
    BY <1>10, TaskKinds DEF CreateOrder, TypeOK
  <2>2. /\ task[c].status \in {"approved", "ordered"}
        /\ task[c].status = "ordered" => request[r].status \in Passed
    BY <2>1 DEF Tasks, Reads
  <2>3. request' = IF task[c].status = "approved" THEN [request EXCEPT ![r].status = "ordered"]
                   ELSE request
    BY <1>10 DEF CreateOrder
  <2>4. /\ request'[r].status \in Passed
        /\ \A q \in Request : request[q].status \in Passed => request'[q].status \in Passed
    <3> HIDE DEF r
    <3>1. CASE task[c].status = "approved"
      <4>1. request'[r].status = "ordered" /\ \A q \in Request : q # r => request'[q] = request[q]
        <5>1. request' = [request EXCEPT ![r].status = "ordered"]
          BY <2>3, <3>1
        <5>2. request \in [Request -> [status: RequestStatus, quote: Quotation \cup {NoQuote}]]
          BY DEF TypeOK
        <5> QED
          BY <2>1, <5>1, <5>2
      <4> QED
        BY <4>1 DEF Passed
    <3>2. CASE task[c].status = "ordered"
      BY <2>2, <2>3, <3>2
    <3> QED
      BY <2>2, <3>1, <3>2
  <2>5. NextRow(order, o) /\ order' = [order EXCEPT ![o] = row] /\ UNCHANGED receipt
    BY <1>10 DEF CreateOrder
  <2>6. row.status = "new" /\ row.request = r
    OBVIOUS
  <2> HIDE DEF row, r
  <2> QED
    BY <1>4, <2>4, <2>5, <2>6
<1>11. ASSUME NEW o \in Order, NEW lines \in OrderedLines, CreateDirectOrder(o, lines)
       PROVE  Rows' /\ Grows
  <2> DEFINE row == [status |-> "new", request |-> NoRequest, ordered |-> lines,
                     received |-> Nothing]
  <2>1. NextRow(order, o) /\ order' = [order EXCEPT ![o] = row] /\ UNCHANGED <<request, receipt>>
    BY <1>11 DEF CreateDirectOrder
  <2>2. row.status = "new" /\ row.request = NoRequest
    OBVIOUS
  <2> HIDE DEF row
  <2> QED
    BY <1>4, <2>1, <2>2
<1>12. ASSUME NEW g \in Receipt, NEW o \in Order, NEW lines \in Lines, CreateReceipt(g, o, lines)
       PROVE  Rows' /\ Grows
  <2> DEFINE row == [status |-> "draft", order |-> o, lines |-> lines]
  <2>1. /\ receipt[g].status = "none" /\ receipt'[g] = row
        /\ \A h \in Receipt : h # g => receipt'[h] = receipt[h]
        /\ UNCHANGED <<request, order>> /\ order[o].status \in Opened
    BY <1>12 DEF CreateReceipt, NextRow, Receivable, Opened, TypeOK
  <2>2. row.status = "draft" /\ row.order = o
    OBVIOUS
  <2> HIDE DEF row
  <2>3. \A h \in Receipt, u \in Order, p \in Part : ReceiptQty(h, u, p)' = ReceiptQty(h, u, p)
    <3> TAKE h \in Receipt, u \in Order, p \in Part
    <3>1. CASE h = g
      BY <2>1, <2>2, <3>1 DEF ReceiptQty
    <3>2. CASE h # g
      BY <2>1, <3>2 DEF ReceiptQty
    <3> QED
      BY <3>1, <3>2
  <2>4. \A u \in Order, p \in Part : Arrived(u, p)' >= Arrived(u, p)
    <3>1. \A u \in Order, p \in Part : Arrived(u, p)' = Arrived(u, p)
      BY <2>3, ArrivedSame
    <3> QED
      BY <3>1, ArrivedType
  <2>5. Grows
    BY <2>1, <2>4 DEF Grows
  <2>6. ASSUME NEW h \in Receipt, receipt'[h].status # "none"
        PROVE  receipt'[h].order \in Order /\ order'[receipt'[h].order].status \in Opened
    BY <2>1, <2>2, <2>6 DEF Rows
  <2>7. Rows'
    BY <2>1, <2>6 DEF Rows
  <2> QED
    BY <2>5, <2>7
<1>13. ASSUME NEW c \in Clerk, CommitReceive(c) PROVE Rows' /\ Grows
  <2> DEFINE g == task[c].receipt
             o == receipt[g].order
  <2>1. /\ task[c].op = "received" /\ g \in Receipt /\ receipt[g].status = "draft"
        /\ o \in Order /\ order[o].status \in Opened
        /\ \A h \in Receipt : h # g => receipt'[h] = receipt[h]
        /\ receipt'[g].status = "received" /\ receipt'[g].order = o
        /\ receipt'[g].lines = receipt[g].lines
        /\ \A u \in Order : u # o => order'[u] = order[u]
        /\ order'[o].ordered = order[o].ordered /\ order'[o].request = order[o].request
        /\ order'[o].status = (IF task[c].next # task[c].status THEN task[c].next
                               ELSE order[o].status)
    BY <1>13, CommitRows
  <2>2. /\ receipt'[g].status = "received" /\ receipt'[g].order = o
        /\ receipt'[g].lines = receipt[g].lines
    BY <2>1
  <2>3. order'[o].status \in Opened
    <3>1. task[c].next # task[c].status => task[c].next \in {"received", "partially_received"}
      BY <2>1 DEF Tasks, Writes
    <3> QED
      BY <2>1, <3>1 DEF Opened
  <2>4. \A r \in Request : request[r].status \in Passed => request'[r].status \in Passed
    <3>1. \A r \in Request : request'[r] # request[r] => request'[r].status = "received"
      BY <1>13, CommitRequest
    <3> QED
      BY <3>1 DEF Passed
  <2>5. \A u \in Order, p \in Part : Arrived(u, p)' >= Arrived(u, p)
    <3>1. \A u \in Order, p \in Part :
            /\ QtyOf(receipt[g].lines, p) \in Nat
            /\ Arrived(u, p)' = Arrived(u, p) + (IF u = o THEN QtyOf(receipt[g].lines, p) ELSE 0)
      BY <1>13, CommitArrives
    <3> HIDE DEF o, g
    <3> QED
      BY <3>1, ArrivedType
  <2> HIDE DEF o, g
  <2>6. Grows
    <3>1. \A h \in Receipt : receipt[h].status # "none" =>
            /\ receipt'[h].status # "none"
            /\ receipt'[h].order = receipt[h].order /\ receipt'[h].lines = receipt[h].lines
      BY <2>1, <2>2 DEF o
    <3>2. \A u \in Order : order[u].status # "none" =>
            /\ order'[u].status # "none"
            /\ order'[u].ordered = order[u].ordered /\ order'[u].request = order[u].request
            /\ order[u].status \in Opened => order'[u].status \in Opened
      BY <2>1, <2>3 DEF Opened
    <3> QED
      BY <2>4, <2>5, <3>1, <3>2 DEF Grows
  <2>7. ASSUME NEW h \in Receipt, receipt'[h].status # "none"
        PROVE  receipt'[h].order \in Order /\ order'[receipt'[h].order].status \in Opened
    <3>1. receipt[h].status # "none" /\ receipt'[h].order = receipt[h].order
      BY <2>1, <2>2, <2>7 DEF o
    <3>2. receipt[h].order \in Order /\ order[receipt[h].order].status \in Opened
      BY <3>1 DEF Rows
    <3> QED
      BY <2>1, <2>3, <3>1, <3>2
  <2>8. ASSUME NEW u \in Order, order'[u].status = "none" PROVE order'[u].received = Nothing
    <3>1. u # o
      BY <2>3, <2>8 DEF Opened
    <3> QED
      BY <2>1, <2>8, <3>1 DEF Rows
  <2>9. ASSUME NEW u \in Order, order'[u].status # "none", order'[u].request # NoRequest
        PROVE  request'[order'[u].request].status \in Passed
    <3>1. order[u].status # "none" /\ order[u].request = order'[u].request
      BY <2>1, <2>9 DEF Opened
    <3>2. order[u].request \in Request /\ request[order[u].request].status \in Passed
      BY <2>9, <3>1 DEF Rows, TypeOK
    <3> QED
      BY <2>4, <3>1, <3>2
  <2> QED
    BY <2>6, <2>7, <2>8, <2>9 DEF Rows
<1>14. CASE UNCHANGED vars
  BY <1>5, <1>14 DEF vars
<1>15. ASSUME NEW c \in Clerk, NEW r \in Request, CreateRequest(c, r) PROVE Rows' /\ Grows
  BY <1>6, <1>15 DEF CreateRequest
<1>16. ASSUME NEW r \in Request, CreatePlainRequest(r) PROVE Rows' /\ Grows
  BY <1>6, <1>16 DEF CreatePlainRequest
<1>17. ASSUME NEW c \in Clerk,
              \/ \E q \in Quotation : CheckQuotation(c, q)
              \/ \E r \in Request : CheckRequest(c, r)
              \/ \E o \in Order : CheckCancel(c, o)
              \/ \E g \in Receipt : CheckReceive(c, g)
              \/ ReadRequest(c) \/ ReadOrder(c) \/ WriteLines(c) \/ GiveUp(c)
       PROVE  Rows' /\ Grows
  BY <1>5, <1>17 DEF CheckQuotation, CheckRequest, CheckCancel, CheckReceive, ReadRequest,
                     ReadOrder, WriteLines, GiveUp
<1> QED
  BY <1>7, <1>8, <1>9, <1>10, <1>11, <1>12, <1>13, <1>14, <1>15, <1>16, <1>17
  DEF Next, RequestNext, OrderNext, ReceiptNext

-----------------------------------------------------------------------------
\* And after a step.
LEMMA ArrivedTypeNext ==
  ASSUME TypeOK', NEW o \in Order, NEW p \in Part
  PROVE  Arrived(o, p)' \in Nat
<1> USE PurchasingAssumption
<1>1. \A g \in Receipt : ReceiptQty(g, o, p)' \in Nat
  BY QtyOfLines DEF ReceiptQty, TypeOK
<1>2. [g \in Receipt |-> ReceiptQty(g, o, p)'] \in [1..MaxReceipts -> Nat]
  BY <1>1 DEF Receipt
<1> QED
  BY <1>2, SumToAtLeast DEF Arrived

\* What has arrived, before and after a step.
LEMMA ArrivedIs ==
  \A o \in Order, p \in Part : /\ Arrived(o, p) = ArrivedIn(receipt, o, p)
                               /\ Arrived(o, p)' = ArrivedIn(receipt', o, p)
BY DEF Arrived, ReceiptQty, ArrivedIn

\* A task that has read goes on holding.
LEMMA TaskKept ==
  ASSUME TypeOK, TypeOK', Rows, Grows, NEW t \in Task, Reads(t, request, order, receipt), Writes(t, order, receipt),
         t.op = "received" => receipt'[t.receipt].status = "draft"
  PROVE  Reads(t, request', order', receipt') /\ Writes(t, order', receipt')
<1>1. \A o \in Order, p \in Part :
        /\ ArrivedIn(receipt, o, p) \in Nat /\ ArrivedIn(receipt', o, p) \in Nat
        /\ ArrivedIn(receipt', o, p) >= ArrivedIn(receipt, o, p)
  BY ArrivedIs, ArrivedType, ArrivedTypeNext DEF Grows
<1>2. CASE t.op = "receiving"
  <2>1. t.receipt \in Receipt /\ t.seen \in [Part -> Nat] /\ receipt[t.receipt].status # "none"
    BY <1>2, TaskKinds DEF Reads
  <2>2. /\ receipt[t.receipt].order \in Order /\ receipt'[t.receipt].status # "none"
        /\ receipt'[t.receipt].order = receipt[t.receipt].order
    BY <2>1 DEF Rows, Grows
  <2>3. \A p \in Part : t.seen[p] <= ArrivedIn(receipt, receipt[t.receipt].order, p)
    BY <1>2 DEF Reads
  <2>4. ASSUME NEW p \in Part PROVE t.seen[p] <= ArrivedIn(receipt', receipt[t.receipt].order, p)
    <3>1. t.seen[p] \in Nat
      BY <2>1
    <3> QED
      BY <1>1, <2>2, <2>3, <3>1
  <2>5. \A p \in Part : t.seen[p] <= ArrivedIn(receipt', receipt'[t.receipt].order, p)
    BY <2>2, <2>4
  <2> QED
    BY <1>2, <2>2, <2>5 DEF Reads, Writes
<1>3. CASE t.op = "received"
  <2> DEFINE g == t.receipt
             o == receipt[t.receipt].order
  <2>1. g \in Receipt /\ t.written \in [Part -> Nat] /\ receipt[g].status = "draft"
    BY <1>3, TaskKinds DEF Writes
  <2>2. o \in Order /\ order[o].status \in Opened
    BY <2>1 DEF Rows
  <2>3. receipt'[g].order = o /\ receipt'[g].lines = receipt[g].lines
    BY <2>1 DEF Grows
  <2>4. order'[o].ordered = order[o].ordered
    BY <2>2 DEF Grows, Opened
  <2>5. \A p \in Part : QtyOf(receipt[g].lines, p) \in Nat
    BY <2>1, QtyOfLines DEF TypeOK
  <2>6. /\ \A p \in Part : t.written[p] <= ArrivedIn(receipt, o, p) + QtyOf(receipt[g].lines, p)
        /\ t.next # t.status => t.next \in {"received", "partially_received"}
        /\ t.next # t.status /\ t.next = "received" => Complete(order[o].ordered, t.written)
    BY <1>3 DEF Writes
  <2>7. ASSUME NEW p \in Part
        PROVE  t.written[p] <= ArrivedIn(receipt', o, p) + QtyOf(receipt[g].lines, p)
    <3>1. t.written[p] \in Nat
      BY <2>1
    <3> HIDE DEF o, g
    <3> QED
      BY <1>1, <2>2, <2>5, <2>6, <3>1
  <2>8. /\ \A p \in Part : t.written[p] <= ArrivedIn(receipt', receipt'[g].order, p)
                                             + QtyOf(receipt'[g].lines, p)
        /\ t.next # t.status /\ t.next = "received" =>
             Complete(order'[receipt'[g].order].ordered, t.written)
    BY <2>3, <2>4, <2>6, <2>7
  <2> QED
    BY <1>3, <2>6, <2>8 DEF Reads, Writes
<1>4. CASE t.op \notin {"receiving", "received"}
  <2>1. Writes(t, order', receipt')
    BY <1>4 DEF Writes
  <2>2. ASSUME t.op = "order request", t.status = "ordered"
        PROVE  request'[t.request].status \in Passed
    BY <2>2, TaskKinds DEF Reads, Grows
  <2>3. ASSUME t.op = "cancel order" PROVE order'[t.order].status # "none"
    BY <2>3, TaskKinds DEF Reads, Grows
  <2>4. ASSUME t.op = "receive" PROVE receipt'[t.receipt].status # "none"
    BY <2>4, TaskKinds DEF Reads, Grows
  <2> QED
    BY <1>4, <2>1, <2>2, <2>3, <2>4 DEF Reads
<1> QED
  BY <1>2, <1>3, <1>4

\* When the receipts that other clerks commit stay drafts, only the task that
\* changes has to be looked at.
LEMMA TasksKept ==
  ASSUME TypeOK, TypeOK', Rows, Grows, Tasks, Exclusive, NEW c \in Clerk, NEW t \in Task,
         task'[c] = t, \A d \in Clerk : d # c => task'[d] = task[d],
         Reads(t, request', order', receipt'), Writes(t, order', receipt'),
         \A d \in Clerk : d # c /\ task[d].op = "received" =>
           /\ receipt'[task[d].receipt].status = "draft"
           /\ t.op = "received" => task[d].receipt # t.receipt
  PROVE  Tasks' /\ Exclusive'
<1>1. ASSUME NEW d \in Clerk PROVE Reads(task'[d], request', order', receipt') /\ Writes(task'[d], order', receipt')
  <2>1. PICK u : u = task'[d]
    OBVIOUS
  <2>2. Reads(u, request', order', receipt') /\ Writes(u, order', receipt')
    <3>1. CASE d = c
      BY <2>1, <3>1
    <3>2. CASE d # c
      <4>1. u = task[d] /\ u \in Task
        BY <2>1, <3>2 DEF TypeOK
      <4>2. Reads(u, request, order, receipt) /\ Writes(u, order, receipt)
        BY <4>1 DEF Tasks
      <4>3. u.op = "received" => receipt'[u.receipt].status = "draft"
        BY <3>2, <4>1
      <4> QED
        BY <4>1, <4>2, <4>3, TaskKept
    <3> QED
      BY <3>1, <3>2
  <2> QED
    BY <2>1, <2>2 DEF Reads, Writes
<1>2. Exclusive'
  BY DEF Exclusive
<1> QED
  BY <1>1, <1>2 DEF Tasks

\* The receipts in the tasks are all left alone.
LEMMA NoTaskChanges ==
  ASSUME TypeOK, TypeOK', Rows, Grows, Tasks, Exclusive, UNCHANGED task,
         \A g \in Receipt : receipt[g].status = "draft" => receipt'[g].status = "draft"
  PROVE  Tasks' /\ Exclusive'
<1>1. \A d \in Clerk : task[d].op = "received" => receipt'[task[d].receipt].status = "draft"
  BY TaskKinds DEF Tasks, Writes, TypeOK
<1>2. ASSUME NEW d \in Clerk PROVE Reads(task'[d], request', order', receipt') /\ Writes(task'[d], order', receipt')
  <2>1. PICK u : u = task[d]
    OBVIOUS
  <2>2. u \in Task /\ Reads(u, request, order, receipt) /\ Writes(u, order, receipt)
    BY <2>1 DEF TypeOK, Tasks
  <2>3. Reads(u, request', order', receipt') /\ Writes(u, order', receipt')
    BY <1>1, <2>1, <2>2, TaskKept
  <2>4. u = task'[d]
    BY <2>1
  <2> QED
    BY <2>3, <2>4 DEF Reads, Writes
<1> QED
  BY <1>2 DEF Tasks, Exclusive

\* A clerk at rest has read nothing.
LEMMA IdleHolds == Idle \in Task /\ Idle.op = "idle"
BY DEF Idle, Task

-----------------------------------------------------------------------------
\* Every step keeps what the tasks hold.
LEMMA TasksStep ==
  ASSUME TypeOK, TypeOK', Rows, Grows, Tasks, Exclusive, ReceivedArrived, [Next]_vars
  PROVE  Tasks' /\ Exclusive'
<1>1. ASSUME NEW c \in Clerk, NEW t \in Task, task'[c] = t,
             \A d \in Clerk : d # c => task'[d] = task[d],
             UNCHANGED receipt, Reads(t, request', order', receipt'), t.op # "received"
      PROVE  Tasks' /\ Exclusive'
  <2>1. \A d \in Clerk : task[d].op = "received" => receipt'[task[d].receipt].status = "draft"
    BY <1>1 DEF Tasks, Writes
  <2>2. Writes(t, order', receipt')
    BY <1>1 DEF Writes
  <2> QED
    BY <1>1, <2>1, <2>2, TasksKept
<1>2. ASSUME UNCHANGED <<task, receipt>> PROVE Tasks' /\ Exclusive'
  BY <1>2, NoTaskChanges
<1>3. ASSUME NEW c \in Clerk, UNCHANGED receipt, End(c) PROVE Tasks' /\ Exclusive'
  <2>1. task'[c] = Idle /\ \A d \in Clerk : d # c => task'[d] = task[d]
    BY <1>3, Ended DEF TypeOK
  <2>2. PICK t : t = Idle
    OBVIOUS
  <2>3. t \in Task /\ t.op = "idle"
    BY <2>2, IdleHolds
  <2>4. Reads(t, request', order', receipt')
    BY <2>3 DEF Reads
  <2> QED
    BY <1>1, <1>3, <2>1, <2>2, <2>3, <2>4
<1>4. ASSUME NEW c \in Clerk, NEW t \in Task, Begin(c, t), UNCHANGED receipt, Reads(t, request', order', receipt'),
             t.op # "received"
      PROVE  Tasks' /\ Exclusive'
  <2>1. task'[c] = t /\ \A d \in Clerk : d # c => task'[d] = task[d]
    BY <1>4, Begun DEF TypeOK
  <2> QED
    BY <1>1, <1>4, <2>1
<1>5. ASSUME NEW c \in Clerk, NEW q \in Quotation, CheckQuotation(c, q)
      PROVE  Tasks' /\ Exclusive'
  <2>1. PICK t : t = [op |-> "new request", quote |-> q]
    OBVIOUS
  <2>2. t \in Task /\ t.op = "new request"
    BY <2>1 DEF Task
  <2>3. Reads(t, request', order', receipt')
    BY <2>2 DEF Reads
  <2> QED
    BY <1>4, <1>5, <2>1, <2>2, <2>3 DEF CheckQuotation
<1>6. ASSUME NEW c \in Clerk, NEW r \in Request, CheckRequest(c, r)
      PROVE  Tasks' /\ Exclusive'
  <2>1. PICK t : t = [op |-> "new order", request |-> r]
    OBVIOUS
  <2>2. t \in Task /\ t.op = "new order"
    BY <2>1 DEF Task
  <2>3. Reads(t, request', order', receipt')
    BY <2>2 DEF Reads
  <2> QED
    BY <1>4, <1>6, <2>1, <2>2, <2>3 DEF CheckRequest
<1>7. ASSUME NEW c \in Clerk, ReadRequest(c) PROVE Tasks' /\ Exclusive'
  <2>1. PICK t : t = [op |-> "order request", request |-> task[c].request,
                      status |-> request[task[c].request].status]
    OBVIOUS
  <2>2. task[c].op = "new order" /\ task[c].request \in Request
    BY <1>7, TaskKinds DEF ReadRequest, TypeOK
  <2>3. /\ t \in Task /\ t.op = "order request"
        /\ t.status = request[t.request].status /\ t.status \in {"approved", "ordered"}
    BY <1>7, <2>1, <2>2 DEF ReadRequest, TypeOK, Task
  <2>4. UNCHANGED <<request, receipt>> /\ task' = [task EXCEPT ![c] = t]
    BY <1>7, <2>1 DEF ReadRequest
  <2>5. Reads(t, request', order', receipt')
    BY <2>3, <2>4 DEF Reads, Passed
  <2>6. task'[c] = t /\ \A d \in Clerk : d # c => task'[d] = task[d]
    BY <2>3, <2>4, TaskTo DEF TypeOK
  <2> QED
    BY <1>1, <2>3, <2>4, <2>5, <2>6
<1>8. ASSUME NEW c \in Clerk, NEW o \in Order, CheckCancel(c, o) PROVE Tasks' /\ Exclusive'
  <2>1. PICK t : t = [op |-> "cancel order", order |-> o]
    OBVIOUS
  <2>2. t \in Task /\ t.op = "cancel order" /\ t.order = o
    BY <2>1 DEF Task
  <2>3. UNCHANGED <<order, receipt>> /\ order[o].status # "none" /\ Begin(c, t)
    BY <1>8, <2>1 DEF CheckCancel
  <2>4. Reads(t, request', order', receipt')
    BY <2>2, <2>3 DEF Reads
  <2> QED
    BY <1>4, <2>2, <2>3, <2>4
<1>9. ASSUME NEW c \in Clerk, NEW g \in Receipt, CheckReceive(c, g) PROVE Tasks' /\ Exclusive'
  <2>1. PICK t : t = [op |-> "receive", receipt |-> g]
    OBVIOUS
  <2>2. t \in Task /\ t.op = "receive" /\ t.receipt = g
    BY <2>1 DEF Task
  <2>3. UNCHANGED receipt /\ receipt[g].status = "draft" /\ Begin(c, t)
    BY <1>9, <2>1 DEF CheckReceive
  <2>4. Reads(t, request', order', receipt')
    BY <2>2, <2>3 DEF Reads
  <2> QED
    BY <1>4, <2>2, <2>3, <2>4
<1>10. ASSUME NEW c \in Clerk, ReadOrder(c) PROVE Tasks' /\ Exclusive'
  <2> DEFINE g == task[c].receipt
             o == receipt[g].order
  <2>1. PICK t : t = [op |-> "receiving", receipt |-> g, seen |-> order[o].received,
                      status |-> order[o].status]
    OBVIOUS
  <2>2. task[c].op = "receive" /\ g \in Receipt /\ receipt[g].status # "none" /\ o \in Order
    <3>1. task[c].op = "receive"
      BY <1>10 DEF ReadOrder
    <3>2. g \in Receipt /\ receipt[g].status # "none"
      BY <3>1, TaskKinds DEF Tasks, Reads, TypeOK
    <3> QED
      BY <3>1, <3>2 DEF Rows
  <2>3. UNCHANGED <<request, order, receipt>> /\ task' = [task EXCEPT ![c] = t]
    BY <1>10, <2>1 DEF ReadOrder
  <2>4. t \in Task /\ t.op = "receiving" /\ t.receipt = g /\ t.seen = order[o].received
    BY <2>1, <2>2 DEF TypeOK, Task
  <2>5. Reads(t, request', order', receipt')
    <3>1. \A p \in Part : t.seen[p] <= ArrivedIn(receipt, o, p)
      BY <2>2, <2>4, ArrivedIs DEF ReceivedArrived
    <3>2. \A p \in Part : t.seen[p] <= ArrivedIn(receipt', o, p)
      BY <2>3, <3>1
    <3>3. receipt'[t.receipt].order = o /\ receipt'[t.receipt].status # "none"
      BY <2>2, <2>3, <2>4
    <3> HIDE DEF o, g
    <3> QED
      BY <2>4, <3>2, <3>3 DEF Reads
  <2>6. task'[c] = t /\ \A d \in Clerk : d # c => task'[d] = task[d]
    BY <2>3, <2>4, TaskTo DEF TypeOK
  <2> QED
    BY <1>1, <2>3, <2>4, <2>5, <2>6
<1>11. ASSUME NEW c \in Clerk, WriteLines(c) PROVE Tasks' /\ Exclusive'
  <2> DEFINE g == task[c].receipt
             o == receipt[g].order
             lines == receipt[g].lines
             items == [p \in Part |-> IF p \in PartsOf(lines)
                                        THEN task[c].seen[p] + LastQty(lines, p)
                                        ELSE order[o].received[p]]
  <2>1. PICK t : t = [op |-> "received", receipt |-> g, written |-> items,
                      status |-> task[c].status,
                      next |-> NextStatus(o, items, task[c].status)]
    OBVIOUS
  <2>2. task[c].op = "receiving" /\ receipt[g].status = "draft" /\ ~Blocked(c, g)
        /\ UNCHANGED <<request, order, receipt>> /\ task' = [task EXCEPT ![c] = t]
    BY <1>11, <2>1 DEF WriteLines
  <2>3. g \in Receipt /\ o \in Order /\ task[c].seen \in [Part -> Nat]
        /\ task[c].status \in OrderStatus /\ lines \in Lines
    BY <2>2, TaskKinds DEF Rows, TypeOK
  <2>4. items \in [Part -> Nat]
    BY <2>3, WrittenType
  <2>5. NextStatus(o, items, task[c].status) \in OrderStatus
    BY <2>3 DEF NextStatus, OrderStatus
  <2>6. \A p \in Part : items[p] <= ArrivedIn(receipt, o, p) + QtyOf(lines, p)
    <3> TAKE p \in Part
    <3>1. QtyOf(lines, p) \in Nat /\ ArrivedIn(receipt, o, p) \in Nat
      BY <2>3, QtyOfLines, ArrivedType, ArrivedIs
    <3>2. CASE p \in PartsOf(lines)
      <4>1. LastQty(lines, p) \in Nat /\ LastQty(lines, p) <= QtyOf(lines, p)
        BY <2>3, <3>2, LastQtyOfLines
      <4>2. task[c].seen[p] <= ArrivedIn(receipt, o, p) /\ task[c].seen[p] \in Nat
        BY <2>2, <2>3 DEF Tasks, Reads
      <4>3. items[p] = task[c].seen[p] + LastQty(lines, p)
        BY <3>2
      <4> HIDE DEF items, lines, o, g
      <4> QED
        BY <3>1, <4>1, <4>2, <4>3
    <3>3. CASE p \notin PartsOf(lines)
      <4>1. order[o].received[p] <= ArrivedIn(receipt, o, p) /\ order[o].received[p] \in Nat
        BY <2>3, ArrivedIs DEF ReceivedArrived, TypeOK
      <4>2. items[p] = order[o].received[p]
        BY <3>3
      <4> HIDE DEF items, lines, o, g
      <4> QED
        BY <3>1, <4>1, <4>2
    <3> QED
      BY <3>2, <3>3
  <2>7. LET n == NextStatus(o, items, task[c].status)
        IN  /\ n # task[c].status => n \in {"received", "partially_received"}
            /\ n # task[c].status /\ n = "received" => Complete(order[o].ordered, items)
    BY DEF NextStatus
  <2> HIDE DEF items
  <2>9. /\ t \in Task /\ t.op = "received" /\ t.receipt = g /\ t.written = items
        /\ t.status = task[c].status /\ t.next = NextStatus(o, items, task[c].status)
    <3> HIDE DEF o, g
    <3> QED
      BY <2>1, <2>3, <2>4, <2>5 DEF Task
  <2>10. Writes(t, order', receipt')
    <3>1. receipt'[t.receipt].order = o /\ receipt'[t.receipt].lines = lines
          /\ receipt'[t.receipt].status = "draft" /\ order' = order
      BY <2>2, <2>9
    <3>2. \A p \in Part : t.written[p] <= ArrivedIn(receipt', o, p) + QtyOf(lines, p)
      BY <2>2, <2>6, <2>9
    <3>3. /\ t.next # t.status => t.next \in {"received", "partially_received"}
          /\ t.next # t.status /\ t.next = "received" => Complete(order'[o].ordered, t.written)
      BY <2>7, <2>9, <3>1
    <3> HIDE DEF o, lines, g
    <3> QED
      BY <3>1, <3>2, <3>3 DEF Writes
  <2>11. Reads(t, request', order', receipt')
    BY <2>9 DEF Reads
  <2>12. task'[c] = t /\ \A d \in Clerk : d # c => task'[d] = task[d]
    BY <2>2, <2>9, TaskTo DEF TypeOK
  <2>13. ASSUME NEW d \in Clerk, d # c, task[d].op = "received"
         PROVE  receipt'[task[d].receipt].status = "draft" /\ task[d].receipt # t.receipt
    <3>1. receipt[task[d].receipt].status = "draft"
      BY <2>13 DEF Tasks, Writes
    <3>2. task[d].receipt # g
      BY <2>2, <2>13 DEF Blocked
    <3> QED
      BY <2>2, <2>9, <3>1, <3>2
  <2> HIDE DEF o, lines, g
  <2> QED
    BY <2>9, <2>10, <2>11, <2>12, <2>13, TasksKept
<1>12. ASSUME NEW c \in Clerk, CommitReceive(c) PROVE Tasks' /\ Exclusive'
  <2>0. PICK g : g = task[c].receipt
    OBVIOUS
  <2>1. /\ task[c].op = "received" /\ g \in Receipt
        /\ \A h \in Receipt : h # g => receipt'[h] = receipt[h]
        /\ task'[c] = Idle /\ \A d \in Clerk : d # c => task'[d] = task[d]
    BY <1>12, <2>0, CommitTasks
  <2>2. ASSUME NEW d \in Clerk, d # c, task[d].op = "received"
        PROVE  receipt'[task[d].receipt].status = "draft"
    <3>1. task[d].receipt \in Receipt /\ receipt[task[d].receipt].status = "draft"
      BY <2>2, TaskKinds DEF Tasks, Writes, TypeOK
    <3>2. task[d].receipt # g
      BY <2>0, <2>1, <2>2 DEF Exclusive
    <3> QED
      BY <2>1, <3>1, <3>2
  <2>3. PICK t : t = Idle
    OBVIOUS
  <2>4. t \in Task /\ t.op = "idle"
    BY <2>3, IdleHolds
  <2>5. Reads(t, request', order', receipt') /\ Writes(t, order', receipt')
    BY <2>4 DEF Reads, Writes
  <2> QED
    BY <2>1, <2>2, <2>3, <2>4, <2>5, TasksKept
<1>13. ASSUME NEW g \in Receipt, NEW o \in Order, NEW lines \in Lines, CreateReceipt(g, o, lines)
       PROVE  Tasks' /\ Exclusive'
  <2>1. \A h \in Receipt : receipt[h].status = "draft" => receipt'[h].status = "draft"
    BY <1>13 DEF CreateReceipt, NextRow, TypeOK
  <2> QED
    BY <1>13, <2>1, NoTaskChanges DEF CreateReceipt
<1>14. ASSUME NEW c \in Clerk,
              \/ \E r \in Request : CreateRequest(c, r)
              \/ \E o \in Order, lines \in OrderedLines : CreateOrder(c, o, lines)
              \/ CancelOrder(c) \/ GiveUp(c)
       PROVE  Tasks' /\ Exclusive'
  BY <1>3, <1>14 DEF CreateRequest, CreateOrder, CancelOrder, GiveUp
<1>15. ASSUME \/ \E r \in Request : CreatePlainRequest(r)
              \/ \E r \in Request, to \in {"pending_approval", "approved", "cancelled"} :
                   MoveRequest(r, to)
              \/ \E o \in Order, lines \in OrderedLines : CreateDirectOrder(o, lines)
              \/ \E o \in Order, to \in {"pending_approval", "approved"} : MoveOrder(o, to)
              \/ UNCHANGED vars
       PROVE  Tasks' /\ Exclusive'
  BY <1>2, <1>15 DEF CreatePlainRequest, MoveRequest, CreateDirectOrder, MoveOrder, vars
<1> QED
  BY <1>5, <1>6, <1>7, <1>8, <1>9, <1>10, <1>11, <1>12, <1>13, <1>14, <1>15
  DEF Next, RequestNext, OrderNext, ReceiptNext

-----------------------------------------------------------------------------
\* The receipt whose commit a step is, and what it adds.
LEMMA CommitWrites ==
  ASSUME TypeOK, TypeOK', Rows, Tasks, NEW c \in Clerk, CommitReceive(c),
         NEW g, g = task[c].receipt, NEW o, o = receipt[g].order, NEW p \in Part
  PROVE  /\ Arrived(o, p) \in Nat /\ QtyOf(receipt[g].lines, p) \in Nat
         /\ Arrived(o, p)' = Arrived(o, p) + QtyOf(receipt[g].lines, p)
         /\ task[c].written[p] \in Nat
         /\ task[c].written[p] <= Arrived(o, p) + QtyOf(receipt[g].lines, p)
<1>1. task[c].op = "received" /\ o \in Order /\ g \in Receipt
  BY CommitRows
<1>2. task[c].written \in [Part -> Nat]
  BY <1>1, TaskKinds DEF TypeOK
<1>3. \A q \in Part : task[c].written[q] <= ArrivedIn(receipt, o, q) + QtyOf(receipt[g].lines, q)
  BY <1>1 DEF Tasks, Writes
<1>4. Arrived(o, p) \in Nat /\ Arrived(o, p) = ArrivedIn(receipt, o, p)
  BY <1>1, ArrivedType, ArrivedIs
<1>5. /\ QtyOf(receipt[g].lines, p) \in Nat
      /\ Arrived(o, p)' = Arrived(o, p) + (IF o = o THEN QtyOf(receipt[g].lines, p) ELSE 0)
  BY <1>1, CommitArrives
<1> QED
  BY <1>2, <1>3, <1>4, <1>5

\* Whether an order or receipts change other than by a commit.
LEMMA OtherSteps ==
  ASSUME TypeOK, Tasks, [Next]_vars, ~\E c \in Clerk : CommitReceive(c)
  PROVE  /\ \A u \in Order, p \in Part : Arrived(u, p)' = Arrived(u, p)
         /\ UNCHANGED shelved
         /\ \A u \in Order : order[u].status # "none" =>
              order'[u].received = order[u].received
         /\ \A u \in Order : order[u].status = "none" =>
              order'[u].received \in {order[u].received, Nothing}
         /\ \A u \in Order : order'[u].status = "received" => order[u].status = "received"
         /\ \A r \in Request : request'[r].status = "received" => request[r].status = "received"
<1>1. ASSUME UNCHANGED receipt PROVE \A u \in Order, p \in Part : Arrived(u, p)' = Arrived(u, p)
  BY <1>1, ArrivedSame DEF ReceiptQty
<1>2. ASSUME NEW g \in Receipt, NEW o \in Order, NEW lines \in Lines, CreateReceipt(g, o, lines)
      PROVE  \A u \in Order, p \in Part : Arrived(u, p)' = Arrived(u, p)
  <2>1. /\ receipt[g].status = "none" /\ receipt'[g].status = "draft"
        /\ \A h \in Receipt : h # g => receipt'[h] = receipt[h]
    BY <1>2 DEF CreateReceipt, NextRow, TypeOK
  <2>2. \A h \in Receipt, u \in Order, p \in Part : ReceiptQty(h, u, p)' = ReceiptQty(h, u, p)
    <3> TAKE h \in Receipt, u \in Order, p \in Part
    <3>1. CASE h = g
      BY <2>1, <3>1 DEF ReceiptQty
    <3>2. CASE h # g
      BY <2>1, <3>2 DEF ReceiptQty
    <3> QED
      BY <3>1, <3>2
  <2> QED
    BY <2>2, ArrivedSame
<1>3. ASSUME NEW o \in Order, NEW to, to # "received",
             order' = [order EXCEPT ![o].status = to]
      PROVE  \A u \in Order : /\ order'[u].received = order[u].received
                              /\ order'[u].status = "received" => order[u].status = "received"
  BY <1>3 DEF TypeOK
<1>4. ASSUME NEW o \in Order, NEW row, row.status = "new", row.received = Nothing,
             NextRow(order, o), order' = [order EXCEPT ![o] = row]
      PROVE  \A u \in Order :
               /\ order[u].status # "none" => order'[u].received = order[u].received
               /\ order'[u].received \in {order[u].received, Nothing}
               /\ order'[u].status = "received" => order[u].status = "received"
  BY <1>4 DEF TypeOK, NextRow
<1>5. CASE UNCHANGED vars
  BY <1>1, <1>5 DEF vars
<1>6. ASSUME NEW c \in Clerk, NEW r \in Request, CreateRequest(c, r)
      PROVE  /\ UNCHANGED <<order, receipt, shelved>>
             /\ \A q \in Request : request'[q].status = "received" => request[q].status = "received"
  BY <1>6 DEF CreateRequest, TypeOK
<1>7. ASSUME NEW r \in Request, CreatePlainRequest(r)
      PROVE  /\ UNCHANGED <<order, receipt, shelved>>
             /\ \A q \in Request : request'[q].status = "received" => request[q].status = "received"
  BY <1>7 DEF CreatePlainRequest, TypeOK
<1>8. ASSUME NEW r \in Request, NEW to \in {"pending_approval", "approved", "cancelled"},
             MoveRequest(r, to)
      PROVE  /\ UNCHANGED <<order, receipt, shelved>>
             /\ \A q \in Request : request'[q].status = "received" => request[q].status = "received"
  BY <1>8 DEF MoveRequest, TypeOK
<1>9. ASSUME NEW c \in Clerk, CancelOrder(c)
      PROVE  /\ UNCHANGED <<request, receipt, shelved>>
             /\ \A u \in Order : /\ order'[u].received = order[u].received
                                 /\ order'[u].status = "received" => order[u].status = "received"
  <2>1. task[c].order \in Order
    BY <1>9, TaskKinds DEF CancelOrder, TypeOK
  <2> QED
    BY <1>3, <1>9, <2>1 DEF CancelOrder
<1>10. ASSUME NEW o \in Order, NEW to \in {"pending_approval", "approved"}, MoveOrder(o, to)
       PROVE  /\ UNCHANGED <<request, receipt, shelved>>
              /\ \A u \in Order : /\ order'[u].received = order[u].received
                                  /\ order'[u].status = "received" => order[u].status = "received"
  BY <1>3, <1>10 DEF MoveOrder
<1>11. ASSUME NEW c \in Clerk, NEW o \in Order, NEW lines \in OrderedLines, CreateOrder(c, o, lines)
       PROVE  /\ UNCHANGED <<receipt, shelved>>
              /\ \A u \in Order :
                   /\ order[u].status # "none" => order'[u].received = order[u].received
                   /\ order'[u].received \in {order[u].received, Nothing}
                   /\ order'[u].status = "received" => order[u].status = "received"
              /\ \A q \in Request : request'[q].status = "received" => request[q].status = "received"
  <2> DEFINE row == [status |-> "new", request |-> task[c].request, ordered |-> lines,
                     received |-> Nothing]
  <2>1. NextRow(order, o) /\ order' = [order EXCEPT ![o] = row] /\ UNCHANGED <<receipt, shelved>>
    BY <1>11 DEF CreateOrder
  <2>2. row.status = "new" /\ row.received = Nothing
    OBVIOUS
  <2>3. \A q \in Request : request'[q].status = "received" => request[q].status = "received"
    <3>1. CASE request' = request
      BY <3>1
    <3>2. CASE request' = [request EXCEPT ![task[c].request].status = "ordered"]
      BY <3>2 DEF TypeOK
    <3> QED
      BY <1>11, <3>1, <3>2 DEF CreateOrder
  <2> HIDE DEF row
  <2>4. \A u \in Order :
          /\ order[u].status # "none" => order'[u].received = order[u].received
          /\ order'[u].received \in {order[u].received, Nothing}
          /\ order'[u].status = "received" => order[u].status = "received"
    BY <1>4, <2>1, <2>2
  <2> QED
    BY <2>1, <2>3, <2>4
<1>12. ASSUME NEW o \in Order, NEW lines \in OrderedLines, CreateDirectOrder(o, lines)
       PROVE  /\ UNCHANGED <<request, receipt, shelved>>
              /\ \A u \in Order :
                   /\ order[u].status # "none" => order'[u].received = order[u].received
                   /\ order'[u].received \in {order[u].received, Nothing}
                   /\ order'[u].status = "received" => order[u].status = "received"
  <2> DEFINE row == [status |-> "new", request |-> NoRequest, ordered |-> lines,
                     received |-> Nothing]
  <2>1. NextRow(order, o) /\ order' = [order EXCEPT ![o] = row]
        /\ UNCHANGED <<request, receipt, shelved>>
    BY <1>12 DEF CreateDirectOrder
  <2>2. row.status = "new" /\ row.received = Nothing
    OBVIOUS
  <2> HIDE DEF row
  <2> QED
    BY <1>4, <2>1, <2>2
<1>13. ASSUME NEW c \in Clerk,
              \/ \E q \in Quotation : CheckQuotation(c, q)
              \/ \E r \in Request : CheckRequest(c, r)
              \/ \E o \in Order : CheckCancel(c, o)
              \/ \E g \in Receipt : CheckReceive(c, g)
              \/ ReadRequest(c) \/ ReadOrder(c) \/ WriteLines(c) \/ GiveUp(c)
       PROVE  UNCHANGED <<request, order, receipt, shelved>>
  BY <1>13 DEF CheckQuotation, CheckRequest, CheckCancel, CheckReceive, ReadRequest,
               ReadOrder, WriteLines, GiveUp
<1>14. ASSUME NEW g \in Receipt, NEW o \in Order, NEW lines \in Lines, CreateReceipt(g, o, lines)
       PROVE  UNCHANGED <<request, order, shelved>>
  BY <1>14 DEF CreateReceipt
<1>15. ASSUME \E g \in Receipt, o \in Order, lines \in Lines : CreateReceipt(g, o, lines)
       PROVE  /\ \A u \in Order, p \in Part : Arrived(u, p)' = Arrived(u, p)
              /\ UNCHANGED <<request, order, shelved>>
  BY <1>2, <1>14, <1>15
<1>16. CASE \E c \in Clerk, o \in Order, lines \in OrderedLines : CreateOrder(c, o, lines)
  BY <1>1, <1>11, <1>16
<1>17. CASE \E o \in Order, lines \in OrderedLines : CreateDirectOrder(o, lines)
  BY <1>1, <1>12, <1>17
<1>18. CASE \/ \E c \in Clerk : CancelOrder(c)
            \/ \E o \in Order, to \in {"pending_approval", "approved"} : MoveOrder(o, to)
  BY <1>1, <1>9, <1>10, <1>18
<1>19. CASE \/ \E c \in Clerk, r \in Request : CreateRequest(c, r)
            \/ \E r \in Request : CreatePlainRequest(r)
            \/ \E r \in Request, to \in {"pending_approval", "approved", "cancelled"} :
                 MoveRequest(r, to)
  BY <1>1, <1>6, <1>7, <1>8, <1>19
<1>20. CASE \E c \in Clerk :
              \/ \E q \in Quotation : CheckQuotation(c, q)
              \/ \E r \in Request : CheckRequest(c, r)
              \/ \E o \in Order : CheckCancel(c, o)
              \/ \E g \in Receipt : CheckReceive(c, g)
              \/ ReadRequest(c) \/ ReadOrder(c) \/ WriteLines(c) \/ GiveUp(c)
  BY <1>1, <1>13, <1>20
<1>21. CASE \E g \in Receipt, o \in Order, lines \in Lines : CreateReceipt(g, o, lines)
  BY <1>15, <1>21
<1> QED
  BY <1>5, <1>16, <1>17, <1>18, <1>19, <1>20, <1>21
  DEF Next, RequestNext, OrderNext, ReceiptNext

-----------------------------------------------------------------------------
\* What is fulfilled stays so.
LEMMA FulfilledKept ==
  ASSUME TypeOK, TypeOK', Grows, NEW u \in Order, order[u].status # "none", Fulfilled(u)
  PROVE  Fulfilled(u)'
<1>1. order'[u].ordered = order[u].ordered /\ order[u].ordered \in [Part -> Nat]
  BY DEF Grows, TypeOK
<1>2. ASSUME NEW p \in Part PROVE order'[u].ordered[p] <= Arrived(u, p)'
  <2>1. Arrived(u, p) \in Nat /\ Arrived(u, p)' \in Nat /\ Arrived(u, p)' >= Arrived(u, p)
    BY ArrivedType, ArrivedTypeNext DEF Grows
  <2>2. order[u].ordered[p] <= Arrived(u, p) /\ order[u].ordered[p] \in Nat
    BY <1>1 DEF Fulfilled
  <2> QED
    BY <1>1, <2>1, <2>2
<1> QED
  BY <1>2 DEF Fulfilled

\* A complete order is fulfilled by its commit.
LEMMA CommitFulfils ==
  ASSUME TypeOK, TypeOK', Rows, Tasks, Grows, NEW c \in Clerk, CommitReceive(c),
         NEW g, g = task[c].receipt, NEW o, o = receipt[g].order,
         Complete(order[o].ordered, task[c].written)
  PROVE  o \in Order /\ order[o].status \in Opened /\ Fulfilled(o)'
<1>1. o \in Order /\ order[o].status \in Opened /\ order'[o].ordered = order[o].ordered
  BY CommitRows
<1>2. order[o].ordered \in [Part -> Nat]
  BY <1>1 DEF TypeOK
<1>3. ASSUME NEW p \in Part PROVE order'[o].ordered[p] <= Arrived(o, p)'
  <2>1. /\ Arrived(o, p) \in Nat /\ QtyOf(receipt[g].lines, p) \in Nat
        /\ Arrived(o, p)' = Arrived(o, p) + QtyOf(receipt[g].lines, p)
        /\ task[c].written[p] \in Nat
        /\ task[c].written[p] <= Arrived(o, p) + QtyOf(receipt[g].lines, p)
    BY CommitWrites
  <2>2. order[o].ordered[p] <= task[c].written[p] /\ order[o].ordered[p] \in Nat
    BY <1>2 DEF Complete
  <2>3. PICK k, m, w, q, b : /\ k = order[o].ordered[p] /\ m = Arrived(o, p)
                             /\ w = task[c].written[p] /\ q = QtyOf(receipt[g].lines, p)
                             /\ b = Arrived(o, p)'
    OBVIOUS
  <2>4. k <= w /\ w <= m + q /\ b = m + q /\ k \in Nat /\ m \in Nat /\ w \in Nat /\ q \in Nat
    BY <2>1, <2>2, <2>3
  <2>5. k <= b
    BY <2>4
  <2>6. order[o].ordered[p] <= Arrived(o, p)'
    BY <2>3, <2>5
  <2> QED
    BY <1>1, <2>6
<1> QED
  BY <1>1, <1>3 DEF Fulfilled

\* The shelf gains what the receipts gain.
LEMMA ShelvedStep ==
  ASSUME TypeOK, TypeOK', Rows, Tasks, ShelvedOnce, [Next]_vars
  PROVE  ShelvedOnce'
<1> USE PurchasingAssumption
<1>1. CASE ~\E c \in Clerk : CommitReceive(c)
  <2>1. /\ \A u \in Order, p \in Part : Arrived(u, p)' = Arrived(u, p)
        /\ UNCHANGED shelved
    BY <1>1, OtherSteps
  <2>2. ASSUME NEW p \in Part
        PROVE  shelved'[p] = SumTo([u \in Order |-> Arrived(u, p)'], MaxOrders)
    <3>1. [u \in Order |-> Arrived(u, p)'] = [u \in Order |-> Arrived(u, p)]
      BY <2>1
    <3> QED
      BY <2>1, <3>1 DEF ShelvedOnce
  <2> QED
    BY <2>2 DEF ShelvedOnce
<1>2. ASSUME NEW c \in Clerk, CommitReceive(c) PROVE ShelvedOnce'
  <2>0. PICK g, o : g = task[c].receipt /\ o = receipt[g].order
    OBVIOUS
  <2>1. o \in Order
    BY <1>2, <2>0, CommitRows
  <2>2. \A u \in Order, p \in Part :
          /\ QtyOf(receipt[g].lines, p) \in Nat
          /\ Arrived(u, p)' = Arrived(u, p) + (IF u = o THEN QtyOf(receipt[g].lines, p) ELSE 0)
    BY <1>2, <2>0, CommitArrives
  <2>3. shelved' = [p \in Part |-> shelved[p] + QtyOf(receipt[g].lines, p)]
    BY <1>2, <2>0 DEF CommitReceive
  <2>4. ASSUME NEW p \in Part
        PROVE  shelved'[p] = SumTo([u \in Order |-> Arrived(u, p)'], MaxOrders)
    <3> DEFINE x == [u \in Order |-> Arrived(u, p)]
               y == [u \in Order |-> Arrived(u, p)']
               q == QtyOf(receipt[g].lines, p)
    <3>1. \A u \in Order : Arrived(u, p) \in Nat /\ Arrived(u, p)' \in Nat
      BY ArrivedType, ArrivedTypeNext
    <3>2. x \in [1..MaxOrders -> Int] /\ y \in [1..MaxOrders -> Int]
      BY <3>1 DEF Order
    <3>3. /\ o \in 1..MaxOrders /\ q \in Nat /\ y[o] = x[o] + q
          /\ \A u \in 1..MaxOrders : u # o => y[u] = x[u]
      <4>1. \A u \in Order : u # o => Arrived(u, p)' = Arrived(u, p)
        BY <2>2, <3>1
      <4>2. q \in Nat /\ Arrived(o, p)' = Arrived(o, p) + q
        BY <2>1, <2>2
      <4> QED
        BY <2>1, <4>1, <4>2 DEF Order
    <3>4. SumTo(x, MaxOrders) = shelved[p] /\ shelved[p] \in Nat
      BY DEF ShelvedOnce, TypeOK
    <3>5. shelved'[p] = shelved[p] + q
      BY <2>3
    <3>6. x[o] \in Int /\ y[o] \in Int
      BY <3>2, <3>3
    <3> HIDE DEF x, y, q
    <3>7. SumTo(y, MaxOrders) = SumTo(x, MaxOrders) + (y[o] - x[o])
      BY <3>2, <3>3, SumToUpdate
    <3>8. SumTo(y, MaxOrders) = shelved'[p]
      BY <3>3, <3>4, <3>5, <3>6, <3>7
    <3> QED
      BY <3>8 DEF y
  <2> QED
    BY <2>4 DEF ShelvedOnce
<1> QED
  BY <1>1, <1>2

\* Orders claim what has arrived.
LEMMA ArrivedStep ==
  ASSUME TypeOK, TypeOK', Rows, Tasks, Grows, ReceivedArrived, [Next]_vars
  PROVE  ReceivedArrived'
<1>1. \A u \in Order, p \in Part :
        /\ Arrived(u, p) \in Nat /\ Arrived(u, p)' \in Nat /\ Arrived(u, p)' >= Arrived(u, p)
        /\ order[u].received[p] \in Nat /\ order[u].received[p] <= Arrived(u, p)
  BY ArrivedType, ArrivedTypeNext DEF Grows, ReceivedArrived, TypeOK
<1>2. CASE ~\E c \in Clerk : CommitReceive(c)
  <2>1. \A u \in Order : order'[u].received \in {order[u].received, Nothing}
    BY <1>2, OtherSteps
  <2>2. ASSUME NEW u \in Order, NEW p \in Part PROVE order'[u].received[p] <= Arrived(u, p)'
    <3>1. CASE order'[u].received = order[u].received
      BY <1>1, <3>1
    <3>2. CASE order'[u].received = Nothing
      BY <1>1, <3>2 DEF Nothing
    <3> QED
      BY <2>1, <3>1, <3>2
  <2> QED
    BY <2>2 DEF ReceivedArrived
<1>3. ASSUME NEW c \in Clerk, CommitReceive(c) PROVE ReceivedArrived'
  <2>0. PICK g, o : g = task[c].receipt /\ o = receipt[g].order
    OBVIOUS
  <2>1. /\ o \in Order /\ \A u \in Order : u # o => order'[u] = order[u]
        /\ \A p \in Part : order'[o].received[p] =
             IF p \in PartsOf(receipt[g].lines) THEN task[c].written[p]
             ELSE order[o].received[p]
    BY <1>3, <2>0, CommitRows
  <2>2. ASSUME NEW u \in Order, NEW p \in Part PROVE order'[u].received[p] <= Arrived(u, p)'
    <3>1. CASE u # o \/ p \notin PartsOf(receipt[g].lines)
      <4>1. order'[u].received[p] = order[u].received[p]
        BY <2>1, <3>1
      <4> QED
        BY <1>1, <4>1
    <3>2. CASE u = o /\ p \in PartsOf(receipt[g].lines)
      <4>1. order'[u].received[p] = task[c].written[p]
        BY <2>1, <3>2
      <4>2. /\ Arrived(o, p)' = Arrived(o, p) + QtyOf(receipt[g].lines, p)
            /\ task[c].written[p] <= Arrived(o, p) + QtyOf(receipt[g].lines, p)
        BY <1>3, <2>0, CommitWrites
      <4> QED
        BY <3>2, <4>1, <4>2
    <3> QED
      BY <3>1, <3>2
  <2> QED
    BY <2>2 DEF ReceivedArrived
<1> QED
  BY <1>2, <1>3

\* Orders and requests are received when fulfilled.
LEMMA FulfilledStep ==
  ASSUME TypeOK, TypeOK', Rows, Tasks, Grows, ReceivedIsFulfilled, [Next]_vars
  PROVE  ReceivedIsFulfilled'
<1>1. ASSUME NEW u \in Order, order[u].status = "received" PROVE Fulfilled(u)'
  BY <1>1, FulfilledKept DEF ReceivedIsFulfilled
<1>2. ASSUME NEW r \in Request, request[r].status = "received"
      PROVE  \E u \in OrdersOf(r)' : Fulfilled(u)'
  <2>1. PICK u \in Order : order[u].status # "none" /\ order[u].request = r /\ Fulfilled(u)
    BY <1>2 DEF ReceivedIsFulfilled, OrdersOf
  <2>2. Fulfilled(u)'
    BY <2>1, FulfilledKept
  <2>3. order'[u].status # "none" /\ order'[u].request = r
    BY <2>1 DEF Grows
  <2> QED
    BY <2>2, <2>3 DEF OrdersOf
<1>3. CASE ~\E c \in Clerk : CommitReceive(c)
  <2>1. /\ \A u \in Order : order'[u].status = "received" => order[u].status = "received"
        /\ \A r \in Request : request'[r].status = "received" => request[r].status = "received"
    BY <1>3, OtherSteps
  <2> QED
    BY <1>1, <1>2, <2>1 DEF ReceivedIsFulfilled
<1>4. ASSUME NEW c \in Clerk, CommitReceive(c) PROVE ReceivedIsFulfilled'
  <2>0. PICK g, o : g = task[c].receipt /\ o = receipt[g].order
    OBVIOUS
  <2>1. /\ o \in Order /\ order[o].status \in Opened /\ task[c].op = "received"
        /\ \A u \in Order : u # o => order'[u] = order[u]
        /\ order'[o].status = (IF task[c].next # task[c].status THEN task[c].next
                               ELSE order[o].status)
    BY <1>4, <2>0, CommitRows
  <2>2. ASSUME NEW u \in Order, order'[u].status = "received" PROVE Fulfilled(u)'
    <3>1. CASE order[u].status = "received"
      BY <1>1, <3>1
    <3>2. CASE order[u].status # "received"
      <4>1. u = o /\ task[c].next # task[c].status /\ task[c].next = "received"
        BY <2>1, <2>2, <3>2
      <4>2. Complete(order[o].ordered, task[c].written)
        BY <2>0, <2>1, <4>1 DEF Tasks, Writes
      <4> QED
        BY <1>4, <2>0, <4>1, <4>2, CommitFulfils
    <3> QED
      BY <3>1, <3>2
  <2>3. ASSUME NEW r \in Request, request'[r].status = "received"
        PROVE  \E u \in OrdersOf(r)' : Fulfilled(u)'
    <3>1. CASE request'[r] = request[r]
      BY <1>2, <2>3, <3>1
    <3>2. CASE request'[r] # request[r]
      <4>1. r = order[o].request /\ Complete(order[o].ordered, task[c].written)
        BY <1>4, <2>0, <3>2, CommitRequest
      <4>2. Fulfilled(o)'
        BY <1>4, <2>0, <4>1, CommitFulfils
      <4>3. order'[o].status # "none" /\ order'[o].request = r
        BY <2>1, <4>1 DEF Grows, Opened
      <4> QED
        BY <2>1, <4>2, <4>3 DEF OrdersOf
    <3> QED
      BY <3>1, <3>2
  <2> QED
    BY <2>2, <2>3 DEF ReceivedIsFulfilled
<1> QED
  BY <1>3, <1>4

-----------------------------------------------------------------------------
Inv == /\ TypeOK /\ Rows /\ Tasks /\ Exclusive
       /\ ShelvedOnce /\ ReceivedArrived /\ ReceivedIsFulfilled

\* The empty tables.
LEMMA InitHolds == Init => Inv
<1> SUFFICES ASSUME Init PROVE Inv
  OBVIOUS
<1> USE PurchasingAssumption
<1>1. TypeOK
  <2>1. Nothing \in [Part -> Nat] /\ Idle \in Task
    BY IdleHolds DEF Nothing
  <2>2. <<>> \in Lines
    <3>1. <<>> \in [1..0 -> Line] /\ 0 \in 0..MaxLines
      OBVIOUS
    <3> QED
      BY <3>1 DEF Lines
  <2> QED
    BY <2>1, <2>2 DEF Init, TypeOK, RequestStatus, OrderStatus
<1>2. Rows
  BY DEF Init, Rows
<1>3. Tasks /\ Exclusive
  BY IdleHolds DEF Init, Tasks, Exclusive, Reads, Writes
<1>4. \A o \in Order, p \in Part : Arrived(o, p) = 0
  <2> TAKE o \in Order, p \in Part
  <2> DEFINE x == [g \in Receipt |-> ReceiptQty(g, o, p)]
  <2>1. \A g \in 1..MaxReceipts : x[g] = 0
    BY DEF Init, ReceiptQty, Receipt
  <2> HIDE DEF x
  <2>2. SumTo(x, MaxReceipts) = 0
    BY <2>1, SumToZero
  <2> QED
    BY <2>2 DEF Arrived, x
<1>5. ShelvedOnce
  <2> SUFFICES ASSUME NEW p \in Part
               PROVE  shelved[p] = SumTo([o \in Order |-> Arrived(o, p)], MaxOrders)
    BY DEF ShelvedOnce
  <2> DEFINE x == [o \in Order |-> Arrived(o, p)]
  <2>1. \A o \in 1..MaxOrders : x[o] = 0
    BY <1>4 DEF Order
  <2> HIDE DEF x
  <2>2. SumTo(x, MaxOrders) = 0
    BY <2>1, SumToZero
  <2>3. shelved[p] = 0
    BY DEF Init, Nothing
  <2> QED
    BY <2>2, <2>3 DEF x
<1>6. ReceivedArrived
  BY <1>4 DEF ReceivedArrived, Init, Nothing
<1>7. ReceivedIsFulfilled
  BY DEF ReceivedIsFulfilled, Init
<1> QED
  BY <1>1, <1>2, <1>3, <1>5, <1>6, <1>7 DEF Inv

\* The step of the invariant.
LEMMA Steps == Inv /\ [Next]_vars => Inv' /\ Grows
<1> SUFFICES ASSUME Inv, [Next]_vars PROVE Inv' /\ Grows
  OBVIOUS
<1>1. TypeOK'
  BY TypesStep DEF Inv
<1>2. Rows' /\ Grows
  BY <1>1, RowsStep DEF Inv
<1>3. Tasks' /\ Exclusive'
  BY <1>1, <1>2, TasksStep DEF Inv
<1>4. ShelvedOnce' /\ ReceivedArrived' /\ ReceivedIsFulfilled'
  BY <1>1, <1>2, ShelvedStep, ArrivedStep, FulfilledStep DEF Inv
<1> QED
  BY <1>1, <1>2, <1>3, <1>4 DEF Inv

\* The invariant.
LEMMA Inductive == Spec => []Inv
<1>1. Inv /\ [Next]_vars => Inv'
  BY Steps
<1> QED
  BY <1>1, InitHolds, PTL DEF Spec

\* Every table and every clerk's task keep their types.
THEOREM TypeCorrect == Spec => []TypeOK
<1>1. Inv => TypeOK
  BY DEF Inv
<1> QED
  BY <1>1, Inductive, PTL

\* A received receipt is on the shelf once, however many clerks receive it.
THEOREM ReceiptsShelvedOnce == Spec => []ShelvedOnce
<1>1. Inv => ShelvedOnce
  BY DEF Inv
<1> QED
  BY <1>1, Inductive, PTL

\* No order claims goods that no receipt brought.
THEOREM ClaimedHasArrived == Spec => []ReceivedArrived
<1>1. Inv => ReceivedArrived
  BY DEF Inv
<1> QED
  BY <1>1, Inductive, PTL

\* An order that is received, and a request, has all it asked for.
THEOREM ReceivedHasArrived == Spec => []ReceivedIsFulfilled
<1>1. Inv => ReceivedIsFulfilled
  BY DEF Inv
<1> QED
  BY <1>1, Inductive, PTL

-----------------------------------------------------------------------------
\* What the two action properties say of one step.
OrderMoved(o) ==
  order[o].status # order'[o].status /\ order[o].status # "none" =>
    \/ order'[o].status \in OrderMoves[order[o].status]
    \/ /\ order[o].status \in {"received", "cancelled"}
       /\ \E c \in Clerk : /\ task[c].op = "received" /\ task'[c] = Idle
                           /\ receipt[task[c].receipt].order = o

RequestMoved(r) ==
  request[r].status # request'[r].status /\ request[r].status # "none" =>
    \/ request'[r].status \in RequestMoves[request[r].status]
    \/ /\ request'[r].status = "ordered"
       /\ \E c \in Clerk : /\ task[c].op = "order request"
                           /\ task[c].request = r /\ task'[c] = Idle

Lost(o, p) ==
  order[o].received[p] = Arrived(o, p) /\ order'[o].received[p] # Arrived(o, p)' =>
    \E c \in Clerk :
      LET g == task[c].receipt
          lines == receipt[g].lines
      IN  /\ task[c].op = "received" /\ task'[c] = Idle
          /\ receipt[g].order = o
          /\ \/ task[c].written[p] # order[o].received[p] + LastQty(lines, p)
             \/ QtyOf(lines, p) # LastQty(lines, p)

\* Only a move, a cancellation or a commit changes the status of an order.
LEMMA OrderMovesStep ==
  ASSUME Inv, Inv', [Next]_vars, NEW o \in Order
  PROVE  OrderMoved(o)
<1> USE DEF Inv
<1>1. CASE UNCHANGED order
  BY <1>1 DEF OrderMoved
<1>2. ASSUME NEW u \in Order, NEW to, to \in OrderMoves[order[u].status],
             order' = [order EXCEPT ![u].status = to]
      PROVE  OrderMoved(o)
  BY <1>2 DEF OrderMoved, TypeOK
<1>3. ASSUME NEW u \in Order, NEW row, NextRow(order, u), order' = [order EXCEPT ![u] = row]
      PROVE  OrderMoved(o)
  BY <1>3 DEF OrderMoved, NextRow, TypeOK
<1>4. ASSUME NEW c \in Clerk, CancelOrder(c) PROVE OrderMoved(o)
  <2>1. task[c].order \in Order
    BY <1>4, TaskKinds DEF CancelOrder, TypeOK
  <2> QED
    BY <1>2, <1>4, <2>1 DEF CancelOrder
<1>5. ASSUME NEW c \in Clerk, CommitReceive(c) PROVE OrderMoved(o)
  <2>0. PICK g, u : g = task[c].receipt /\ u = receipt[g].order
    OBVIOUS
  <2>1. /\ u \in Order /\ order[u].status \in Opened /\ task[c].op = "received"
        /\ \A v \in Order : v # u => order'[v] = order[v]
        /\ order'[u].status = (IF task[c].next # task[c].status THEN task[c].next
                               ELSE order[u].status)
        /\ task'[c] = Idle
    BY <1>5, <2>0, CommitRows
  <2>2. CASE order[o].status = order'[o].status
    BY <2>2 DEF OrderMoved
  <2>3. CASE order[o].status # order'[o].status
    <3>1. o = u /\ order'[o].status \in {"received", "partially_received"}
      BY <2>1, <2>3 DEF Tasks, Writes
    <3>2. CASE order[o].status \in {"received", "cancelled"}
      BY <2>0, <2>1, <3>1, <3>2 DEF OrderMoved
    <3>3. CASE order[o].status \in {"approved", "partially_received"}
      BY <2>3, <3>1, <3>3 DEF OrderMoved, OrderMoves
    <3> QED
      BY <2>1, <3>1, <3>2, <3>3 DEF Opened
  <2> QED
    BY <2>2, <2>3
<1>6. ASSUME \/ \E c \in Clerk, u \in Order, lines \in OrderedLines : CreateOrder(c, u, lines)
             \/ \E u \in Order, lines \in OrderedLines : CreateDirectOrder(u, lines)
      PROVE  OrderMoved(o)
  BY <1>3, <1>6 DEF CreateOrder, CreateDirectOrder
<1>7. ASSUME \E u \in Order, to \in {"pending_approval", "approved"} : MoveOrder(u, to)
      PROVE  OrderMoved(o)
  BY <1>2, <1>7 DEF MoveOrder
<1>8. ASSUME \/ RequestNext
             \/ \E c \in Clerk : ReadRequest(c) \/ GiveUp(c) \/ ReadOrder(c) \/ WriteLines(c)
             \/ \E c \in Clerk, u \in Order : CheckCancel(c, u)
             \/ \E g \in Receipt, u \in Order, lines \in Lines : CreateReceipt(g, u, lines)
             \/ \E c \in Clerk, g \in Receipt : CheckReceive(c, g)
             \/ UNCHANGED vars
      PROVE  UNCHANGED order
  BY <1>8 DEF RequestNext, ReadRequest, GiveUp, ReadOrder, WriteLines, CheckCancel,
              CreateReceipt, CheckReceive, vars, CheckQuotation, CreateRequest, CheckRequest,
              CreatePlainRequest, MoveRequest
<1> QED
  BY <1>1, <1>4, <1>5, <1>6, <1>7, <1>8 DEF Next, OrderNext, ReceiptNext

\* Only a move, a new order or a commit changes the status of a request.
LEMMA RequestMovesStep ==
  ASSUME Inv, Inv', [Next]_vars, NEW r \in Request
  PROVE  RequestMoved(r)
<1> USE DEF Inv
<1>1. CASE UNCHANGED request
  BY <1>1 DEF RequestMoved
<1>2. ASSUME NEW q \in Request, NEW row, NextRow(request, q),
             request' = [request EXCEPT ![q] = row]
      PROVE  RequestMoved(r)
  BY <1>2 DEF RequestMoved, NextRow, TypeOK
<1>3. ASSUME NEW q \in Request, NEW to, MoveRequest(q, to) PROVE RequestMoved(r)
  BY <1>3 DEF MoveRequest, RequestMoved, TypeOK
<1>4. ASSUME NEW c \in Clerk, NEW o \in Order, NEW lines \in OrderedLines, CreateOrder(c, o, lines)
      PROVE  RequestMoved(r)
  <2>1. CASE request' = request
    BY <1>1, <2>1
  <2>2. CASE request' = [request EXCEPT ![task[c].request].status = "ordered"]
    <3>1. task[c].op = "order request" /\ task'[c] = Idle
      BY <1>4, Ended DEF CreateOrder, TypeOK
    <3>2. CASE r = task[c].request
      <4>1. request'[r].status = "ordered"
        BY <2>2, <3>2 DEF TypeOK
      <4> QED
        BY <3>1, <3>2, <4>1 DEF RequestMoved
    <3>3. CASE r # task[c].request
      BY <2>2, <3>3 DEF RequestMoved, TypeOK
    <3> QED
      BY <3>2, <3>3
  <2> QED
    BY <1>4, <2>1, <2>2 DEF CreateOrder
<1>5. ASSUME NEW c \in Clerk, CommitReceive(c) PROVE RequestMoved(r)
  <2>0. PICK g, o : g = task[c].receipt /\ o = receipt[g].order
    OBVIOUS
  <2>1. CASE request'[r] = request[r]
    BY <2>1 DEF RequestMoved
  <2>2. CASE request'[r] # request[r]
    <3>1. o \in Order /\ order[o].status \in Opened
      BY <1>5, <2>0, CommitRows
    <3>2. r = order[o].request /\ request[r].status \in {"ordered", "approved"}
          /\ request'[r].status = "received"
      BY <1>5, <2>0, <2>2, CommitRequest
    <3>3. request[r].status \in Passed
      BY <3>1, <3>2 DEF Rows, Opened, Request, NoRequest
    <3>4. request[r].status = "ordered"
      BY <3>2, <3>3 DEF Passed
    <3> QED
      BY <3>2, <3>4 DEF RequestMoved, RequestMoves
  <2> QED
    BY <2>1, <2>2
<1>6. ASSUME \/ \E c \in Clerk, q \in Request : CreateRequest(c, q)
             \/ \E q \in Request : CreatePlainRequest(q)
      PROVE  RequestMoved(r)
  BY <1>2, <1>6 DEF CreateRequest, CreatePlainRequest
<1>7. ASSUME \/ \E c \in Clerk, q \in Quotation : CheckQuotation(c, q)
             \/ \E c \in Clerk, q \in Request : CheckRequest(c, q)
             \/ \E c \in Clerk : ReadRequest(c) \/ CancelOrder(c) \/ GiveUp(c)
             \/ \E c \in Clerk : ReadOrder(c) \/ WriteLines(c)
             \/ \E o \in Order, lines \in OrderedLines : CreateDirectOrder(o, lines)
             \/ \E o \in Order, to \in {"pending_approval", "approved"} : MoveOrder(o, to)
             \/ \E c \in Clerk, o \in Order : CheckCancel(c, o)
             \/ \E g \in Receipt, o \in Order, lines \in Lines : CreateReceipt(g, o, lines)
             \/ \E c \in Clerk, g \in Receipt : CheckReceive(c, g)
             \/ UNCHANGED vars
      PROVE  UNCHANGED request
  BY <1>7 DEF CheckQuotation, CheckRequest, ReadRequest, CancelOrder, GiveUp, ReadOrder,
              WriteLines, CreateDirectOrder, MoveOrder, CheckCancel, CreateReceipt,
              CheckReceive, vars
<1> QED
  BY <1>1, <1>3, <1>4, <1>5, <1>6, <1>7 DEF Next, RequestNext, OrderNext, ReceiptNext

\* Only the commit of a stale or repeated line loses a quantity.
LEMMA LostStep ==
  ASSUME Inv, Inv', Grows, [Next]_vars, NEW o \in Order, NEW p \in Part
  PROVE  Lost(o, p)
<1> USE DEF Inv
<1>1. CASE ~\E c \in Clerk : CommitReceive(c)
  <2>1. Arrived(o, p)' = Arrived(o, p)
    BY <1>1, OtherSteps
  <2>2. order'[o].received = order[o].received
    <3>1. CASE order[o].status # "none"
      BY <1>1, <3>1, OtherSteps
    <3>2. CASE order[o].status = "none"
      <4>1. order[o].received = Nothing
        BY <3>2 DEF Rows
      <4>2. order'[o].received \in {order[o].received, Nothing}
        BY <1>1, <3>2, OtherSteps
      <4> QED
        BY <4>1, <4>2
    <3> QED
      BY <3>1, <3>2
  <2> QED
    BY <2>1, <2>2 DEF Lost
<1>2. ASSUME NEW c \in Clerk, CommitReceive(c) PROVE Lost(o, p)
  <2>0. PICK g, u : g = task[c].receipt /\ u = receipt[g].order
    OBVIOUS
  <2>1. /\ u \in Order /\ g \in Receipt /\ task[c].op = "received" /\ task'[c] = Idle
        /\ \A v \in Order : v # u => order'[v] = order[v]
        /\ \A q \in Part : order'[u].received[q] =
             IF q \in PartsOf(receipt[g].lines) THEN task[c].written[q]
             ELSE order[u].received[q]
    BY <1>2, <2>0, CommitRows
  <2>2. \A v \in Order, q \in Part :
          /\ QtyOf(receipt[g].lines, q) \in Nat /\ Arrived(v, q) \in Nat
          /\ Arrived(v, q)' = Arrived(v, q) + (IF v = u THEN QtyOf(receipt[g].lines, q) ELSE 0)
    BY <1>2, <2>0, CommitArrives, ArrivedType
  <2>3. CASE o # u
    <3>1. Arrived(o, p)' = Arrived(o, p) + 0
      BY <2>2, <2>3
    <3>2. Arrived(o, p)' = Arrived(o, p)
      BY <2>2, <3>1
    <3> QED
      BY <2>1, <2>3, <3>2 DEF Lost
  <2>4. CASE o = u /\ p \notin PartsOf(receipt[g].lines)
    <3>1. QtyOf(receipt[g].lines, p) = 0
      BY <2>1, <2>4, QtyOfLines DEF TypeOK
    <3>2. Arrived(o, p)' = Arrived(o, p) + 0
      BY <2>2, <2>4, <3>1
    <3>3. Arrived(o, p)' = Arrived(o, p)
      BY <2>2, <3>2
    <3> QED
      BY <2>1, <2>4, <3>3 DEF Lost
  <2>5. CASE o = u /\ p \in PartsOf(receipt[g].lines)
    <3>1. SUFFICES ASSUME order[o].received[p] = Arrived(o, p),
                          order'[o].received[p] # Arrived(o, p)'
                   PROVE  \/ task[c].written[p] # order[o].received[p]
                                                    + LastQty(receipt[g].lines, p)
                          \/ QtyOf(receipt[g].lines, p) # LastQty(receipt[g].lines, p)
      BY <2>0, <2>1, <2>5 DEF Lost
    <3>2. order'[o].received[p] = task[c].written[p]
      BY <2>1, <2>5
    <3>3. Arrived(o, p)' = Arrived(o, p) + QtyOf(receipt[g].lines, p)
      BY <2>2, <2>5
    <3> QED
      BY <3>1, <3>2, <3>3
  <2> QED
    BY <2>3, <2>4, <2>5
<1> QED
  BY <1>1, <1>2

\* Orders and requests move along their tables, but for the two commits that act
\* on a status read before.
THEOREM TablesAreFollowed == Spec => StatusesFollowTables
<1>1. Inv /\ [Next]_vars => [\A o \in Order : OrderMoved(o)]_vars
  BY Steps, OrderMovesStep
<1>2. Inv /\ [Next]_vars => [\A r \in Request : RequestMoved(r)]_vars
  BY Steps, RequestMovesStep
<1>3. Spec => OrderFollowsTable
  BY <1>1, Inductive, PTL DEF Spec, OrderFollowsTable, OrderMoved
<1>4. Spec => RequestFollowsTable
  BY <1>2, Inductive, PTL DEF Spec, RequestFollowsTable, RequestMoved
<1> QED
  BY <1>3, <1>4 DEF StatusesFollowTables

\* An item falls behind what arrived only by a stale or a repeated line.
THEOREM LossesAreStale == Spec => LossOnlyByStaleOrRepeatedLine
<1>1. Inv /\ [Next]_vars => [\A o \in Order, p \in Part : Lost(o, p)]_vars
  BY Steps, LostStep
<1> QED
  BY <1>1, Inductive, PTL DEF Spec, LossOnlyByStaleOrRepeatedLine, Lost

=============================================================================
