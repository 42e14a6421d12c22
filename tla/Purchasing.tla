----------------------------- MODULE Purchasing -----------------------------
(***************************************************************************)
(* Purchase requests, purchase orders and goods receipts.                  *)
(*                                                                         *)
(* A status change that compares-and-sets the status it read is one        *)
(* action. The routines that check rows outside their transaction, or read *)
(* rows inside it without a lock and then write them, keep what they read  *)
(* in task until they write:                                               *)
(*   - creating a request for a quotation (CheckQuotation, CreateRequest); *)
(*   - creating an order for a request (CheckRequest, ReadRequest,         *)
(*     CreateOrder);                                                       *)
(*   - cancelling an order (CheckCancel, CancelOrder);                     *)
(*   - receiving goods (CheckReceive, ReadOrder, WriteLines,               *)
(*     CommitReceive).                                                     *)
(* The rows a transaction has written stay locked until it commits. Any    *)
(* routine may also fail or be cut off, which rolls back (GiveUp).         *)
(*                                                                         *)
(* The stock side of a receipt line is Inventory!PurchaseIn; here shelved  *)
(* counts what the receipts have put on the shelf.                         *)
(***************************************************************************)
EXTENDS Totals, Sequences, FiniteSets

CONSTANTS Quotation,    \* quotations with unavailable parts
          Part,         \* parts that can be ordered
          MaxRequests,  \* bound: rows of purchase_requests
          MaxOrders,    \* bound: rows of purchase_orders
          MaxReceipts,  \* bound: rows of goods_receipts
          MaxOrdered,   \* bound: quantity of an order line
          MaxLines,     \* bound: lines of a goods receipt
          Clerk         \* requests handled at the same time

ASSUME PurchasingAssumption ==
  /\ MaxRequests \in Nat /\ MaxOrders \in Nat /\ MaxReceipts \in Nat
  /\ MaxOrdered \in Nat /\ MaxLines \in Nat

VARIABLES request,  \* purchase_requests, by id
          order,    \* purchase_orders with their items, by id
          receipt,  \* goods_receipts with their items, by id
          shelved,  \* quantity the receipts have put on the shelf, per part
          task      \* what each clerk's routine has read and not committed

vars == <<request, order, receipt, shelved, task>>

Request == 1..MaxRequests
Order   == 1..MaxOrders
Receipt == 1..MaxReceipts

NoQuote   == "no quotation"
NoRequest == 0
Idle      == [op |-> "idle"]

RequestStatus == {"none", "draft", "pending_approval", "approved", "ordered",
                  "received", "cancelled"}
OrderStatus   == {"none", "new", "pending_approval", "approved",
                  "partially_received", "received", "cancelled"}

Line  == [part: Part, qty: 1..MaxOrdered]
Lines == UNION {[1..n -> Line] : n \in 0..MaxLines}

Task ==
  {Idle}
    \cup [op: {"new request"}, quote: Quotation]
    \cup [op: {"new order"}, request: Request]
    \cup [op: {"order request"}, request: Request, status: RequestStatus]
    \cup [op: {"cancel order"}, order: Order]
    \cup [op: {"receive"}, receipt: Receipt]
    \cup [op: {"receiving"}, receipt: Receipt, seen: [Part -> Nat],
          status: OrderStatus]
    \cup [op: {"received"}, receipt: Receipt, written: [Part -> Nat],
          status: OrderStatus, next: OrderStatus]

TypeOK ==
  /\ request \in [Request -> [status: RequestStatus,
                              quote: Quotation \cup {NoQuote}]]
  /\ order \in [Order -> [status: OrderStatus, request: Request \cup {NoRequest},
                          ordered: [Part -> Nat], received: [Part -> Nat]]]
  /\ receipt \in [Receipt -> [status: {"none", "draft", "received"},
                              order: Order \cup {0}, lines: Lines]]
  /\ shelved \in [Part -> Nat]
  /\ task \in [Clerk -> Task]

Nothing == [p \in Part |-> 0]

Init ==
  /\ request = [r \in Request |-> [status |-> "none", quote |-> NoQuote]]
  /\ order = [o \in Order |-> [status |-> "none", request |-> NoRequest,
                               ordered |-> Nothing, received |-> Nothing]]
  /\ receipt = [g \in Receipt |-> [status |-> "none", order |-> 0, lines |-> <<>>]]
  /\ shelved = Nothing
  /\ task = [c \in Clerk |-> Idle]

\* Rows are created in the order of their ids.
NextRow(table, i) ==
  /\ table[i].status = "none"
  /\ \A j \in DOMAIN table : j < i => table[j].status # "none"

\* Clerk c starts, or ends, a routine.
Begin(c, t) == task[c] = Idle /\ task' = [task EXCEPT ![c] = t]
End(c)      == task' = [task EXCEPT ![c] = Idle]

\* The routine fails a check or is cut off; its transaction is rolled back.
GiveUp(c) ==
  /\ task[c] # Idle
  /\ End(c)
  /\ UNCHANGED <<request, order, receipt, shelved>>

-----------------------------------------------------------------------------
RequestMoves ==
  [draft            |-> {"pending_approval", "cancelled"},
   pending_approval |-> {"approved", "cancelled"},
   approved         |-> {"ordered", "cancelled"},
   ordered          |-> {"received", "cancelled"},
   received         |-> {},
   cancelled        |-> {}]

OpenRequests(q) == {r \in Request : /\ request[r].quote = q
                                    /\ request[r].status \notin
                                         {"none", "received", "cancelled"}}

\* PurchaseRequestsService.create, and createFromUnavailable up to its call of
\* create: no open request of quotation q is found.
CheckQuotation(c, q) ==
  /\ OpenRequests(q) = {}
  /\ Begin(c, [op |-> "new request", quote |-> q])
  /\ UNCHANGED <<request, order, receipt, shelved>>

\* The transaction of create inserts the draft.
CreateRequest(c, r) ==
  /\ task[c].op = "new request"
  /\ NextRow(request, r)
  /\ request' = [request EXCEPT ![r] = [status |-> "draft", quote |-> task[c].quote]]
  /\ End(c)
  /\ UNCHANGED <<order, receipt, shelved>>

\* create without a quotation checks nothing.
CreatePlainRequest(r) ==
  /\ NextRow(request, r)
  /\ request' = [request EXCEPT ![r] = [status |-> "draft", quote |-> NoQuote]]
  /\ UNCHANGED <<order, receipt, shelved, task>>

\* submit, approve, reject and cancel: transition compares-and-sets the status
\* it read. (createFromUnavailable submits its draft by this same call.)
MoveRequest(r, to) ==
  /\ request[r].status # "none"
  /\ to \in RequestMoves[request[r].status]
  /\ request' = [request EXCEPT ![r].status = to]
  /\ UNCHANGED <<order, receipt, shelved, task>>

-----------------------------------------------------------------------------
OrdersOf(r) == {o \in Order : order[o].status # "none" /\ order[o].request = r}

\* PurchaseOrdersService.create for a request, before its transaction.
CheckRequest(c, r) ==
  /\ request[r].status \in {"approved", "ordered"}
  /\ \A o \in OrdersOf(r) : order[o].status = "cancelled"
  /\ Begin(c, [op |-> "new order", request |-> r])
  /\ UNCHANGED <<request, order, receipt, shelved>>

\* markOrderedInTx reads the request again, without a lock.
ReadRequest(c) ==
  /\ task[c].op = "new order"
  /\ request[task[c].request].status \in {"approved", "ordered"}
  /\ task' = [task EXCEPT ![c] = [op |-> "order request",
                                  request |-> task[c].request,
                                  status |-> request[task[c].request].status]]
  /\ UNCHANGED <<request, order, receipt, shelved>>

\* The rest of the transaction: the request read as approved is set to ordered
\* whatever it is now, and the order is inserted.
CreateOrder(c, o, lines) ==
  LET r == task[c].request
  IN  /\ task[c].op = "order request"
      /\ NextRow(order, o)
      /\ request' = IF task[c].status = "approved"
                      THEN [request EXCEPT ![r].status = "ordered"]
                      ELSE request
      /\ order' = [order EXCEPT ![o] = [status |-> "new", request |-> r,
                                        ordered |-> lines, received |-> Nothing]]
      /\ End(c)
      /\ UNCHANGED <<receipt, shelved>>

\* create without a request checks nothing that changes.
CreateDirectOrder(o, lines) ==
  /\ NextRow(order, o)
  /\ order' = [order EXCEPT ![o] = [status |-> "new", request |-> NoRequest,
                                    ordered |-> lines, received |-> Nothing]]
  /\ UNCHANGED <<request, receipt, shelved, task>>

OrderMoves ==
  [new                |-> {"pending_approval", "cancelled"},
   pending_approval   |-> {"approved", "cancelled"},
   approved           |-> {"partially_received", "received", "cancelled"},
   partially_received |-> {"received", "cancelled"},
   received           |-> {},
   cancelled          |-> {}]

\* submit and approve: transition compares-and-sets the status it read.
MoveOrder(o, to) ==
  /\ order[o].status # "none"
  /\ to \in OrderMoves[order[o].status]
  /\ order' = [order EXCEPT ![o].status = to]
  /\ UNCHANGED <<request, receipt, shelved, task>>

\* PurchaseOrdersService.cancel reads the order once to refuse one with goods
\* received ...
CheckCancel(c, o) ==
  /\ order[o].status \notin {"none", "partially_received", "received"}
  /\ Begin(c, [op |-> "cancel order", order |-> o])
  /\ UNCHANGED <<request, order, receipt, shelved>>

\* ... and transition reads it again: its table also allows a partially
\* received order to be cancelled.
CancelOrder(c) ==
  LET o == task[c].order
  IN  /\ task[c].op = "cancel order"
      /\ "cancelled" \in OrderMoves[order[o].status]
      /\ order' = [order EXCEPT ![o].status = "cancelled"]
      /\ End(c)
      /\ UNCHANGED <<request, receipt, shelved>>

-----------------------------------------------------------------------------
\* Mutant: goods are received against any order that is not closed.
ReceivableUnlessClosed(status) == status \notin {"none", "received", "cancelled"}

\* An order goods can be received against.
Receivable(status) == status \in {"approved", "partially_received"}

QtyOf(lines, p) ==
  SumTo([i \in 1..Len(lines) |-> IF lines[i].part = p THEN lines[i].qty ELSE 0],
        Len(lines))
PartsOf(lines) == {lines[i].part : i \in DOMAIN lines}

\* GoodsReceiptsService.create: each line, on its own, fits what its item has
\* left. Nothing else reads a draft, so its insertion is joined to the check.
CreateReceipt(g, o, lines) ==
  /\ NextRow(receipt, g)
  /\ Receivable(order[o].status)
  /\ lines # <<>>
  /\ \A i \in DOMAIN lines :
       lines[i].qty <= order[o].ordered[lines[i].part]
                         - order[o].received[lines[i].part]
  /\ receipt' = [receipt EXCEPT ![g] = [status |-> "draft", order |-> o,
                                        lines |-> lines]]
  /\ UNCHANGED <<request, order, shelved, task>>

\* receive before its transaction: a draft, of an order that can be received.
CheckReceive(c, g) ==
  /\ receipt[g].status = "draft"
  /\ Receivable(order[receipt[g].order].status)
  /\ Begin(c, [op |-> "receive", receipt |-> g])
  /\ UNCHANGED <<request, order, receipt, shelved>>

\* The transaction reads the order and its items, without a lock.
ReadOrder(c) ==
  LET g == task[c].receipt
      o == receipt[g].order
  IN  /\ task[c].op = "receive"
      /\ task' = [task EXCEPT ![c] = [op |-> "receiving", receipt |-> g,
                                      seen |-> order[o].received,
                                      status |-> order[o].status]]
      /\ UNCHANGED <<request, order, receipt, shelved>>

\* Another transaction holds a row of receipt g: the receipt itself, or an
\* item or balance of one of its parts.
Blocked(c, g) ==
  \E d \in Clerk \ {c} :
    /\ task[d].op = "received"
    /\ \/ task[d].receipt = g
       \/ PartsOf(receipt[task[d].receipt].lines) \cap PartsOf(receipt[g].lines) # {}

\* Each line is compared with, and added to, what was read: a part's last line
\* is the one that stays.
LastQty(lines, p) ==
  lines[CHOOSE i \in DOMAIN lines :
          /\ lines[i].part = p
          /\ \A j \in DOMAIN lines : lines[j].part = p => j <= i].qty

\* Mutant: one line that is received completes the order.
CompleteBySome(ordered, received) ==
  \E p \in Part : 0 < ordered[p] /\ ordered[p] <= received[p]


Complete(ordered, received) == \A p \in Part : ordered[p] <= received[p]

\* The status of the order from its items as the transaction now sees them.
NextStatus(o, items, status) ==
  IF Complete(order[o].ordered, items) THEN "received"
  ELSE IF \E p \in Part : items[p] > 0 THEN "partially_received" ELSE status

\* Mutant: the draft is not compared-and-set.
WriteLinesAnyReceipt(c) ==
  LET g == task[c].receipt
      o == receipt[g].order
      lines == receipt[g].lines
      items == [p \in Part |-> IF p \in PartsOf(lines)
                                 THEN task[c].seen[p] + LastQty(lines, p)
                                 ELSE order[o].received[p]]
  IN  /\ task[c].op = "receiving"
      /\ ~Blocked(c, g)
      /\ task' = [task EXCEPT ![c] =
                    [op |-> "received", receipt |-> g, written |-> items,
                     status |-> task[c].status,
                     next |-> NextStatus(o, items, task[c].status)]]
      /\ UNCHANGED <<request, order, receipt, shelved>>

\* The lines, the compare-and-set of the draft and the reading of the items.
WriteLines(c) ==
  LET g == task[c].receipt
      o == receipt[g].order
      lines == receipt[g].lines
      seen == task[c].seen
      items == [p \in Part |-> IF p \in PartsOf(lines)
                                 THEN seen[p] + LastQty(lines, p)
                                 ELSE order[o].received[p]]
  IN  /\ task[c].op = "receiving"
      /\ ~Blocked(c, g)
      /\ receipt[g].status = "draft"
      /\ \A i \in DOMAIN lines :
           lines[i].qty <= order[o].ordered[lines[i].part] - seen[lines[i].part]
      /\ task' = [task EXCEPT ![c] =
                    [op |-> "received", receipt |-> g, written |-> items,
                     status |-> task[c].status,
                     next |-> NextStatus(o, items, task[c].status)]]
      /\ UNCHANGED <<request, order, receipt, shelved>>

\* Mutant: the receipt stays a draft.
CommitReceiveKeepsDraft(c) ==
  LET t == task[c]
      o == receipt[t.receipt].order
  IN  /\ t.op = "received"
      /\ order' = [order EXCEPT ![o].received = t.written]
      /\ shelved' = [p \in Part |-> shelved[p] + QtyOf(receipt[t.receipt].lines, p)]
      /\ End(c)
      /\ UNCHANGED <<request, receipt>>

\* Mutant: the received quantities are not written to the items.
CommitReceiveKeepsItems(c) ==
  LET t == task[c]
  IN  /\ t.op = "received"
      /\ order' = [order EXCEPT ![receipt[t.receipt].order].status = t.next]
      /\ receipt' = [receipt EXCEPT ![t.receipt].status = "received"]
      /\ shelved' = [p \in Part |-> shelved[p] + QtyOf(receipt[t.receipt].lines, p)]
      /\ End(c)
      /\ UNCHANGED request

\* The order's status if it differs from the one read, the request of a
\* complete order, and the commit.
CommitReceive(c) ==
  LET t == task[c]
      g == t.receipt
      o == receipt[g].order
      r == order[o].request
      lines == receipt[g].lines
  IN  /\ t.op = "received"
      /\ order' = [order EXCEPT
           ![o].received = [p \in Part |-> IF p \in PartsOf(lines)
                                             THEN t.written[p] ELSE @[p]],
           ![o].status = IF t.next # t.status THEN t.next ELSE @]
      /\ request' =
           IF /\ Complete(order[o].ordered, t.written)
              /\ r # NoRequest /\ request[r].status \in {"ordered", "approved"}
             THEN [request EXCEPT ![r].status = "received"]
             ELSE request
      /\ receipt' = [receipt EXCEPT ![g].status = "received"]
      /\ shelved' = [p \in Part |-> shelved[p] + QtyOf(lines, p)]
      /\ End(c)

-----------------------------------------------------------------------------
OrderedLines == [Part -> 0..MaxOrdered] \ {Nothing}

RequestNext ==
  \/ \E c \in Clerk, q \in Quotation : CheckQuotation(c, q)
  \/ \E c \in Clerk, r \in Request : CreateRequest(c, r) \/ CheckRequest(c, r)
  \/ \E r \in Request :
       \/ CreatePlainRequest(r)
       \/ \E to \in {"pending_approval", "approved", "cancelled"} : MoveRequest(r, to)

OrderNext ==
  \/ \E c \in Clerk : ReadRequest(c) \/ CancelOrder(c)
  \/ \E c \in Clerk, o \in Order, lines \in OrderedLines : CreateOrder(c, o, lines)
  \/ \E o \in Order, lines \in OrderedLines : CreateDirectOrder(o, lines)
  \/ \E o \in Order, to \in {"pending_approval", "approved"} : MoveOrder(o, to)
  \/ \E c \in Clerk, o \in Order : CheckCancel(c, o)

ReceiptNext ==
  \/ \E g \in Receipt, o \in Order, lines \in Lines : CreateReceipt(g, o, lines)
  \/ \E c \in Clerk, g \in Receipt : CheckReceive(c, g)
  \/ \E c \in Clerk : ReadOrder(c) \/ WriteLines(c) \/ CommitReceive(c)

Next == RequestNext \/ OrderNext \/ ReceiptNext \/ (\E c \in Clerk : GiveUp(c))

Spec == Init /\ [][Next]_vars

-----------------------------------------------------------------------------
\* What the received receipts say arrived of part p, for order o.
ReceiptQty(g, o, p) ==
  IF receipt[g].status = "received" /\ receipt[g].order = o
  THEN QtyOf(receipt[g].lines, p) ELSE 0
Arrived(o, p) == SumTo([g \in Receipt |-> ReceiptQty(g, o, p)], MaxReceipts)

\* Each received receipt is on the shelf exactly once, however many clerks
\* receive it at the same time.
ShelvedOnce ==
  \A p \in Part : shelved[p] = SumTo([o \in Order |-> Arrived(o, p)], MaxOrders)

\* No order claims goods no receipt brought: overlapping receipts can lose a
\* quantity, never invent one.
ReceivedArrived ==
  \A o \in Order, p \in Part : order[o].received[p] <= Arrived(o, p)

\* What an order asked for has all arrived.
Fulfilled(o) == \A p \in Part : order[o].ordered[p] <= Arrived(o, p)

\* An order is received only when every ordered part has arrived, although its
\* status is decided from items that other receipts may overwrite; a request is
\* received only when all of one of its orders has arrived.
ReceivedIsFulfilled ==
  /\ \A o \in Order : order[o].status = "received" => Fulfilled(o)
  /\ \A r \in Request : request[r].status = "received" =>
       \E o \in OrdersOf(r) : Fulfilled(o)

\* An order moves along its table, so goods arrive only after its approval;
\* the commit of a receipt, which checked its status earlier, can reopen a
\* closed order, and nothing else can.
OrderFollowsTable ==
  [][\A o \in Order :
       order[o].status # order'[o].status /\ order[o].status # "none" =>
         \/ order'[o].status \in OrderMoves[order[o].status]
         \/ /\ order[o].status \in {"received", "cancelled"}
            /\ \E c \in Clerk : /\ task[c].op = "received" /\ task'[c] = Idle
                                /\ receipt[task[c].receipt].order = o]_vars

\* A request moves along its table, except that the transaction of a new order
\* sets one it read as approved to ordered, whatever became of it since.
RequestFollowsTable ==
  [][\A r \in Request :
       request[r].status # request'[r].status /\ request[r].status # "none" =>
         \/ request'[r].status \in RequestMoves[request[r].status]
         \/ /\ request'[r].status = "ordered"
            /\ \E c \in Clerk : /\ task[c].op = "order request"
                                /\ task[c].request = r /\ task'[c] = Idle]_vars

\* The statuses follow their tables, with these two exceptions only.
StatusesFollowTables == OrderFollowsTable /\ RequestFollowsTable

\* An item falls behind what arrived only when a receipt commits that read it
\* before another receipt changed it, or that names its part in two lines.
LossOnlyByStaleOrRepeatedLine ==
  [][\A o \in Order, p \in Part :
       order[o].received[p] = Arrived(o, p) /\ order'[o].received[p] # Arrived(o, p)' =>
         \E c \in Clerk :
           LET g == task[c].receipt
               lines == receipt[g].lines
           IN  /\ task[c].op = "received" /\ task'[c] = Idle
               /\ receipt[g].order = o
               /\ \/ task[c].written[p] # order[o].received[p] + LastQty(lines, p)
                  \/ QtyOf(lines, p) # LastQty(lines, p)]_vars

-----------------------------------------------------------------------------
\* What the comment in receive says of its reading: the items are locked and
\* the remaining quantity is validated under concurrency, so each item has
\* recorded what arrived.
ItemsRecordArrivals ==
  \A o \in Order, p \in Part : order[o].received[p] = Arrived(o, p)

=============================================================================
