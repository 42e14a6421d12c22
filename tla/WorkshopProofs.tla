---------------------------- MODULE WorkshopProofs ----------------------------
(***************************************************************************)
(* Proofs about Workshop: type correctness; every move of the visit, its   *)
(* orders, tasks and quotations is in its table, with the exceptions the   *)
(* properties name, although most of the writers decide on an earlier      *)
(* reading; a vehicle is handed over exactly after one check of it has     *)
(* passed; a quotation is superseded by one next version; and an approval  *)
(* leaves an order to do the work, unless the one it found was cancelled   *)
(* before its commit.                                                      *)
(***************************************************************************)
EXTENDS Workshop, FiniteSetTheorems, TLAPS

ReadingsOK(r) == r \in [Clerk -> Reading]

\* A reading with nothing but an operation and a row is well typed.
LEMMA ReadType ==
  ASSUME NEW op \in Operation, NEW i \in Nat
  PROVE  Read(op, i) \in Reading
BY DEF Read, Reading, OrderStatus

LEMMA IdleType == Idle \in Reading
BY ReadType DEF Idle, Operation

\* Finishing a routine, and refusing the versioned ones, keep the readings typed.
LEMMA DoneType ==
  ASSUME ReadingsOK(reading), NEW c \in Clerk
  PROVE  ReadingsOK(Done(c))
BY IdleType DEF Done, ReadingsOK

LEMMA RefusedType ==
  ASSUME NEW r, ReadingsOK(r)
  PROVE  ReadingsOK(Refused(r))
BY IdleType DEF Refused, ReadingsOK

\* A write of the visit, or leaving it alone, keeps the visit and the readings typed.
LEMMA VisitType ==
  ASSUME TypeOK, NEW r, ReadingsOK(r), NEW s \in VisitStatus,
         VisitTo(s, r) \/ VisitKept(r)
  PROVE  visit' \in VisitStatus /\ ReadingsOK(reading')
BY RefusedType DEF VisitTo, VisitKept, TypeOK

\* A clerk's reading of type Reading keeps the readings typed.
LEMMA ReadsType ==
  ASSUME ReadingsOK(reading), NEW c \in Clerk, NEW r \in Reading, Reads(c, r)
  PROVE  ReadingsOK(reading')
BY DEF Reads, ReadingsOK

\* Moving tasks keeps the task table typed.
LEMMA TasksToType ==
  ASSUME TypeOK, NEW ts, NEW s \in TaskStatus
  PROVE  TasksTo(ts, s) \in [Task -> TaskRow]
BY DEF TasksTo, TypeOK, TaskRow

\* New rows are well typed.
LEMMA AddQuoteType ==
  ASSUME NEW table \in [Quote -> QuoteRow], NEW items \in Content \cup {NoItems},
         NEW parent \in {0} \cup Quote, AddQuote(table, items, parent)
  PROVE  quote' \in [Quote -> QuoteRow]
BY DEF AddQuote, QuoteRow, QuoteStatus

LEMMA AddOrderType ==
  ASSUME TypeOK, NEW n, AddOrder(n)
  PROVE  wo' \in [WorkOrder -> OrderStatus] /\ task' \in [Task -> TaskRow]
BY DEF AddOrder, TypeOK, OrderStatus, TaskRow, TaskStatus

LEMMA AddCheckType ==
  ASSUME TypeOK, NEW w \in WorkOrder, AddCheck(w)
  PROVE  qc' \in [Check -> CheckRow]
BY DEF AddCheck, TypeOK, CheckRow, CheckStatus, CheckItems

\* A reading of a row of some table.
LEMMA ReadRowType ==
  ASSUME NEW op \in Operation,
         NEW i \in Inspection \cup Quote \cup WorkOrder \cup Task \cup Check
  PROVE  Read(op, i) \in Reading
<1>1. i \in Nat
  BY DEF Inspection, Quote, WorkOrder, Task, Check
<1> QED
  BY <1>1, ReadType

\* A quotation with another status or other items.
LEMMA QuoteStatusType ==
  ASSUME NEW table \in [Quote -> QuoteRow], NEW x, NEW s \in QuoteStatus
  PROVE  [table EXCEPT ![x].status = s] \in [Quote -> QuoteRow]
BY DEF QuoteRow

LEMMA QuoteItemsType ==
  ASSUME NEW table \in [Quote -> QuoteRow], NEW x, NEW s \in Content
  PROVE  [table EXCEPT ![x].items = s] \in [Quote -> QuoteRow]
BY DEF QuoteRow

\* A reading with some of its fields filled in.
LEMMA OpType ==
  ASSUME NEW r \in Reading, NEW op \in Operation
  PROVE  [r EXCEPT !.op = op] \in Reading
BY DEF Reading

LEMMA VersionedType ==
  ASSUME NEW r \in Reading, NEW v \in VisitStatus \cup {"none"}, NEW b \in BOOLEAN
  PROVE  [r EXCEPT !.visit = v, !.versioned = b] \in Reading
BY DEF Reading

LEMMA StatusType ==
  ASSUME NEW r \in Reading, NEW s \in OrderStatus
  PROVE  [r EXCEPT !.status = s] \in Reading
BY DEF Reading

\* Every step of the inspections keeps the types.
LEMMA InspectionType ==
  ASSUME TypeOK, InspectionNext
  PROVE  TypeOK'
<1> USE DEF ReadingsOK
<1>0. ReadingsOK(reading)
  BY DEF TypeOK
<1>1. PICK c \in Clerk :
        \/ ReadVisit(c) \/ CheckOpen(c) \/ CreateInspection(c)
        \/ UpdateResults(c) \/ ReadCompleteVisit(c) \/ CompleteInspection(c)
        \/ \E i \in Inspection : ReadResults(c, i) \/ ReadComplete(c, i)
  BY DEF InspectionNext
<1>2. ReadingsOK(Done(c))
  BY <1>0, DoneType
<1>3. CASE ReadVisit(c)
  <2>1. Read("inspect", 0) \in Reading
    BY ReadType DEF Operation
  <2> DEFINE b == visit = "waiting"
  <2>0. b \in BOOLEAN
    OBVIOUS
  <2> HIDE DEF b
  <2>2. [Read("inspect", 0) EXCEPT !.visit = visit, !.versioned = b] \in Reading
    BY <2>0, <2>1, VersionedType DEF TypeOK
  <2> QED
    BY <1>0, <1>3, <2>2, ReadsType DEF ReadVisit, TypeOK, rows, b
<1>4. CASE CheckOpen(c)
  <2>1. [reading[c] EXCEPT !.op = "inspect visit"] \in Reading
    BY <1>0, OpType DEF Operation
  <2> QED
    BY <1>0, <1>4, <2>1, ReadsType DEF CheckOpen, TypeOK, rows
<1>5. CASE CreateInspection(c)
  <2>1. visit' \in VisitStatus /\ ReadingsOK(reading')
    BY <1>2, <1>5, VisitType DEF CreateInspection, VisitStatus, TypeOK
  <2>2. insp' \in [Inspection -> InspectionRow]
    BY <1>5 DEF CreateInspection, TypeOK, InspectionRow, InspectionStatus
  <2> QED
    BY <1>5, <2>1, <2>2 DEF CreateInspection, TypeOK
<1>6. CASE UpdateResults(c)
  <2>1. visit' \in VisitStatus /\ ReadingsOK(reading')
    BY <1>2, <1>6, VisitType DEF UpdateResults, TypeOK
  <2>2. PICK full \in BOOLEAN :
          insp' = [insp EXCEPT ![reading[c].id] = [status |-> "in_progress", full |-> full]]
    BY <1>6 DEF UpdateResults
  <2>3. [status |-> "in_progress", full |-> full] \in InspectionRow
    BY DEF InspectionRow, InspectionStatus
  <2>4. insp' \in [Inspection -> InspectionRow]
    BY <2>2, <2>3 DEF TypeOK
  <2> QED
    BY <1>6, <2>1, <2>4 DEF UpdateResults, TypeOK
<1>7. CASE ReadCompleteVisit(c)
  <2> DEFINE b == visit # "waitingApproval"
  <2>0. b \in BOOLEAN
    OBVIOUS
  <2> HIDE DEF b
  <2>1. [reading[c] EXCEPT !.op = "complete inspection", !.visit = visit,
                           !.versioned = b] \in Reading
    BY <1>0, <2>0 DEF TypeOK, Operation, Reading
  <2> QED
    BY <1>0, <1>7, <2>1, ReadsType DEF ReadCompleteVisit, TypeOK, rows, b
<1>8. CASE CompleteInspection(c)
  <2>1. visit' \in VisitStatus /\ ReadingsOK(reading')
    BY <1>2, <1>8, VisitType DEF CompleteInspection, VisitStatus, TypeOK
  <2>2. insp' \in [Inspection -> InspectionRow]
    BY <1>8 DEF CompleteInspection, TypeOK, InspectionRow, InspectionStatus
  <2>3. quote' \in [Quote -> QuoteRow]
    BY <1>8, AddQuoteType DEF CompleteInspection, TypeOK
  <2> QED
    BY <1>8, <2>1, <2>2, <2>3 DEF CompleteInspection, TypeOK
<1>9. ASSUME NEW i \in Inspection, ReadResults(c, i) \/ ReadComplete(c, i)
      PROVE  TypeOK'
  <2>1. Read("results", i) \in Reading /\ Read("inspected", i) \in Reading
    BY ReadRowType DEF Operation
  <2> QED
    BY <1>0, <1>9, <2>1, ReadsType DEF ReadResults, ReadComplete, TypeOK, rows
<1> QED
  BY <1>1, <1>3, <1>4, <1>5, <1>6, <1>7, <1>8, <1>9

\* A write of the visit to a known status, or none, keeps the types of both.
LEMMA DecidedType ==
  ASSUME TypeOK, NEW c \in Clerk, NEW s \in VisitStatus,
         VisitTo(s, Done(c)) \/ VisitKept(Done(c))
  PROVE  visit' \in VisitStatus /\ ReadingsOK(reading')
<1>1. ReadingsOK(Done(c))
  BY DoneType DEF TypeOK, ReadingsOK
<1> QED
  BY <1>1, VisitType

\* Approving keeps the order table and the tasks typed.
LEMMA OrderForApprovalType ==
  ASSUME TypeOK, NEW r, OrderForApproval(r)
  PROVE  wo' \in [WorkOrder -> OrderStatus] /\ task' \in [Task -> TaskRow]
<1>1. CASE \E n \in 1..NewTasks : AddOrder(n)
  BY <1>1, AddOrderType
<1>2. CASE /\ \E ts : task' \in {TasksTo(ts, "assigned"), task}
           /\ wo' = wo
  BY <1>2, TasksToType DEF TypeOK, TaskStatus
<1> QED
  BY <1>1, <1>2 DEF OrderForApproval

\* What the search for an order reads is well typed.
LEMMA FindOrderType ==
  ASSUME TypeOK, NEW c \in Clerk, FindOrder(c)
  PROVE  ReadingsOK(reading')
<1> DEFINE found(w) == [reading[c] EXCEPT !.op = "approving", !.order = w,
                                          !.status = wo[w], !.set = Blocked(w)]
<1>0. ReadingsOK(reading) /\ reading[c] \in Reading /\ "approving" \in Operation
  BY DEF TypeOK, ReadingsOK, Operation
<1>1. [reading[c] EXCEPT !.op = "approving"] \in Reading
  BY <1>0, OpType
<1>2. ASSUME NEW w \in LiveOrders
      PROVE  found(w) \in Reading
  <2>1. w \in WorkOrder /\ wo[w] \in OrderStatus
    BY DEF LiveOrders, TypeOK
  <2>2. Blocked(w) \in SUBSET (Task \cup Quote)
    BY DEF Blocked, TasksOf
  <2> QED
    BY <1>0, <2>1, <2>2 DEF Reading
<1>3. \E r \in Reading : Reads(c, r)
  BY <1>1, <1>2 DEF FindOrder
<1> QED
  BY <1>0, <1>3, ReadsType

\* Every step of the quotations keeps the types.
LEMMA QuotationType ==
  ASSUME TypeOK, QuotationNext
  PROVE  TypeOK'
<1>0. ReadingsOK(reading)
  BY DEF TypeOK, ReadingsOK
<1>1. CASE CreateQuote
  BY <1>1, AddQuoteType DEF CreateQuote, TypeOK
<1>2. ASSUME NEW q \in Quote, Send(q) \/ Lapse(q)
      PROVE  TypeOK'
  <2>1. CASE Send(q)
    <3>1. visit' \in VisitStatus /\ ReadingsOK(reading')
      BY <1>0, <2>1, VisitType DEF Send, VisitStatus, TypeOK
    <3>2. quote' \in [Quote -> QuoteRow]
      BY <2>1 DEF Send, TypeOK, QuoteRow, QuoteStatus
    <3> QED
      BY <2>1, <3>1, <3>2 DEF Send, TypeOK, ReadingsOK
  <2>2. CASE Lapse(q)
    BY <2>2 DEF Lapse, TypeOK, QuoteRow
  <2> QED
    BY <1>2, <2>1, <2>2
<1>3. ASSUME NEW c \in Clerk, UpdateItems(c)
      PROVE  TypeOK'
  <2>1. visit' \in VisitStatus /\ ReadingsOK(reading')
    BY <1>3, DecidedType DEF UpdateItems, TypeOK
  <2>2. quote' \in [Quote -> QuoteRow]
    BY <1>3, QuoteItemsType DEF UpdateItems, TypeOK
  <2> QED
    BY <1>3, <2>1, <2>2 DEF UpdateItems, TypeOK, ReadingsOK
<1>4. ASSUME NEW c \in Clerk, Approve(c)
      PROVE  TypeOK'
  <2>1. visit' \in VisitStatus /\ ReadingsOK(reading')
    BY <1>4, DecidedType DEF Approve, VisitStatus, TypeOK
  <2>2. quote' \in [Quote -> QuoteRow]
    BY <1>4, QuoteStatusType DEF Approve, TypeOK, QuoteStatus
  <2>3. wo' \in [WorkOrder -> OrderStatus] /\ task' \in [Task -> TaskRow]
    BY <1>4, OrderForApprovalType DEF Approve
  <2> QED
    BY <1>4, <2>1, <2>2, <2>3 DEF Approve, TypeOK, ReadingsOK
<1>5. ASSUME NEW c \in Clerk, ReadOverdue(c)
      PROVE  TypeOK'
  <2> DEFINE overdue == {q \in Quote : quote[q].status = "pending" /\ quote[q].overdue}
  <2>1. Read("expire", 0) \in Reading
    BY ReadType DEF Operation
  <2>2. overdue \in SUBSET (Task \cup Quote)
    OBVIOUS
  <2>3. Reads(c, [Read("expire", 0) EXCEPT !.set = overdue])
    BY <1>5 DEF ReadOverdue
  <2> HIDE DEF overdue
  <2>4. [Read("expire", 0) EXCEPT !.set = overdue] \in Reading
    BY <2>1, <2>2 DEF Reading
  <2> QED
    BY <1>0, <1>5, <2>3, <2>4, ReadsType DEF ReadOverdue, TypeOK, rows, ReadingsOK
<1>6. ASSUME NEW c \in Clerk, ExpireOverdue(c)
      PROVE  TypeOK'
  <2>1. visit' \in VisitStatus /\ ReadingsOK(reading')
    BY <1>6, DecidedType DEF ExpireOverdue, TypeOK
  <2>2. quote' \in [Quote -> QuoteRow]
    BY <1>6 DEF ExpireOverdue, TypeOK, QuoteRow, QuoteStatus
  <2> QED
    BY <1>6, <2>1, <2>2 DEF ExpireOverdue, TypeOK, ReadingsOK
<1>7. ASSUME NEW c \in Clerk, NEW q \in Quote, NewVersion(c, q)
      PROVE  TypeOK'
  <2>1. visit' \in VisitStatus /\ ReadingsOK(reading')
    BY <1>7, DecidedType DEF NewVersion, TypeOK
  <2> DEFINE table == [quote EXCEPT ![q].status = "superseded"]
  <2>2. table \in [Quote -> QuoteRow]
    BY QuoteStatusType DEF TypeOK, QuoteStatus
  <2>3. reading[c].items \in Content \cup {NoItems}
    BY DEF TypeOK, Reading
  <2>4. AddQuote(table, reading[c].items, q)
    BY <1>7 DEF NewVersion
  <2> HIDE DEF table
  <2>5. quote' \in [Quote -> QuoteRow]
    BY <2>2, <2>3, <2>4, AddQuoteType
  <2> QED
    BY <1>7, <2>1, <2>5 DEF NewVersion, TypeOK, ReadingsOK
<1>8. ASSUME NEW c \in Clerk, NEW q \in Quote, ReadEdit(c, q)
      PROVE  TypeOK'
  <2>1. Read("edit", q) \in Reading
    BY ReadRowType DEF Operation
  <2> QED
    BY <1>0, <1>8, <2>1, ReadsType DEF ReadEdit, TypeOK, rows, ReadingsOK
<1>9. ASSUME NEW c \in Clerk, NEW q \in Quote, ReadApprove(c, q)
      PROVE  TypeOK'
  <2>1. Read("approve", q) \in Reading
    BY ReadRowType DEF Operation
  <2> DEFINE b == visit = "waitingApproval"
  <2>2. b \in BOOLEAN
    OBVIOUS
  <2>3. Reads(c, [Read("approve", q) EXCEPT !.visit = visit, !.versioned = b])
    BY <1>9 DEF ReadApprove
  <2> HIDE DEF b
  <2>4. [Read("approve", q) EXCEPT !.visit = visit, !.versioned = b] \in Reading
    BY <2>1, <2>2, VersionedType DEF TypeOK
  <2> QED
    BY <1>0, <1>9, <2>3, <2>4, ReadsType DEF ReadApprove, TypeOK, rows, ReadingsOK
<1>10. ASSUME NEW c \in Clerk, NEW q \in Quote, ReadVersion(c, q)
       PROVE  TypeOK'
  <2>1. Read("version", q) \in Reading
    BY ReadRowType DEF Operation
  <2>2. quote[q].items \in Content \cup {NoItems}
    BY DEF TypeOK, QuoteRow
  <2>3. [Read("version", q) EXCEPT !.items = quote[q].items] \in Reading
    BY <2>1, <2>2 DEF Reading
  <2> QED
    BY <1>0, <1>10, <2>3, ReadsType DEF ReadVersion, TypeOK, rows, ReadingsOK
<1>11. ASSUME NEW c \in Clerk, NEW s \in {"rejected", "draft"}, Decide(c, s)
       PROVE  TypeOK'
  <2>1. visit' \in VisitStatus /\ ReadingsOK(reading')
    BY <1>11, DecidedType DEF Decide, TypeOK
  <2>2. quote' \in [Quote -> QuoteRow]
    BY <1>11, QuoteStatusType DEF Decide, TypeOK, QuoteStatus
  <2> QED
    BY <1>11, <2>1, <2>2 DEF Decide, TypeOK, ReadingsOK
<1>12. ASSUME NEW c \in Clerk, NEW s \in {"rejected", "draft"}, NEW q \in Quote,
              ReadDecision(c, q, s)
       PROVE  TypeOK'
  <2>1. Read(s, q) \in Reading
    BY <1>12, ReadRowType DEF Operation
  <2> QED
    BY <1>0, <1>12, <2>1, ReadsType DEF ReadDecision, TypeOK, rows, ReadingsOK
<1>13. ASSUME NEW c \in Clerk, FindOrder(c)
       PROVE  TypeOK'
  BY <1>13, FindOrderType DEF FindOrder, TypeOK, rows, ReadingsOK
<1> QED
  BY <1>1, <1>2, <1>3, <1>4, <1>5, <1>6, <1>7, <1>8, <1>9, <1>10, <1>11, <1>12, <1>13
  DEF QuotationNext

\* Every step of the work orders keeps the types.
LEMMA WorkOrderType ==
  ASSUME TypeOK, WorkOrderNext
  PROVE  TypeOK'
<1>0. ReadingsOK(reading)
  BY DEF TypeOK, ReadingsOK
<1>1. ASSUME NEW w \in WorkOrder, Assign(w) \/ Cancel(w)
      PROVE  TypeOK'
  <2>1. wo' \in [WorkOrder -> OrderStatus]
    BY <1>1 DEF Assign, Cancel, TypeOK, OrderStatus
  <2>2. task' \in [Task -> TaskRow]
    BY <1>1, TasksToType DEF Assign, Cancel, TypeOK, TaskStatus
  <2> QED
    BY <1>1, <2>1, <2>2 DEF Assign, Cancel, TypeOK
<1>2. ASSUME NEW t \in Task, PauseTask(t) \/ CompleteTask(t)
      PROVE  TypeOK'
  <2>1. task' \in [Task -> TaskRow]
    BY <1>2, TasksToType DEF PauseTask, CompleteTask, MoveTask, TaskStatus
  <2> QED
    BY <1>2, <2>1 DEF PauseTask, CompleteTask, MoveTask, TypeOK
<1>3. ASSUME NEW c \in Clerk, ReadNewOrder(c)
      PROVE  TypeOK'
  <2>1. Read("new order", 0) \in Reading
    BY ReadType DEF Operation
  <2> QED
    BY <1>0, <1>3, <2>1, ReadsType DEF ReadNewOrder, TypeOK, rows, ReadingsOK
<1>4. ASSUME NEW c \in Clerk, CreateOrder(c)
      PROVE  TypeOK'
  <2>1. visit' \in VisitStatus /\ ReadingsOK(reading')
    BY <1>4, DecidedType DEF CreateOrder, TypeOK
  <2>2. wo' \in [WorkOrder -> OrderStatus] /\ task' \in [Task -> TaskRow]
    BY <1>4, AddOrderType DEF CreateOrder
  <2> QED
    BY <1>4, <2>1, <2>2 DEF CreateOrder, TypeOK, ReadingsOK
<1>5. ASSUME NEW c \in Clerk, NEW w \in WorkOrder, ReadStart(c, w)
      PROVE  TypeOK'
  <2> DEFINE b == visit = "readyForRepair"
             v == IF visit = "readyForRepair" THEN visit ELSE "none"
  <2>1. b \in BOOLEAN /\ v \in VisitStatus \cup {"none"}
    BY DEF TypeOK
  <2>2. Read("start", w) \in Reading
    BY ReadRowType DEF Operation
  <2>3. wo[w] \in OrderStatus
    BY DEF TypeOK
  <2>4. Reads(c, [Read("start", w) EXCEPT !.status = wo[w], !.visit = v, !.versioned = b])
    BY <1>5 DEF ReadStart
  <2> HIDE DEF b, v
  <2>5. [Read("start", w) EXCEPT !.status = wo[w], !.visit = v, !.versioned = b]
          \in Reading
    BY <2>1, <2>2, <2>3 DEF Reading
  <2> QED
    BY <1>0, <1>5, <2>4, <2>5, ReadsType DEF ReadStart, TypeOK, rows, ReadingsOK
<1>6. ASSUME NEW c \in Clerk, NEW w \in WorkOrder, Start(c, w)
      PROVE  TypeOK'
  <2>1. visit' \in VisitStatus /\ ReadingsOK(reading')
    BY <1>6, DecidedType DEF Start, TypeOK, VisitStatus
  <2>2. wo' \in [WorkOrder -> OrderStatus]
    BY <1>6 DEF Start, TypeOK, OrderStatus
  <2>3. task' \in [Task -> TaskRow]
    BY <1>6, TasksToType DEF Start, TaskStatus
  <2> QED
    BY <1>6, <2>1, <2>2, <2>3 DEF Start, TypeOK, ReadingsOK
<1>7. ASSUME NEW c \in Clerk, NEW w \in WorkOrder, ReadPause(c, w)
      PROVE  TypeOK'
  <2> DEFINE ts == TasksIn(w, {"in_progress"})
  <2>1. ts \in SUBSET (Task \cup Quote)
    BY DEF TasksIn, TasksOf
  <2>2. Read("pause", w) \in Reading
    BY ReadRowType DEF Operation
  <2>3. Reads(c, [Read("pause", w) EXCEPT !.set = ts])
    BY <1>7 DEF ReadPause
  <2> HIDE DEF ts
  <2>4. [Read("pause", w) EXCEPT !.set = ts] \in Reading
    BY <2>1, <2>2 DEF Reading
  <2> QED
    BY <1>0, <1>7, <2>3, <2>4, ReadsType DEF ReadPause, TypeOK, rows, ReadingsOK
<1>8. ASSUME NEW c \in Clerk, NEW w \in WorkOrder, Pause(c, w)
      PROVE  TypeOK'
  <2>1. visit' \in VisitStatus /\ ReadingsOK(reading')
    BY <1>8, DecidedType DEF Pause, TypeOK
  <2>2. wo' \in [WorkOrder -> OrderStatus]
    BY <1>8 DEF Pause, TypeOK, OrderStatus
  <2>3. task' \in [Task -> TaskRow]
    BY <1>8, TasksToType DEF Pause, TaskStatus
  <2> QED
    BY <1>8, <2>1, <2>2, <2>3 DEF Pause, TypeOK, ReadingsOK
<1>9. ASSUME NEW c \in Clerk, NEW w \in WorkOrder, ReadCompleteOrder(c, w)
      PROVE  TypeOK'
  <2> DEFINE ts == {t \in TasksOf(w) : task[t].status \notin {"completed", "blocked"}}
  <2>1. ts \in SUBSET (Task \cup Quote)
    BY DEF TasksOf
  <2>2. Read("complete", w) \in Reading
    BY ReadRowType DEF Operation
  <2>3. wo[w] \in OrderStatus
    BY DEF TypeOK
  <2>4. Reads(c, [Read("complete", w) EXCEPT !.status = wo[w], !.set = ts])
    BY <1>9 DEF ReadCompleteOrder
  <2> HIDE DEF ts
  <2>5. [Read("complete", w) EXCEPT !.status = wo[w], !.set = ts] \in Reading
    BY <2>1, <2>2, <2>3 DEF Reading
  <2> QED
    BY <1>0, <1>9, <2>4, <2>5, ReadsType DEF ReadCompleteOrder, TypeOK, rows, ReadingsOK
<1>10. ASSUME NEW c \in Clerk, NEW w \in WorkOrder, CompleteOrder(c, w)
       PROVE  TypeOK'
  <2>1. visit' \in VisitStatus /\ ReadingsOK(reading')
    BY <1>10, DecidedType DEF CompleteOrder, TypeOK
  <2>2. task' \in [Task -> TaskRow]
    BY <1>10, TasksToType DEF CompleteOrder, TaskStatus
  <2> QED
    BY <1>10, <2>1, <2>2 DEF CompleteOrder, TypeOK, ReadingsOK
<1>11. ASSUME NEW c \in Clerk, NEW w \in WorkOrder, ReadSendToQc(c, w)
       PROVE  TypeOK'
  <2>1. Read("send to qc", w) \in Reading
    BY ReadRowType DEF Operation
  <2> QED
    BY <1>0, <1>11, <2>1, ReadsType DEF ReadSendToQc, TypeOK, rows, ReadingsOK
<1>12. ASSUME NEW c \in Clerk, NEW w \in WorkOrder, SendToQc(c, w)
       PROVE  TypeOK'
  <2>1. visit' \in VisitStatus /\ ReadingsOK(reading')
    BY <1>12, DecidedType DEF SendToQc, TypeOK, VisitStatus
  <2>2. wo' \in [WorkOrder -> OrderStatus]
    BY <1>12 DEF SendToQc, TypeOK, OrderStatus
  <2>3. qc' = qc \/ AddCheck(w)
    BY <1>12 DEF SendToQc
  <2>4. qc' \in [Check -> CheckRow]
    BY <2>3, AddCheckType DEF TypeOK
  <2> QED
    BY <1>12, <2>1, <2>2, <2>4 DEF SendToQc, TypeOK, ReadingsOK
<1>13. ASSUME NEW c \in Clerk, NEW w \in WorkOrder, ReadIssue(c, w)
       PROVE  TypeOK'
  <2>1. [Read("issue", w) EXCEPT !.status = wo[w]] \in Reading
    BY ReadRowType, StatusType DEF Operation, TypeOK
  <2> QED
    BY <1>0, <1>13, <2>1, ReadsType DEF ReadIssue, TypeOK, rows, ReadingsOK
<1>14. ASSUME NEW c \in Clerk, NEW w \in WorkOrder, AdditionalIssue(c, w)
       PROVE  TypeOK'
  <2>1. visit' \in VisitStatus /\ ReadingsOK(reading')
    BY <1>14, DecidedType DEF AdditionalIssue, TypeOK
  <2>2. wo' \in [WorkOrder -> OrderStatus]
    BY <1>14 DEF AdditionalIssue, TypeOK, OrderStatus
  <2>3. task' \in [Task -> TaskRow]
    BY <1>14, TasksToType DEF AdditionalIssue, TaskStatus
  <2>4. quote' \in [Quote -> QuoteRow]
    BY <1>14, AddQuoteType DEF AdditionalIssue, TypeOK
  <2> QED
    BY <1>14, <2>1, <2>2, <2>3, <2>4 DEF AdditionalIssue, TypeOK, ReadingsOK
<1>15. ASSUME NEW c \in Clerk, NEW t \in Task, ReadStartTask(c, t)
       PROVE  TypeOK'
  <2>1. PICK w \in WorkOrder : Reads(c, [Read("start task", t) EXCEPT !.status = wo[w]])
    BY <1>15 DEF ReadStartTask
  <2>2. [Read("start task", t) EXCEPT !.status = wo[w]] \in Reading
    BY ReadRowType, StatusType DEF Operation, TypeOK
  <2> QED
    BY <1>0, <1>15, <2>1, <2>2, ReadsType DEF ReadStartTask, TypeOK, rows, ReadingsOK
<1>16. ASSUME NEW c \in Clerk, NEW t \in Task, StartTask(c, t)
       PROVE  TypeOK'
  <2>1. visit' \in VisitStatus /\ ReadingsOK(reading')
    BY <1>16, DecidedType DEF StartTask, TypeOK
  <2>2. wo' \in [WorkOrder -> OrderStatus]
    BY <1>16 DEF StartTask, TypeOK, OrderStatus
  <2>3. task' \in [Task -> TaskRow]
    BY <1>16, TasksToType DEF StartTask, TaskStatus
  <2> QED
    BY <1>16, <2>1, <2>2, <2>3 DEF StartTask, TypeOK, ReadingsOK
<1> QED
  BY <1>1, <1>2, <1>3, <1>4, <1>5, <1>6, <1>7, <1>8, <1>9, <1>10, <1>11, <1>12,
     <1>13, <1>14, <1>15, <1>16
  DEF WorkOrderNext

\* Every step of quality control keeps the types.
LEMMA QualityType ==
  ASSUME TypeOK, QualityNext
  PROVE  TypeOK'
<1>0. ReadingsOK(reading)
  BY DEF TypeOK, ReadingsOK
<1>1. ASSUME NEW c \in Clerk, MarkItems(c)
      PROVE  TypeOK'
  <2>1. visit' \in VisitStatus /\ ReadingsOK(reading')
    BY <1>1, DecidedType DEF MarkItems, TypeOK
  <2>2. PICK items \in CheckItems : qc' = [qc EXCEPT ![reading[c].id].items = items]
    BY <1>1 DEF MarkItems
  <2>3. qc' \in [Check -> CheckRow]
    BY <2>2 DEF TypeOK, CheckRow
  <2> QED
    BY <1>1, <2>1, <2>3 DEF MarkItems, TypeOK, ReadingsOK
<1>2. ASSUME NEW c \in Clerk, NEW w \in WorkOrder, ReadNewCheck(c, w)
      PROVE  TypeOK'
  <2>1. Read("new check", w) \in Reading
    BY ReadRowType DEF Operation
  <2> QED
    BY <1>0, <1>2, <2>1, ReadsType DEF ReadNewCheck, TypeOK, rows, ReadingsOK
<1>3. ASSUME NEW c \in Clerk, NEW w \in WorkOrder, CreateCheck(c, w)
      PROVE  TypeOK'
  <2>1. visit' \in VisitStatus /\ ReadingsOK(reading')
    BY <1>3, DecidedType DEF CreateCheck, TypeOK
  <2>2. qc' \in [Check -> CheckRow]
    BY <1>3, AddCheckType DEF CreateCheck
  <2> QED
    BY <1>3, <2>1, <2>2 DEF CreateCheck, TypeOK, ReadingsOK
<1>4. ASSUME NEW c \in Clerk, NEW k \in Check, ReadMark(c, k)
      PROVE  TypeOK'
  <2>1. Read("mark", k) \in Reading
    BY ReadRowType DEF Operation
  <2> QED
    BY <1>0, <1>4, <2>1, ReadsType DEF ReadMark, TypeOK, rows, ReadingsOK
<1>5. ASSUME NEW c \in Clerk, NEW k \in Check, ReadPass(c, k) \/ ReadFail(c, k)
      PROVE  TypeOK'
  <2>1. PICK op \in {"pass", "fail"}, items \in CheckItems : ReadVerdict(c, k, op, items)
    BY <1>5 DEF ReadPass, ReadFail, CheckItems
  <2>2. PICK w \in WorkOrder :
          Reads(c, [Read(op, k) EXCEPT !.status = wo[w], !.visit = visit,
                                       !.versioned = TRUE])
    BY <2>1 DEF ReadVerdict
  <2>3. op \in Operation
    BY <2>1 DEF Operation
  <2>4. [Read(op, k) EXCEPT !.status = wo[w]] \in Reading
    BY <2>3, ReadRowType, StatusType DEF TypeOK
  <2>5. [Read(op, k) EXCEPT !.status = wo[w], !.visit = visit, !.versioned = TRUE]
          \in Reading
    BY <2>4, VersionedType DEF TypeOK
  <2> QED
    BY <1>0, <2>1, <2>2, <2>5, ReadsType DEF ReadVerdict, TypeOK, rows, ReadingsOK
<1>6. ASSUME NEW c \in Clerk, NEW k \in Check, Pass(c, k)
      PROVE  TypeOK'
  <2>1. visit' \in VisitStatus /\ ReadingsOK(reading')
    BY <1>6, DecidedType DEF Pass, VisitStatus
  <2>2. qc' \in [Check -> CheckRow]
    BY <1>6 DEF Pass, TypeOK, CheckRow, CheckStatus
  <2>3. wo' \in [WorkOrder -> OrderStatus]
    BY <1>6 DEF Pass, OrderTo, TypeOK, OrderStatus
  <2> QED
    BY <1>6, <2>1, <2>2, <2>3 DEF Pass, TypeOK, ReadingsOK
<1>7. ASSUME NEW c \in Clerk, NEW k \in Check, Fail(c, k)
      PROVE  TypeOK'
  <2>1. visit' \in VisitStatus /\ ReadingsOK(reading')
    BY <1>7, DecidedType DEF Fail, VisitStatus
  <2>2. qc' \in [Check -> CheckRow]
    BY <1>7 DEF Fail, TypeOK, CheckRow, CheckStatus
  <2>3. wo' \in [WorkOrder -> OrderStatus]
    BY <1>7 DEF Fail, OrderTo, TypeOK, OrderStatus
  <2>4. task' \in [Task -> TaskRow]
    BY <1>7 DEF Fail, AddRework, TypeOK, TaskRow, TaskStatus, CheckRow
  <2> QED
    BY <1>7, <2>1, <2>2, <2>3, <2>4 DEF Fail, TypeOK, ReadingsOK
<1> QED
  BY <1>1, <1>2, <1>3, <1>4, <1>5, <1>6, <1>7 DEF QualityNext

\* The visit's own steps keep the types.
LEMMA VisitStepType ==
  ASSUME TypeOK, VisitNext
  PROVE  TypeOK'
<1>0. ReadingsOK(reading)
  BY DEF TypeOK, ReadingsOK
<1>1. ASSUME NEW to \in VisitStatus, Transition(to)
      PROVE  TypeOK'
  BY <1>0, <1>1, VisitType DEF Transition, TypeOK, ReadingsOK
<1>2. CASE Deliver
  <2>1. visit' \in VisitStatus /\ ReadingsOK(reading')
    BY <1>0, <1>2, VisitType DEF Deliver, VisitStatus
  <2> QED
    BY <1>2, <2>1 DEF Deliver, TypeOK, ReadingsOK
<1>3. CASE SyncUpdate
  <2>1. visit' \in VisitStatus /\ ReadingsOK(reading')
    BY <1>0, <1>3, VisitType DEF SyncUpdate, TypeOK
  <2> QED
    BY <1>3, <2>1 DEF SyncUpdate, TypeOK, ReadingsOK
<1>4. ASSUME NEW c \in Clerk, GiveUp(c)
      PROVE  TypeOK'
  BY <1>0, <1>4, DoneType DEF GiveUp, TypeOK, rows, ReadingsOK
<1> QED
  BY <1>1, <1>2, <1>3, <1>4 DEF VisitNext

LEMMA TypeStep == TypeOK /\ [Next]_vars => TypeOK'
<1> SUFFICES ASSUME TypeOK, [Next]_vars PROVE TypeOK'
  OBVIOUS
<1>1. CASE UNCHANGED vars
  BY <1>1 DEF vars, rows, TypeOK
<1> QED
  BY <1>1, VisitStepType, InspectionType, QuotationType, WorkOrderType, QualityType
  DEF Next

LEMMA InitType == Init => TypeOK
<1> SUFFICES ASSUME Init PROVE TypeOK
  OBVIOUS
<1>1. reading \in [Clerk -> Reading]
  BY IdleType DEF Init
<1>2. visit \in VisitStatus /\ wo \in [WorkOrder -> OrderStatus]
  BY DEF Init, VisitStatus, OrderStatus
<1>3. insp \in [Inspection -> InspectionRow] /\ quote \in [Quote -> QuoteRow]
  BY DEF Init, InspectionRow, InspectionStatus, QuoteRow, QuoteStatus
<1>4. task \in [Task -> TaskRow] /\ qc \in [Check -> CheckRow]
  BY DEF Init, TaskRow, TaskStatus, CheckRow, CheckStatus, CheckItems
<1> QED
  BY <1>1, <1>2, <1>3, <1>4 DEF TypeOK

\* The rows of a visit and the clerks' readings keep their types, for any number
\* of rows and of clerks: no routine writes a status its table does not know.
THEOREM TypeCorrect == Spec => []TypeOK
<1> QED
  BY InitType, TypeStep, PTL DEF Spec

-----------------------------------------------------------------------------
\* What a reading says of a visit in status v: it is as read if the write will
\* name its version, and every write that moves the visit does.
Fresh(r, v) ==
  /\ r.versioned => v = r.visit
  /\ r.op \in {"inspect", "inspect visit"} /\ r.visit = "waiting" => r.versioned
  /\ r.op = "complete inspection" /\ r.visit # "waitingApproval" =>
       r.versioned /\ "waitingApproval" \in VisitMoves[r.visit]
  /\ r.op \in {"approve", "approving"} /\ r.visit = "waitingApproval" => r.versioned
  /\ r.op = "start" /\ r.visit = "readyForRepair" => r.versioned
  /\ r.op \in {"pass", "fail"} => r.versioned /\ r.visit = "qualityCheck"

AllFresh(r, v) == \A c \in Clerk : Fresh(r[c], v)

LEMMA IdleFresh ==
  ASSUME NEW v
  PROVE  Fresh(Idle, v)
BY DEF Fresh, Idle, Read

LEMMA DoneFresh ==
  ASSUME TypeOK, NEW v, AllFresh(reading, v), NEW c \in Clerk
  PROVE  AllFresh(Done(c), v)
BY IdleFresh DEF AllFresh, Done, TypeOK

\* A reading that survives a write of the visit relied on no version.
LEMMA RefusedFresh ==
  ASSUME NEW r, NEW v, NEW s, AllFresh(r, v)
  PROVE  AllFresh(Refused(r), s)
<1> SUFFICES ASSUME NEW c \in Clerk PROVE Fresh(Refused(r)[c], s)
  BY DEF AllFresh
<1>1. CASE r[c].versioned
  BY <1>1, IdleFresh DEF Refused
<1>2. CASE ~r[c].versioned
  <2>1. Refused(r)[c] = r[c]
    BY <1>2 DEF Refused
  <2>2. Fresh(r[c], v)
    BY DEF AllFresh
  <2>3. Fresh(r[c], s)
    BY <1>2, <2>2 DEF Fresh
  <2> QED
    BY <2>1, <2>3
<1> QED
  BY <1>1, <1>2

LEMMA WriteFresh ==
  ASSUME NEW r, AllFresh(r, visit), NEW s, VisitTo(s, r) \/ VisitKept(r)
  PROVE  AllFresh(reading', visit')
BY RefusedFresh DEF VisitTo, VisitKept

LEMMA DecidedFresh ==
  ASSUME TypeOK, AllFresh(reading, visit), NEW c \in Clerk, NEW s,
         VisitTo(s, Done(c)) \/ VisitKept(Done(c))
  PROVE  AllFresh(reading', visit')
<1>1. AllFresh(Done(c), visit)
  BY DoneFresh
<1> QED
  BY <1>1, WriteFresh

LEMMA ReadsFresh ==
  ASSUME TypeOK, AllFresh(reading, visit), NEW c \in Clerk, NEW r,
         Fresh(r, visit), Reads(c, r), visit' = visit
  PROVE  AllFresh(reading', visit')
BY DEF AllFresh, Reads, TypeOK

\* What every step owes.
MovesFresh == AllFresh(reading', visit') /\ (visit' # visit => visit' \in VisitMoves[visit])

LEMMA DecidedKept ==
  ASSUME TypeOK, AllFresh(reading, visit), NEW c \in Clerk, VisitKept(Done(c))
  PROVE  MovesFresh
BY DecidedFresh DEF VisitKept, MovesFresh

LEMMA ReadsMovesFresh ==
  ASSUME TypeOK, AllFresh(reading, visit), NEW c \in Clerk, NEW r,
         Fresh(r, visit), Reads(c, r), visit' = visit
  PROVE  MovesFresh
BY ReadsFresh DEF MovesFresh

\* Every step keeps the readings fresh and the visit on its table.
LEMMA InspectionFresh ==
  ASSUME TypeOK, AllFresh(reading, visit), InspectionNext
  PROVE  MovesFresh
<1>1. PICK c \in Clerk :
        \/ ReadVisit(c) \/ CheckOpen(c) \/ CreateInspection(c)
        \/ UpdateResults(c) \/ ReadCompleteVisit(c) \/ CompleteInspection(c)
        \/ \E i \in Inspection : ReadResults(c, i) \/ ReadComplete(c, i)
  BY DEF InspectionNext
<1>2. Fresh(reading[c], visit) /\ reading[c] \in Reading /\ visit \in VisitStatus
  BY DEF AllFresh, TypeOK
<1>3. CASE ReadVisit(c)
  <2>1. Fresh([Read("inspect", 0) EXCEPT !.visit = visit, !.versioned = visit = "waiting"],
              visit)
    BY DEF Fresh, Read
  <2> QED
    BY <1>3, <2>1, ReadsMovesFresh DEF ReadVisit, rows
<1>4. CASE CheckOpen(c)
  <2>1. Fresh([reading[c] EXCEPT !.op = "inspect visit"], visit)
    BY <1>2, <1>4 DEF CheckOpen, Fresh, Reading
  <2> QED
    BY <1>4, <2>1, ReadsMovesFresh DEF CheckOpen, rows
<1>5. CASE CreateInspection(c)
  <2>1. AllFresh(reading', visit')
    BY <1>5, DecidedFresh DEF CreateInspection
  <2>2. CASE reading[c].visit = "waiting"
    <3>1. visit = "waiting"
      BY <1>2, <1>5, <2>2 DEF Fresh, CreateInspection
    <3> QED
      BY <1>5, <2>1, <2>2, <3>1 DEF CreateInspection, VisitTo, VisitMoves, MovesFresh
  <2>3. CASE reading[c].visit # "waiting"
    BY <1>5, <2>1, <2>3 DEF CreateInspection, VisitKept, MovesFresh
  <2> QED
    BY <2>2, <2>3
<1>6. CASE UpdateResults(c)
  BY <1>6, DecidedKept DEF UpdateResults
<1>7. CASE ReadCompleteVisit(c)
  <2>1. Fresh([reading[c] EXCEPT !.op = "complete inspection", !.visit = visit,
                                 !.versioned = visit # "waitingApproval"], visit)
    BY <1>2, <1>7 DEF ReadCompleteVisit, Fresh, Reading
  <2> QED
    BY <1>7, <2>1, ReadsMovesFresh DEF ReadCompleteVisit, rows
<1>8. CASE CompleteInspection(c)
  <2>1. AllFresh(reading', visit')
    BY <1>8, DecidedFresh DEF CompleteInspection
  <2>2. CASE reading[c].visit # "waitingApproval"
    <3>1. "waitingApproval" \in VisitMoves[visit]
      BY <1>2, <1>8, <2>2 DEF Fresh, CompleteInspection
    <3> QED
      BY <1>8, <2>1, <2>2, <3>1 DEF CompleteInspection, VisitTo, MovesFresh
  <2>3. CASE reading[c].visit = "waitingApproval"
    BY <1>8, <2>1, <2>3 DEF CompleteInspection, VisitKept, MovesFresh
  <2> QED
    BY <2>2, <2>3
<1>9. ASSUME NEW i \in Inspection, ReadResults(c, i) \/ ReadComplete(c, i)
      PROVE  MovesFresh
  <2>1. Fresh(Read("results", i), visit) /\ Fresh(Read("inspected", i), visit)
    BY DEF Fresh, Read
  <2> QED
    BY <1>9, <2>1, ReadsMovesFresh DEF ReadResults, ReadComplete, rows
<1> QED
  BY <1>1, <1>3, <1>4, <1>5, <1>6, <1>7, <1>8, <1>9

LEMMA QuotationFresh ==
  ASSUME TypeOK, AllFresh(reading, visit), QuotationNext
  PROVE  MovesFresh
<1>0. \A c \in Clerk : Fresh(reading[c], visit)
  BY DEF AllFresh
<1>1. ASSUME CreateQuote \/ \E q \in Quote : Lapse(q)
      PROVE  MovesFresh
  BY <1>1 DEF CreateQuote, Lapse, MovesFresh
<1>2. ASSUME NEW q \in Quote, Send(q)
      PROVE  MovesFresh
  <2>1. AllFresh(reading', visit')
    BY <1>2, WriteFresh DEF Send
  <2>2. visit' # visit => visit' \in VisitMoves[visit]
    BY <1>2 DEF Send, Interruptible, VisitTo, VisitKept, VisitMoves
  <2> QED
    BY <2>1, <2>2 DEF MovesFresh
<1>3. ASSUME NEW c \in Clerk,
             \/ UpdateItems(c) \/ ExpireOverdue(c)
             \/ \E q \in Quote : NewVersion(c, q)
             \/ \E s \in {"rejected", "draft"} : Decide(c, s)
      PROVE  MovesFresh
  BY <1>3, DecidedKept DEF UpdateItems, ExpireOverdue, NewVersion, Decide
<1>4. ASSUME NEW c \in Clerk, Approve(c)
      PROVE  MovesFresh
  <2>1. AllFresh(reading', visit')
    BY <1>4, DecidedFresh DEF Approve
  <2>2. CASE reading[c].visit = "waitingApproval"
    <3>1. visit = "waitingApproval"
      BY <1>0, <1>4, <2>2 DEF Fresh, Approve
    <3> QED
      BY <1>4, <2>1, <2>2, <3>1 DEF Approve, VisitTo, VisitMoves, MovesFresh
  <2>3. CASE reading[c].visit # "waitingApproval"
    BY <1>4, <2>1, <2>3 DEF Approve, VisitKept, MovesFresh
  <2> QED
    BY <2>2, <2>3
<1>5. ASSUME NEW c \in Clerk, ReadOverdue(c)
      PROVE  MovesFresh
  <2>1. PICK overdue : Reads(c, [Read("expire", 0) EXCEPT !.set = overdue])
    BY <1>5 DEF ReadOverdue
  <2>2. Fresh([Read("expire", 0) EXCEPT !.set = overdue], visit)
    BY DEF Fresh, Read
  <2> QED
    BY <1>5, <2>1, <2>2, ReadsMovesFresh DEF ReadOverdue, rows
<1>6. ASSUME NEW c \in Clerk, NEW q \in Quote, ReadApprove(c, q)
      PROVE  MovesFresh
  <2>1. Fresh([Read("approve", q) EXCEPT !.visit = visit,
                                         !.versioned = visit = "waitingApproval"], visit)
    BY DEF Fresh, Read
  <2> QED
    BY <1>6, <2>1, ReadsMovesFresh DEF ReadApprove, rows
<1>7. ASSUME NEW c \in Clerk, NEW q \in Quote, ReadEdit(c, q) \/ ReadVersion(c, q)
      PROVE  MovesFresh
  <2>1. Fresh(Read("edit", q), visit)
    BY DEF Fresh, Read
  <2>2. Fresh([Read("version", q) EXCEPT !.items = quote[q].items], visit)
    BY DEF Fresh, Read
  <2> QED
    BY <1>7, <2>1, <2>2, ReadsMovesFresh DEF ReadEdit, ReadVersion, rows
<1>8. ASSUME NEW c \in Clerk, NEW s \in {"rejected", "draft"}, NEW q \in Quote,
             ReadDecision(c, q, s)
      PROVE  MovesFresh
  <2>1. Fresh(Read(s, q), visit)
    BY DEF Fresh, Read
  <2> QED
    BY <1>8, <2>1, ReadsMovesFresh DEF ReadDecision, rows
<1>9. ASSUME NEW c \in Clerk, FindOrder(c)
      PROVE  MovesFresh
  <2>1. PICK r : /\ Reads(c, r)
                 /\ r.op = "approving" /\ r.visit = reading[c].visit
                 /\ r.versioned = reading[c].versioned
    <3> DEFINE none == [reading[c] EXCEPT !.op = "approving"]
               found(w) == [reading[c] EXCEPT !.op = "approving", !.order = w,
                                              !.status = wo[w], !.set = Blocked(w)]
               same(r) == /\ r.op = "approving" /\ r.visit = reading[c].visit
                          /\ r.versioned = reading[c].versioned
    <3>1. reading[c] \in Reading
      BY DEF TypeOK
    <3>2. same(none)
      BY <3>1 DEF Reading
    <3>3. ASSUME NEW w \in LiveOrders
          PROVE  same(found(w))
      BY <3>1 DEF Reading
    <3>4. Reads(c, none) \/ \E w \in LiveOrders : Reads(c, found(w))
      BY <1>9 DEF FindOrder
    <3> HIDE DEF none, found
    <3> QED
      BY <3>2, <3>3, <3>4
  <2>2. reading[c].op = "approve"
    BY <1>9 DEF FindOrder
  <2>3. Fresh(r, visit)
    BY <1>0, <2>1, <2>2 DEF Fresh
  <2> QED
    BY <1>9, <2>1, <2>3, ReadsMovesFresh DEF FindOrder, rows
<1> QED
  BY <1>1, <1>2, <1>3, <1>4, <1>5, <1>6, <1>7, <1>8, <1>9 DEF QuotationNext

LEMMA WorkOrderFresh ==
  ASSUME TypeOK, AllFresh(reading, visit), WorkOrderNext
  PROVE  MovesFresh
<1>0. \A c \in Clerk : Fresh(reading[c], visit)
  BY DEF AllFresh
<1>1. ASSUME \/ \E w \in WorkOrder : Assign(w) \/ Cancel(w)
             \/ \E t \in Task : PauseTask(t) \/ CompleteTask(t)
      PROVE  MovesFresh
  BY <1>1 DEF Assign, Cancel, PauseTask, CompleteTask, MoveTask, MovesFresh
<1>2. ASSUME NEW c \in Clerk,
             \/ CreateOrder(c) \/ \E t \in Task : StartTask(c, t)
             \/ \E w \in WorkOrder : Pause(c, w) \/ CompleteOrder(c, w)
                                    \/ AdditionalIssue(c, w)
      PROVE  MovesFresh
  BY <1>2, DecidedKept DEF CreateOrder, StartTask, Pause, CompleteOrder, AdditionalIssue
<1>3. ASSUME NEW c \in Clerk, NEW w \in WorkOrder, Start(c, w)
      PROVE  MovesFresh
  <2>1. AllFresh(reading', visit')
    BY <1>3, DecidedFresh DEF Start
  <2>2. CASE reading[c].visit = "readyForRepair"
    <3>1. visit = "readyForRepair"
      BY <1>0, <1>3, <2>2 DEF Fresh, Start
    <3> QED
      BY <1>3, <2>1, <2>2, <3>1 DEF Start, VisitTo, VisitMoves, MovesFresh
  <2>3. CASE reading[c].visit # "readyForRepair"
    BY <1>3, <2>1, <2>3 DEF Start, VisitKept, MovesFresh
  <2> QED
    BY <2>2, <2>3
<1>4. ASSUME NEW c \in Clerk, NEW w \in WorkOrder, SendToQc(c, w)
      PROVE  MovesFresh
  <2>1. AllFresh(reading', visit')
    BY <1>4, DecidedFresh DEF SendToQc
  <2>2. visit' # visit => visit' \in VisitMoves[visit]
    BY <1>4 DEF SendToQc, VisitTo, VisitKept
  <2> QED
    BY <2>1, <2>2 DEF MovesFresh
<1>5. ASSUME NEW c \in Clerk, NEW w \in WorkOrder, ReadStart(c, w)
      PROVE  MovesFresh
  <2>1. Fresh([Read("start", w) EXCEPT
                 !.status = wo[w],
                 !.visit = IF visit = "readyForRepair" THEN visit ELSE "none",
                 !.versioned = visit = "readyForRepair"], visit)
    BY DEF Fresh, Read
  <2> QED
    BY <1>5, <2>1, ReadsMovesFresh DEF ReadStart, rows
<1>6. ASSUME NEW c \in Clerk, ReadNewOrder(c)
      PROVE  MovesFresh
  <2>1. Fresh(Read("new order", 0), visit)
    BY DEF Fresh, Read
  <2> QED
    BY <1>6, <2>1, ReadsMovesFresh DEF ReadNewOrder, rows
<1>7. ASSUME NEW c \in Clerk, NEW w \in WorkOrder,
             ReadPause(c, w) \/ ReadSendToQc(c, w) \/ ReadIssue(c, w)
      PROVE  MovesFresh
  <2>1. Fresh([Read("pause", w) EXCEPT !.set = TasksIn(w, {"in_progress"})], visit)
    BY DEF Fresh, Read
  <2>2. Fresh(Read("send to qc", w), visit)
    BY DEF Fresh, Read
  <2>3. Fresh([Read("issue", w) EXCEPT !.status = wo[w]], visit)
    BY DEF Fresh, Read
  <2> QED
    BY <1>7, <2>1, <2>2, <2>3, ReadsMovesFresh DEF ReadPause, ReadSendToQc, ReadIssue, rows
<1>8. ASSUME NEW c \in Clerk, NEW w \in WorkOrder, ReadCompleteOrder(c, w)
      PROVE  MovesFresh
  <2>1. PICK ts : Reads(c, [Read("complete", w) EXCEPT !.status = wo[w], !.set = ts])
    BY <1>8 DEF ReadCompleteOrder
  <2>2. Fresh([Read("complete", w) EXCEPT !.status = wo[w], !.set = ts], visit)
    BY DEF Fresh, Read
  <2> QED
    BY <1>8, <2>1, <2>2, ReadsMovesFresh DEF ReadCompleteOrder, rows
<1>9. ASSUME NEW c \in Clerk, NEW t \in Task, ReadStartTask(c, t)
      PROVE  MovesFresh
  <2>1. PICK w \in WorkOrder : Reads(c, [Read("start task", t) EXCEPT !.status = wo[w]])
    BY <1>9 DEF ReadStartTask
  <2>2. Fresh([Read("start task", t) EXCEPT !.status = wo[w]], visit)
    BY DEF Fresh, Read
  <2> QED
    BY <1>9, <2>1, <2>2, ReadsMovesFresh DEF ReadStartTask, rows
<1> QED
  BY <1>1, <1>2, <1>3, <1>4, <1>5, <1>6, <1>7, <1>8, <1>9 DEF WorkOrderNext

LEMMA QualityFresh ==
  ASSUME TypeOK, AllFresh(reading, visit), QualityNext
  PROVE  MovesFresh
<1>0. \A c \in Clerk : Fresh(reading[c], visit)
  BY DEF AllFresh
<1>1. ASSUME NEW c \in Clerk,
             MarkItems(c) \/ \E w \in WorkOrder : CreateCheck(c, w)
      PROVE  MovesFresh
  BY <1>1, DecidedKept DEF MarkItems, CreateCheck
<1>2. ASSUME NEW c \in Clerk, NEW w \in WorkOrder, ReadNewCheck(c, w)
      PROVE  MovesFresh
  <2>1. Fresh(Read("new check", w), visit)
    BY DEF Fresh, Read
  <2> QED
    BY <1>2, <2>1, ReadsMovesFresh DEF ReadNewCheck, rows
<1>3. ASSUME NEW c \in Clerk, NEW k \in Check, ReadMark(c, k)
      PROVE  MovesFresh
  <2>1. Fresh(Read("mark", k), visit)
    BY DEF Fresh, Read
  <2> QED
    BY <1>3, <2>1, ReadsMovesFresh DEF ReadMark, rows
<1>4. ASSUME NEW c \in Clerk, NEW k \in Check, ReadPass(c, k) \/ ReadFail(c, k)
      PROVE  MovesFresh
  <2>1. PICK op \in {"pass", "fail"}, items \in CheckItems : ReadVerdict(c, k, op, items)
    BY <1>4 DEF ReadPass, ReadFail, CheckItems
  <2>2. PICK w \in WorkOrder :
          Reads(c, [Read(op, k) EXCEPT !.status = wo[w], !.visit = visit,
                                       !.versioned = TRUE])
    BY <2>1 DEF ReadVerdict
  <2>3. visit = "qualityCheck" /\ visit' = visit
    BY <2>1 DEF ReadVerdict, rows
  <2>4. Fresh([Read(op, k) EXCEPT !.status = wo[w], !.visit = visit,
                                  !.versioned = TRUE], visit)
    BY <2>3 DEF Fresh, Read
  <2> QED
    BY <2>2, <2>3, <2>4, ReadsMovesFresh
<1>5. ASSUME NEW c \in Clerk, NEW k \in Check, Pass(c, k) \/ Fail(c, k)
      PROVE  MovesFresh
  <2>1. visit = "qualityCheck"
    BY <1>0, <1>5 DEF Pass, Fail, Fresh
  <2>2. AllFresh(reading', visit')
    BY <1>5, DecidedFresh DEF Pass, Fail
  <2> QED
    BY <1>5, <2>1, <2>2 DEF Pass, Fail, VisitTo, VisitMoves, MovesFresh
<1> QED
  BY <1>1, <1>2, <1>3, <1>4, <1>5 DEF QualityNext

LEMMA VisitFresh ==
  ASSUME TypeOK, AllFresh(reading, visit), VisitNext
  PROVE  MovesFresh
<1>1. ASSUME NEW to \in VisitStatus, Transition(to)
      PROVE  MovesFresh
  BY <1>1, WriteFresh DEF Transition, VisitTo, MovesFresh
<1>2. CASE Deliver
  BY <1>2, WriteFresh DEF Deliver, VisitTo, VisitMoves, MovesFresh
<1>3. CASE SyncUpdate
  BY <1>3, WriteFresh DEF SyncUpdate, VisitTo, MovesFresh
<1>4. ASSUME NEW c \in Clerk, GiveUp(c)
      PROVE  MovesFresh
  BY <1>4, DoneFresh DEF GiveUp, rows, MovesFresh
<1> QED
  BY <1>1, <1>2, <1>3, <1>4 DEF VisitNext

FreshInv == TypeOK /\ AllFresh(reading, visit)

LEMMA InitFresh == Init => FreshInv
BY InitType, IdleFresh DEF Init, FreshInv, AllFresh

LEMMA FreshStep == FreshInv /\ [Next]_vars => FreshInv' /\ MovesFresh
<1> SUFFICES ASSUME FreshInv, [Next]_vars PROVE TypeOK' /\ MovesFresh
  BY DEF FreshInv, MovesFresh
<1>1. TypeOK'
  BY TypeStep DEF FreshInv
<1>2. CASE UNCHANGED vars
  <2>1. visit' = visit /\ reading' = reading
    BY <1>2 DEF vars, rows
  <2>2. MovesFresh
    BY <2>1 DEF FreshInv, MovesFresh
  <2> QED
    BY <1>1, <2>2
<1>3. CASE Next
  <2>1. MovesFresh
    BY <1>3, InspectionFresh, QuotationFresh, WorkOrderFresh, QualityFresh, VisitFresh
    DEF Next, FreshInv
  <2> QED
    BY <1>1, <2>1
<1> QED
  BY <1>2, <1>3

\* The visit only moves along its table: a writer that decided on an earlier
\* reading either finds the visit as it read it or is refused by the version.
THEOREM VisitStaysOnTable == Spec => VisitFollowsTable
<1>1. FreshInv /\ [Next]_vars =>
        [visit' # visit => visit' \in VisitMoves[visit]]_vars
  BY FreshStep DEF MovesFresh
<1> QED
  BY <1>1, InitFresh, FreshStep, PTL DEF Spec, VisitFollowsTable

-----------------------------------------------------------------------------
\* A step that neither passes a check, nor completes an order, nor makes the
\* visit ready for delivery.
SamePassed == \A k \in Check :
  /\ qc'[k].status = "passed" <=> qc[k].status = "passed"
  /\ qc[k].status = "passed" => qc'[k].order = qc[k].order
NoneCompleted == \A w \in WorkOrder : wo'[w] = "completed" => wo[w] = "completed"
Quiet == /\ SamePassed
         /\ NoneCompleted
         /\ visit' = "readyForDelivery" => visit = "readyForDelivery"

LEMMA QuietSame ==
  ASSUME qc' = qc, wo' = wo, visit' # visit => visit' # "readyForDelivery"
  PROVE  Quiet
BY DEF Quiet, SamePassed, NoneCompleted

LEMMA AddOrderNone ==
  ASSUME TypeOK, NEW n, AddOrder(n)
  PROVE  NoneCompleted
BY DEF AddOrder, NoneCompleted, TypeOK

LEMMA AddCheckSame ==
  ASSUME TypeOK, NEW w, AddCheck(w)
  PROVE  SamePassed
BY DEF AddCheck, SamePassed, TypeOK, Lowest, FreeChecks

LEMMA InspectionQuiet ==
  ASSUME TypeOK, InspectionNext
  PROVE  Quiet
<1>1. qc' = qc /\ wo' = wo
  BY DEF InspectionNext, ReadVisit, CheckOpen, CreateInspection, UpdateResults,
         ReadCompleteVisit, CompleteInspection, ReadResults, ReadComplete, rows
<1>2. visit' # visit => visit' # "readyForDelivery"
  BY DEF InspectionNext, ReadVisit, CheckOpen, CreateInspection, UpdateResults,
         ReadCompleteVisit, CompleteInspection, ReadResults, ReadComplete, rows,
         VisitTo, VisitKept
<1> QED
  BY <1>1, <1>2, QuietSame

LEMMA QuotationQuiet ==
  ASSUME TypeOK, QuotationNext
  PROVE  Quiet
<1>1. qc' = qc
  BY DEF QuotationNext, CreateQuote, Send, Lapse, UpdateItems, Approve, ReadOverdue,
         ExpireOverdue, NewVersion, ReadEdit, ReadApprove, FindOrder, ReadVersion, Decide,
         ReadDecision, rows
<1>2. visit' # visit => visit' # "readyForDelivery"
  BY DEF QuotationNext, CreateQuote, Send, Lapse, UpdateItems, Approve, ReadOverdue,
         ExpireOverdue, NewVersion, ReadEdit, ReadApprove, FindOrder, ReadVersion, Decide,
         ReadDecision, rows, VisitTo, VisitKept
<1>3. wo' = wo \/ \E c \in Clerk : Approve(c)
  BY DEF QuotationNext, CreateQuote, Send, Lapse, UpdateItems, ReadOverdue,
         ExpireOverdue, NewVersion, ReadEdit, ReadApprove, FindOrder, ReadVersion, Decide,
         ReadDecision, rows
<1>4. ASSUME NEW c \in Clerk, Approve(c)
      PROVE  NoneCompleted
  <2>1. wo' = wo \/ \E n \in 1..NewTasks : AddOrder(n)
    BY <1>4 DEF Approve, OrderForApproval
  <2> QED
    BY <2>1, AddOrderNone DEF NoneCompleted
<1> QED
  BY <1>1, <1>2, <1>3, <1>4 DEF Quiet, SamePassed, NoneCompleted

LEMMA WorkOrderQuiet ==
  ASSUME TypeOK, WorkOrderNext
  PROVE  Quiet
<1>1. ASSUME NEW c \in Clerk,
             \/ ReadNewOrder(c)
             \/ \E w \in WorkOrder : \/ ReadStart(c, w) \/ ReadPause(c, w)
                                    \/ ReadCompleteOrder(c, w) \/ ReadSendToQc(c, w)
                                    \/ ReadIssue(c, w)
             \/ \E t \in Task : ReadStartTask(c, t)
      PROVE  Quiet
  BY <1>1, QuietSame DEF ReadNewOrder, ReadStart, ReadPause, ReadCompleteOrder,
                         ReadSendToQc, ReadIssue, ReadStartTask, rows
<1>2. ASSUME \E t \in Task : PauseTask(t) \/ CompleteTask(t)
      PROVE  Quiet
  BY <1>2, QuietSame DEF PauseTask, CompleteTask, MoveTask
<1>3. ASSUME NEW w \in WorkOrder, Assign(w) \/ Cancel(w)
      PROVE  Quiet
  BY <1>3 DEF Assign, Cancel, TypeOK, Quiet, SamePassed, NoneCompleted
<1>4. ASSUME NEW c \in Clerk, CreateOrder(c)
      PROVE  Quiet
  BY <1>4, AddOrderNone DEF CreateOrder, VisitKept, Quiet, SamePassed
<1>5. ASSUME NEW c \in Clerk, NEW w \in WorkOrder,
             \/ Start(c, w) \/ Pause(c, w) \/ CompleteOrder(c, w)
             \/ AdditionalIssue(c, w)
      PROVE  Quiet
  <2>1. qc' = qc /\ (visit' # visit => visit' # "readyForDelivery")
    BY <1>5 DEF Start, Pause, CompleteOrder, AdditionalIssue, VisitTo, VisitKept
  <2>2. NoneCompleted
    BY <1>5 DEF Start, Pause, CompleteOrder, AdditionalIssue, TypeOK, NoneCompleted
  <2> QED
    BY <2>1, <2>2 DEF Quiet, SamePassed
<1>6. ASSUME NEW c \in Clerk, NEW t \in Task, StartTask(c, t)
      PROVE  Quiet
  BY <1>6 DEF StartTask, VisitKept, TypeOK, Quiet, SamePassed, NoneCompleted
<1>7. ASSUME NEW c \in Clerk, NEW w \in WorkOrder, SendToQc(c, w)
      PROVE  Quiet
  <2>1. qc' = qc \/ AddCheck(w)
    BY <1>7 DEF SendToQc
  <2>2. SamePassed
    BY <2>1, AddCheckSame DEF SamePassed
  <2>3. NoneCompleted /\ (visit' # visit => visit' # "readyForDelivery")
    BY <1>7 DEF SendToQc, TypeOK, NoneCompleted, VisitTo, VisitKept
  <2> QED
    BY <2>2, <2>3 DEF Quiet
<1> QED
  BY <1>1, <1>2, <1>3, <1>4, <1>5, <1>6, <1>7 DEF WorkOrderNext

\* Checks are only added and marked, except by their verdicts.
LEMMA QualityQuiet ==
  ASSUME TypeOK, QualityNext, ~\E c \in Clerk, k \in Check : Pass(c, k)
  PROVE  Quiet
<1>1. ASSUME NEW c \in Clerk,
             \/ \E w \in WorkOrder : ReadNewCheck(c, w)
             \/ \E k \in Check : ReadMark(c, k) \/ ReadPass(c, k) \/ ReadFail(c, k)
      PROVE  Quiet
  BY <1>1, QuietSame DEF ReadNewCheck, ReadMark, ReadPass, ReadFail, ReadVerdict, rows
<1>2. ASSUME NEW c \in Clerk, MarkItems(c)
      PROVE  Quiet
  <2>1. PICK items \in CheckItems : qc' = [qc EXCEPT ![reading[c].id].items = items]
    BY <1>2 DEF MarkItems
  <2>2. SamePassed
    BY <2>1 DEF SamePassed, TypeOK, CheckRow
  <2> QED
    BY <1>2, <2>2 DEF MarkItems, VisitKept, Quiet, NoneCompleted
<1>3. ASSUME NEW c \in Clerk, NEW w \in WorkOrder, CreateCheck(c, w)
      PROVE  Quiet
  BY <1>3, AddCheckSame DEF CreateCheck, VisitKept, Quiet, NoneCompleted
<1>4. ASSUME NEW c \in Clerk, NEW k \in Check, Fail(c, k)
      PROVE  Quiet
  <2>1. SamePassed
    BY <1>4 DEF Fail, SamePassed, TypeOK, CheckRow
  <2>2. NoneCompleted
    BY <1>4 DEF Fail, OrderTo, NoneCompleted, TypeOK
  <2> QED
    BY <1>4, <2>1, <2>2 DEF Fail, VisitTo, Quiet
<1> QED
  BY <1>1, <1>2, <1>3, <1>4 DEF QualityNext

DeliveryInv == FreshInv /\ DeliveryAfterPass /\ CompletedOrderPassed

\* A quiet step that moves the visit along its table.
LEMMA QuietDelivery ==
  ASSUME DeliveryInv, Quiet, MovesFresh
  PROVE  (DeliveryAfterPass /\ CompletedOrderPassed)'
<1>1. visit \in VisitStatus
  BY DEF DeliveryInv, FreshInv, TypeOK
<1>2. visit' \in {"readyForDelivery", "completed"} <=>
        visit \in {"readyForDelivery", "completed"}
  BY <1>1 DEF Quiet, MovesFresh, VisitStatus, VisitMoves
<1>3. QcPassed' <=> QcPassed
  BY DEF Quiet, SamePassed, QcPassed
<1>4. DeliveryAfterPass'
  BY <1>2, <1>3 DEF DeliveryInv, DeliveryAfterPass, Quiet, SamePassed
<1>5. CompletedOrderPassed'
  BY DEF DeliveryInv, CompletedOrderPassed, Quiet, SamePassed, NoneCompleted
<1> QED
  BY <1>4, <1>5

\* A check that passes is the first of its visit, which was in quality control.
LEMMA PassDelivery ==
  ASSUME DeliveryInv, NEW c \in Clerk, NEW k \in Check, Pass(c, k)
  PROVE  (DeliveryAfterPass /\ CompletedOrderPassed)'
<1>1. visit = "qualityCheck"
  BY DEF DeliveryInv, FreshInv, AllFresh, Fresh, Pass
<1>2. \A j \in Check : qc[j].status # "passed"
  BY <1>1 DEF DeliveryInv, DeliveryAfterPass, QcPassed
<1>3. \A j \in Check : /\ qc'[j].order = qc[j].order
                       /\ qc'[j].status = "passed" <=> j = k
  BY <1>2 DEF Pass, DeliveryInv, FreshInv, TypeOK, CheckRow
<1>4. visit' = "readyForDelivery"
  BY DEF Pass, VisitTo
<1>5. DeliveryAfterPass'
  BY <1>3, <1>4 DEF DeliveryAfterPass, QcPassed
<1>6. \A w \in WorkOrder : wo[w] # "completed"
  BY <1>2 DEF DeliveryInv, CompletedOrderPassed
<1>7. \A w \in WorkOrder : wo'[w] = "completed" => w = qc[k].order
  BY <1>6 DEF Pass, OrderTo, DeliveryInv, FreshInv, TypeOK
<1>8. CompletedOrderPassed'
  BY <1>3, <1>7 DEF CompletedOrderPassed
<1> QED
  BY <1>5, <1>8

LEMMA VisitDelivery ==
  ASSUME DeliveryInv, VisitNext
  PROVE  (DeliveryAfterPass /\ CompletedOrderPassed)'
<1>1. FreshInv /\ [Next]_vars
  BY DEF DeliveryInv, Next
<1>2. MovesFresh
  BY <1>1, FreshStep
<1>3. qc' = qc /\ wo' = wo
  BY DEF VisitNext, Transition, Deliver, SyncUpdate, GiveUp, rows
<1>4. visit' \in {"readyForDelivery"} /\ visit' # visit => QcPassed
  BY DEF VisitNext, Transition, Deliver, SyncUpdate, GiveUp, rows, VisitTo
<1>5. QcPassed => visit \in {"readyForDelivery", "completed"}
  BY DEF DeliveryInv, DeliveryAfterPass
<1>6. visit' = "readyForDelivery" => visit = "readyForDelivery"
  BY <1>2, <1>4, <1>5 DEF MovesFresh, VisitMoves
<1>7. Quiet
  BY <1>3, <1>6, QuietSame
<1> QED
  BY <1>2, <1>7, QuietDelivery

LEMMA DeliveryStep == DeliveryInv /\ [Next]_vars => DeliveryInv'
<1> SUFFICES ASSUME DeliveryInv, [Next]_vars
             PROVE  (DeliveryAfterPass /\ CompletedOrderPassed)'
  BY FreshStep DEF DeliveryInv
<1>0. TypeOK /\ MovesFresh
  BY FreshStep DEF DeliveryInv, FreshInv
<1>1. CASE UNCHANGED vars
  <2>1. qc' = qc /\ wo' = wo /\ visit' = visit
    BY <1>1 DEF vars, rows
  <2> QED
    BY <1>0, <2>1, QuietSame, QuietDelivery
<1>2. CASE VisitNext
  BY <1>2, VisitDelivery
<1>3. CASE InspectionNext \/ QuotationNext \/ WorkOrderNext
  <2>1. Quiet
    BY <1>0, <1>3, InspectionQuiet, QuotationQuiet, WorkOrderQuiet
  <2> QED
    BY <1>0, <2>1, QuietDelivery
<1>4. CASE QualityNext
  <2>1. CASE \E c \in Clerk, k \in Check : Pass(c, k)
    BY <2>1, PassDelivery
  <2>2. CASE ~\E c \in Clerk, k \in Check : Pass(c, k)
    <3>1. Quiet
      BY <1>0, <1>4, <2>2, QualityQuiet
    <3> QED
      BY <1>0, <3>1, QuietDelivery
  <2> QED
    BY <2>1, <2>2
<1> QED
  BY <1>1, <1>2, <1>3, <1>4 DEF Next

LEMMA InitDelivery == Init => DeliveryInv
BY InitFresh DEF Init, DeliveryInv, DeliveryAfterPass, CompletedOrderPassed, QcPassed

\* A vehicle is ready for delivery or delivered exactly when one check of it, and
\* only one, has passed, however many checks were opened for it.
THEOREM DeliveredAfterOnePass == Spec => []DeliveryAfterPass
<1>1. DeliveryInv => DeliveryAfterPass
  BY DEF DeliveryInv
<1> QED
  BY <1>1, InitDelivery, DeliveryStep, PTL DEF Spec

\* A completed work order has a passed check of its own.
THEOREM CompletedOrdersPassed == Spec => []CompletedOrderPassed
<1>1. DeliveryInv => CompletedOrderPassed
  BY DEF DeliveryInv
<1> QED
  BY <1>1, InitDelivery, DeliveryStep, PTL DEF Spec

-----------------------------------------------------------------------------
\* What a clerk has read of a row that exists, and of an order that may move, where
\* the write does not look at it again.
Known(r, Q, W) ==
  /\ r.op = "version" => r.id \in Quote /\ Q[r.id].status # "none"
  /\ r.op = "start" => "in_progress" \in OrderMoves[r.status]
  /\ r.op = "issue" => r.status \in {"assigned", "in_progress", "paused", "waiting_parts"}
  /\ r.op = "approve" => r.order = 0
  /\ r.op = "approving" /\ r.order # 0 =>
       /\ r.order \in WorkOrder /\ W[r.order] # "none"
       /\ r.status \notin {"none", "cancelled"}

AllKnown == \A c \in Clerk : Known(reading[c], quote, wo)

\* Quotations that keep their parents and move along their cycle, without being
\* added or superseded.
QuotesKept ==
  \A q \in Quote :
    /\ quote'[q].parent = quote[q].parent
    /\ quote'[q].status # quote[q].status =>
         /\ quote'[q].status \in QuoteMoves[quote[q].status]
         /\ quote[q].status # "none" /\ quote'[q].status # "superseded"

QuoteStep ==
  \/ QuotesKept
  \/ \E items : AddQuote(quote, items, 0)
  \/ \E c \in Clerk, q \in Quote : NewVersion(c, q)

\* Readings that are kept or given up, and one that is new.
Dropped == \A c \in Clerk : reading'[c] \in {reading[c], Idle}
NewReading == \E c \in Clerk : \E r : Known(r, quote, wo) /\ Reads(c, r) /\ rows' = rows
ReadStep == Dropped \/ NewReading

OrderStep ==
  \A w \in WorkOrder : wo'[w] # wo[w] /\ wo[w] # "none" =>
    \/ wo'[w] \in OrderMoves[wo[w]]
    \/ wo[w] = "paused" /\ wo'[w] = "qc"
    \/ wo[w] \in {"assigned", "waiting_parts"} /\ wo'[w] = "paused"

TaskStep ==
  \A t \in Task : task'[t].status # task[t].status /\ task[t].status # "none" =>
    \/ task'[t].status \in TaskMoves[task[t].status]
    \/ \E c \in Clerk : /\ reading[c].op \in {"pause", "complete"}
                        /\ t \in reading[c].set /\ reading'[c] = Idle

RowStep == QuoteStep /\ ReadStep /\ OrderStep /\ TaskStep

\* A finished routine leaves its clerk idle, and a write of the visit others too.
LEMMA DecidedDrops ==
  ASSUME TypeOK, NEW c \in Clerk, NEW s, VisitTo(s, Done(c)) \/ VisitKept(Done(c))
  PROVE  Dropped /\ reading'[c] = Idle
BY DEF VisitTo, VisitKept, Refused, Done, Dropped, TypeOK

LEMMA WriteDrops ==
  ASSUME TypeOK, NEW s, VisitTo(s, reading) \/ VisitKept(reading)
  PROVE  Dropped
BY DEF VisitTo, VisitKept, Refused, Dropped, TypeOK

LEMMA SameQuotes ==
  ASSUME quote' = quote
  PROVE  QuoteStep
BY DEF QuoteStep, QuotesKept

LEMMA SameOrders ==
  ASSUME wo' = wo
  PROVE  OrderStep
BY DEF OrderStep

LEMMA SameTasks ==
  ASSUME task' = task
  PROVE  TaskStep
BY DEF TaskStep

\* A reading of a kind that is looked at again, or of a row that is known.
LEMMA NewReadingStep ==
  ASSUME NEW c \in Clerk, NEW r, Known(r, quote, wo), Reads(c, r), UNCHANGED rows
  PROVE  RowStep
<1>1. quote' = quote /\ wo' = wo /\ task' = task
  BY DEF rows
<1>2. NewReading
  BY DEF NewReading
<1> QED
  BY <1>1, <1>2, SameQuotes, SameOrders, SameTasks DEF RowStep, ReadStep

LEMMA SameRows ==
  ASSUME quote' = quote, wo' = wo, task' = task, Dropped
  PROVE  RowStep
BY SameQuotes, SameOrders, SameTasks DEF RowStep, ReadStep

\* A quotation that moves, not yet superseded.
LEMMA OneQuoteMoves ==
  ASSUME TypeOK, NEW q, NEW s \in QuoteStatus \ {"superseded"}, quote[q].status # "none",
         q \in Quote => s \in QuoteMoves[quote[q].status],
         quote' = [quote EXCEPT ![q].status = s]
  PROVE  QuotesKept
BY DEF QuotesKept, TypeOK, QuoteRow

\* An order that moves along its table or by one of the exceptions.
LEMMA OneOrderMoves ==
  ASSUME TypeOK, NEW w, NEW s,
         \/ s \in OrderMoves[wo[w]]
         \/ wo[w] = "paused" /\ s = "qc"
         \/ wo[w] \in {"assigned", "waiting_parts"} /\ s = "paused",
         wo' = [wo EXCEPT ![w] = s]
  PROVE  OrderStep
BY DEF OrderStep, TypeOK

\* Tasks in statuses from which they may go to s.
LEMMA TasksMove ==
  ASSUME TypeOK, NEW ts, NEW s \in TaskStatus, task' = TasksTo(ts, s),
         \A t \in Task \cap ts : task[t].status \in {s, "none"} \/ s \in TaskMoves[task[t].status]
  PROVE  TaskStep
BY DEF TaskStep, TasksTo, TypeOK, TaskRow

LEMMA AddOrderStep ==
  ASSUME TypeOK, NEW n, AddOrder(n)
  PROVE  OrderStep /\ TaskStep
BY DEF AddOrder, OrderStep, TaskStep, TypeOK, TaskRow, FreeTasks, Lowest, FreeOrders

\* The routines of the inspections only add quotations.
LEMMA InspectionRows ==
  ASSUME TypeOK, AllKnown, InspectionNext
  PROVE  RowStep
<1>1. PICK c \in Clerk :
        \/ ReadVisit(c) \/ CheckOpen(c) \/ CreateInspection(c)
        \/ UpdateResults(c) \/ ReadCompleteVisit(c) \/ CompleteInspection(c)
        \/ \E i \in Inspection : ReadResults(c, i) \/ ReadComplete(c, i)
  BY DEF InspectionNext
<1>2. reading[c] \in Reading
  BY DEF TypeOK
<1>3. CASE ReadVisit(c)
  <2> DEFINE r == [Read("inspect", 0) EXCEPT !.visit = visit, !.versioned = visit = "waiting"]
  <2>1. Known(r, quote, wo)
    BY DEF Known, Read
  <2> QED
    BY <1>3, <2>1, NewReadingStep DEF ReadVisit
<1>4. CASE CheckOpen(c)
  <2>1. Known([reading[c] EXCEPT !.op = "inspect visit"], quote, wo)
    BY <1>2 DEF Known, Reading
  <2> QED
    BY <1>4, <2>1, NewReadingStep DEF CheckOpen
<1>5. CASE CreateInspection(c) \/ UpdateResults(c)
  <2>1. Dropped
    BY <1>5, DecidedDrops DEF CreateInspection, UpdateResults
  <2> QED
    BY <1>5, <2>1, SameRows DEF CreateInspection, UpdateResults
<1>6. CASE ReadCompleteVisit(c)
  <2>1. Known([reading[c] EXCEPT !.op = "complete inspection", !.visit = visit,
                                 !.versioned = visit # "waitingApproval"], quote, wo)
    BY <1>2 DEF Known, Reading
  <2> QED
    BY <1>6, <2>1, NewReadingStep DEF ReadCompleteVisit
<1>7. CASE CompleteInspection(c)
  <2>1. Dropped
    BY <1>7, DecidedDrops DEF CompleteInspection
  <2>2. QuoteStep
    BY <1>7 DEF CompleteInspection, QuoteStep
  <2> QED
    BY <1>7, <2>1, <2>2, SameOrders, SameTasks DEF CompleteInspection, RowStep, ReadStep
<1>8. ASSUME NEW i \in Inspection, ReadResults(c, i) \/ ReadComplete(c, i)
      PROVE  RowStep
  <2>1. Known(Read("results", i), quote, wo) /\ Known(Read("inspected", i), quote, wo)
    BY DEF Known, Read
  <2> QED
    BY <1>8, <2>1, NewReadingStep DEF ReadResults, ReadComplete
<1> QED
  BY <1>1, <1>3, <1>4, <1>5, <1>6, <1>7, <1>8

\* An approval creates an order or assigns the blocked tasks of the one it found,
\* which exists.
LEMMA OrderForApprovalRows ==
  ASSUME TypeOK, NEW r, OrderForApproval(r),
         r.order # 0 => r.order \in WorkOrder /\ wo[r.order] # "none"
  PROVE  /\ OrderStep /\ TaskStep
         /\ \/ \E w \in WorkOrder : wo'[w] \notin {"none", "cancelled"}
            \/ r.order # 0 /\ wo[r.order] = "cancelled"
<1>1. CASE r.order = 0
  <2>1. PICK n : AddOrder(n)
    BY <1>1 DEF OrderForApproval
  <2>2. \E w \in WorkOrder : wo'[w] \notin {"none", "cancelled"}
    BY <2>1 DEF AddOrder, TypeOK
  <2> QED
    BY <2>1, <2>2, AddOrderStep
<1>2. CASE r.order # 0
  <2>1. wo' = wo
    BY <1>2 DEF OrderForApproval
  <2>2. \/ task' = task
        \/ \E ts : ts \subseteq Blocked(r.order) /\ task' = TasksTo(ts, "assigned")
    BY <1>2 DEF OrderForApproval
  <2>3. ASSUME NEW ts, ts \subseteq Blocked(r.order), task' = TasksTo(ts, "assigned")
        PROVE  TaskStep
    <3>1. \A t \in Task \cap ts : "assigned" \in TaskMoves[task[t].status]
      BY <2>3 DEF Blocked, TaskMoves
    <3> QED
      BY <2>3, <3>1, TasksMove DEF TaskStatus
  <2> QED
    BY <1>2, <2>1, <2>2, <2>3, SameOrders, SameTasks
<1> QED
  BY <1>1, <1>2

\* The quotations' own routines.
LEMMA QuotationRows ==
  ASSUME TypeOK, AllKnown, QuotationNext
  PROVE  RowStep
<1>1. CASE CreateQuote
  <2>1. QuoteStep /\ Dropped
    BY <1>1 DEF CreateQuote, QuoteStep, Dropped
  <2> QED
    BY <1>1, <2>1, SameOrders, SameTasks DEF CreateQuote, RowStep, ReadStep
<1>2. ASSUME NEW q \in Quote, Send(q)
      PROVE  RowStep
  <2>1. Dropped
    BY <1>2, WriteDrops DEF Send
  <2>2. QuotesKept
    BY <1>2 DEF Send, QuotesKept, QuoteMoves, TypeOK, QuoteRow
  <2> QED
    BY <1>2, <2>1, <2>2, SameOrders, SameTasks DEF Send, RowStep, ReadStep, QuoteStep
<1>3. ASSUME NEW q \in Quote, Lapse(q)
      PROVE  RowStep
  <2>1. QuotesKept /\ Dropped
    BY <1>3 DEF Lapse, QuotesKept, TypeOK, QuoteRow, Dropped
  <2> QED
    BY <1>3, <2>1, SameOrders, SameTasks DEF Lapse, RowStep, ReadStep, QuoteStep
<1>4. ASSUME NEW c \in Clerk, UpdateItems(c)
      PROVE  RowStep
  <2>1. Dropped
    BY <1>4, DecidedDrops DEF UpdateItems
  <2>2. QuotesKept
    BY <1>4 DEF UpdateItems, QuotesKept, TypeOK, QuoteRow
  <2> QED
    BY <1>4, <2>1, <2>2, SameOrders, SameTasks DEF UpdateItems, RowStep, ReadStep, QuoteStep
<1>5. ASSUME NEW c \in Clerk, Approve(c)
      PROVE  RowStep
  <2>1. Dropped
    BY <1>5, DecidedDrops DEF Approve
  <2>2. QuotesKept
    <3>1. /\ quote[reading[c].id].status = "pending"
          /\ quote' = [quote EXCEPT ![reading[c].id].status = "approved"]
          /\ "approved" \in QuoteMoves["pending"]
          /\ "approved" \in QuoteStatus \ {"superseded"}
      BY <1>5 DEF Approve, QuoteMoves, QuoteStatus
    <3> QED
      BY <3>1, OneQuoteMoves
  <2>3. OrderStep /\ TaskStep
    <3>1. OrderForApproval(reading[c]) /\ reading[c].op = "approving"
      BY <1>5 DEF Approve
    <3>2. reading[c].order # 0 =>
            reading[c].order \in WorkOrder /\ wo[reading[c].order] # "none"
      BY <3>1 DEF AllKnown, Known
    <3> QED
      BY <3>1, <3>2, OrderForApprovalRows
  <2> QED
    BY <2>1, <2>2, <2>3 DEF RowStep, ReadStep, QuoteStep
<1>6. ASSUME NEW c \in Clerk, NEW s \in {"rejected", "draft"}, Decide(c, s)
      PROVE  RowStep
  <2>1. Dropped
    BY <1>6, DecidedDrops DEF Decide
  <2>2. QuotesKept
    <3>1. /\ quote[reading[c].id].status = "pending"
          /\ quote' = [quote EXCEPT ![reading[c].id].status = s]
          /\ s \in QuoteMoves["pending"] /\ s \in QuoteStatus \ {"superseded"}
      BY <1>6 DEF Decide, QuoteMoves, QuoteStatus
    <3> QED
      BY <3>1, OneQuoteMoves
  <2> QED
    BY <1>6, <2>1, <2>2, SameOrders, SameTasks DEF Decide, RowStep, ReadStep, QuoteStep
<1>7. ASSUME NEW c \in Clerk, ExpireOverdue(c)
      PROVE  RowStep
  <2>1. Dropped
    BY <1>7, DecidedDrops DEF ExpireOverdue
  <2>2. QuotesKept
    BY <1>7 DEF ExpireOverdue, QuotesKept, QuoteMoves, TypeOK, QuoteRow
  <2> QED
    BY <1>7, <2>1, <2>2, SameOrders, SameTasks
    DEF ExpireOverdue, RowStep, ReadStep, QuoteStep
<1>8. ASSUME NEW c \in Clerk, NEW q \in Quote, NewVersion(c, q)
      PROVE  RowStep
  <2>1. Dropped
    BY <1>8, DecidedDrops DEF NewVersion
  <2>2. QuoteStep
    BY <1>8 DEF QuoteStep
  <2> QED
    BY <1>8, <2>1, <2>2, SameOrders, SameTasks DEF NewVersion, RowStep, ReadStep
<1>9. ASSUME NEW c \in Clerk, ReadOverdue(c)
      PROVE  RowStep
  <2>1. PICK qs : Reads(c, [Read("expire", 0) EXCEPT !.set = qs])
    BY <1>9 DEF ReadOverdue
  <2>2. Known([Read("expire", 0) EXCEPT !.set = qs], quote, wo)
    BY DEF Known, Read
  <2> QED
    BY <1>9, <2>1, <2>2, NewReadingStep DEF ReadOverdue
<1>10. ASSUME NEW c \in Clerk, NEW q \in Quote,
              \/ ReadEdit(c, q) \/ ReadApprove(c, q)
              \/ \E s \in {"rejected", "draft"} : ReadDecision(c, q, s)
       PROVE  RowStep
  <2>1. /\ Known(Read("edit", q), quote, wo)
        /\ Known([Read("approve", q) EXCEPT !.visit = visit,
                                            !.versioned = visit = "waitingApproval"], quote, wo)
        /\ \A s \in {"rejected", "draft"} : Known(Read(s, q), quote, wo)
    BY DEF Known, Read
  <2> QED
    BY <1>10, <2>1, NewReadingStep DEF ReadEdit, ReadApprove, ReadDecision
<1>11. ASSUME NEW c \in Clerk, NEW q \in Quote, ReadVersion(c, q)
       PROVE  RowStep
  <2>1. Known([Read("version", q) EXCEPT !.items = quote[q].items], quote, wo)
    BY <1>11 DEF Known, Read, ReadVersion
  <2> QED
    BY <1>11, <2>1, NewReadingStep DEF ReadVersion
<1>12. ASSUME NEW c \in Clerk, FindOrder(c)
       PROVE  RowStep
  <2> DEFINE found(w) == [reading[c] EXCEPT !.op = "approving", !.order = w,
                                            !.status = wo[w], !.set = Blocked(w)]
  <2>1. reading[c] \in Reading /\ reading[c].op = "approve" /\ reading[c].order = 0
    BY <1>12 DEF FindOrder, TypeOK, AllKnown, Known
  <2>2. Known([reading[c] EXCEPT !.op = "approving"], quote, wo)
    BY <2>1 DEF Known, Reading
  <2>3. \A w \in LiveOrders : Known(found(w), quote, wo)
    BY <2>1 DEF Known, Reading, LiveOrders
  <2>4. \E r : Known(r, quote, wo) /\ Reads(c, r)
    BY <1>12, <2>2, <2>3 DEF FindOrder
  <2> QED
    BY <1>12, <2>4, NewReadingStep DEF FindOrder
<1> QED
  BY <1>1, <1>2, <1>3, <1>4, <1>5, <1>6, <1>7, <1>8, <1>9, <1>10, <1>11, <1>12
  DEF QuotationNext

\* The work orders' routines: a start and an issue whose writes only compare the
\* order with what was read rely on what may be read.
LEMMA WorkOrderRows ==
  ASSUME TypeOK, AllKnown, WorkOrderNext
  PROVE  RowStep
<1>1. ASSUME NEW w \in WorkOrder, Assign(w)
      PROVE  RowStep
  <2>1. OrderStep
    BY <1>1 DEF Assign, OrderStep, TypeOK
  <2>2. TaskStep
    <3>1. \A t \in Task \cap TasksIn(w, {"pending", "assigned"}) :
            task[t].status \in {"assigned", "none"} \/ "assigned" \in TaskMoves[task[t].status]
      BY DEF TasksIn, TaskMoves
    <3> QED
      BY <1>1, <3>1, TasksMove DEF Assign, TaskStatus
  <2> QED
    BY <1>1, <2>1, <2>2, SameQuotes DEF Assign, RowStep, ReadStep, Dropped
<1>2. ASSUME NEW w \in WorkOrder, Cancel(w)
      PROVE  RowStep
  <2>1. OrderStep
    BY <1>2 DEF Cancel, OrderStep, TypeOK
  <2>2. TaskStep
    <3> DEFINE ts == {t \in TasksOf(w) : task[t].status # "completed"}
    <3>1. \A t \in Task \cap ts :
            task[t].status \in {"blocked", "none"} \/ "blocked" \in TaskMoves[task[t].status]
      BY DEF TaskMoves, TypeOK, TaskRow, TaskStatus
    <3>2. task' = TasksTo(ts, "blocked")
      BY <1>2 DEF Cancel
    <3> QED
      BY <3>1, <3>2, TasksMove DEF TaskStatus
  <2> QED
    BY <1>2, <2>1, <2>2, SameQuotes DEF Cancel, RowStep, ReadStep, Dropped
<1>3. ASSUME NEW t \in Task, PauseTask(t) \/ CompleteTask(t)
      PROVE  RowStep
  <2>1. TaskStep
    <3>1. PICK s \in {"paused", "completed"} :
            /\ task' = TasksTo({t}, s)
            /\ s \in TaskMoves[task[t].status]
      BY <1>3 DEF PauseTask, CompleteTask, MoveTask, TaskMoves
    <3> QED
      BY <3>1, TasksMove DEF TaskStatus
  <2> QED
    BY <1>3, <2>1, SameQuotes, SameOrders
    DEF PauseTask, CompleteTask, MoveTask, RowStep, ReadStep, Dropped
<1>4. ASSUME NEW c \in Clerk, CreateOrder(c)
      PROVE  RowStep
  <2>1. Dropped
    BY <1>4, DecidedDrops DEF CreateOrder
  <2>2. OrderStep /\ TaskStep
    BY <1>4, AddOrderStep DEF CreateOrder
  <2> QED
    BY <1>4, <2>1, <2>2, SameQuotes DEF CreateOrder, RowStep, ReadStep
<1>5. ASSUME NEW c \in Clerk, NEW w \in WorkOrder, Start(c, w)
      PROVE  RowStep
  <2>1. Dropped
    BY <1>5, DecidedDrops DEF Start
  <2>2. "in_progress" \in OrderMoves[wo[w]]
    BY <1>5 DEF Start, AllKnown, Known
  <2>3. OrderStep
    BY <1>5, <2>2 DEF Start, OrderStep, TypeOK
  <2>4. TaskStep
    <3>1. \A t \in Task \cap TasksIn(w, {"assigned", "paused", "pending"}) :
            "in_progress" \in TaskMoves[task[t].status]
      BY DEF TasksIn, TaskMoves
    <3> QED
      BY <1>5, <3>1, TasksMove DEF Start, TaskStatus
  <2> QED
    BY <1>5, <2>1, <2>3, <2>4, SameQuotes DEF Start, RowStep, ReadStep
<1>6. ASSUME NEW c \in Clerk, NEW w \in WorkOrder, Pause(c, w) \/ CompleteOrder(c, w)
      PROVE  RowStep
  <2>1. Dropped /\ reading'[c] = Idle
    BY <1>6, DecidedDrops DEF Pause, CompleteOrder
  <2>2. OrderStep
    BY <1>6 DEF Pause, CompleteOrder, OrderStep, OrderMoves, TypeOK
  <2>3. reading[c].op \in {"pause", "complete"}
    BY <1>6 DEF Pause, CompleteOrder
  <2>4. \A t \in Task : task'[t] # task[t] => t \in reading[c].set
    BY <1>6 DEF Pause, CompleteOrder, TasksTo, TypeOK
  <2>5. TaskStep
    BY <2>1, <2>3, <2>4 DEF TaskStep
  <2> QED
    BY <1>6, <2>1, <2>2, <2>5, SameQuotes DEF Pause, CompleteOrder, RowStep, ReadStep
<1>7. ASSUME NEW c \in Clerk, NEW w \in WorkOrder, SendToQc(c, w)
      PROVE  RowStep
  <2>1. Dropped
    BY <1>7, DecidedDrops DEF SendToQc
  <2>2. OrderStep
    <3>1. wo[w] \in {"in_progress", "paused"} /\ wo' = [wo EXCEPT ![w] = "qc"]
      BY <1>7, Zenon DEF SendToQc
    <3>2. wo[w] = "paused" \/ "qc" \in OrderMoves[wo[w]]
      BY <3>1 DEF OrderMoves
    <3> QED
      BY <3>1, <3>2, OneOrderMoves
  <2> QED
    BY <1>7, <2>1, <2>2, SameQuotes, SameTasks DEF SendToQc, RowStep, ReadStep
<1>8. ASSUME NEW c \in Clerk, NEW w \in WorkOrder, AdditionalIssue(c, w)
      PROVE  RowStep
  <2>1. Dropped
    BY <1>8, DecidedDrops DEF AdditionalIssue
  <2>2. reading[c].status \in {"assigned", "in_progress", "paused", "waiting_parts"}
    BY <1>8 DEF AdditionalIssue, AllKnown, Known
  <2>3. OrderStep
    BY <1>8, <2>2 DEF AdditionalIssue, OrderStep, OrderMoves, TypeOK
  <2>4. TaskStep
    <3>1. \A t \in Task \cap TasksIn(w, {"pending", "assigned", "in_progress", "paused"}) :
            "blocked" \in TaskMoves[task[t].status]
      BY DEF TasksIn, TaskMoves
    <3> QED
      BY <1>8, <3>1, TasksMove DEF AdditionalIssue, TaskStatus
  <2>5. QuoteStep
    BY <1>8 DEF AdditionalIssue, QuoteStep
  <2> QED
    BY <2>1, <2>3, <2>4, <2>5 DEF RowStep, ReadStep
<1>9. ASSUME NEW c \in Clerk, NEW t \in Task, StartTask(c, t)
      PROVE  RowStep
  <2>1. Dropped
    BY <1>9, DecidedDrops DEF StartTask
  <2>2. OrderStep
    <3> DEFINE w == task[t].order
    <3>1. \/ wo' = wo
          \/ wo[w] \in {"assigned", "paused"} /\ wo' = [wo EXCEPT ![w] = "in_progress"]
      BY <1>9, Zenon DEF StartTask
    <3>2. wo[w] \in {"assigned", "paused"} => "in_progress" \in OrderMoves[wo[w]]
      BY DEF OrderMoves
    <3> QED
      BY <3>1, <3>2, OneOrderMoves, SameOrders
  <2>3. TaskStep
    <3>1. /\ task[t].status \in {"pending", "assigned", "paused", "blocked"}
          /\ task' = TasksTo({t}, "in_progress")
      BY <1>9, Zenon DEF StartTask
    <3>2. "in_progress" \in TaskMoves[task[t].status]
      BY <3>1 DEF TaskMoves
    <3> QED
      BY <3>1, <3>2, TasksMove DEF TaskStatus
  <2> QED
    BY <1>9, <2>1, <2>2, <2>3, SameQuotes DEF StartTask, RowStep, ReadStep
<1>10. ASSUME NEW c \in Clerk, ReadNewOrder(c)
       PROVE  RowStep
  <2>1. Known(Read("new order", 0), quote, wo)
    BY DEF Known, Read
  <2> QED
    BY <1>10, <2>1, NewReadingStep DEF ReadNewOrder
<1>11. ASSUME NEW c \in Clerk, NEW w \in WorkOrder, ReadStart(c, w)
       PROVE  RowStep
  <2>1. PICK v, b : Reads(c, [Read("start", w) EXCEPT !.status = wo[w], !.visit = v,
                                                      !.versioned = b])
    BY <1>11 DEF ReadStart
  <2>2. Known([Read("start", w) EXCEPT !.status = wo[w], !.visit = v, !.versioned = b], quote, wo)
    BY <1>11 DEF Known, Read, ReadStart
  <2> QED
    BY <1>11, <2>1, <2>2, NewReadingStep DEF ReadStart
<1>12. ASSUME NEW c \in Clerk, NEW w \in WorkOrder,
              ReadPause(c, w) \/ ReadCompleteOrder(c, w) \/ ReadSendToQc(c, w)
       PROVE  RowStep
  <2>1. Known(Read("send to qc", w), quote, wo)
    BY DEF Known, Read
  <2>2. \A ts : /\ Known([Read("pause", w) EXCEPT !.set = ts], quote, wo)
                /\ Known([Read("complete", w) EXCEPT !.status = wo[w], !.set = ts], quote, wo)
    BY DEF Known, Read
  <2> QED
    BY <1>12, <2>1, <2>2, NewReadingStep DEF ReadPause, ReadCompleteOrder, ReadSendToQc
<1>13. ASSUME NEW c \in Clerk, NEW w \in WorkOrder, ReadIssue(c, w)
       PROVE  RowStep
  <2>1. Known([Read("issue", w) EXCEPT !.status = wo[w]], quote, wo)
    BY <1>13 DEF Known, Read, ReadIssue
  <2> QED
    BY <1>13, <2>1, NewReadingStep DEF ReadIssue
<1>14. ASSUME NEW c \in Clerk, NEW t \in Task, ReadStartTask(c, t)
       PROVE  RowStep
  <2>1. PICK w \in WorkOrder : Reads(c, [Read("start task", t) EXCEPT !.status = wo[w]])
    BY <1>14 DEF ReadStartTask
  <2>2. Known([Read("start task", t) EXCEPT !.status = wo[w]], quote, wo)
    BY DEF Known, Read
  <2> QED
    BY <1>14, <2>1, <2>2, NewReadingStep DEF ReadStartTask
<1> QED
  BY <1>1, <1>2, <1>3, <1>4, <1>5, <1>6, <1>7, <1>8, <1>9, <1>10, <1>11, <1>12,
     <1>13, <1>14
  DEF WorkOrderNext

\* Quality control moves orders out of qc and adds a task.
LEMMA QualityRows ==
  ASSUME TypeOK, AllKnown, QualityNext
  PROVE  RowStep
<1>1. ASSUME NEW c \in Clerk,
             MarkItems(c) \/ \E w \in WorkOrder : CreateCheck(c, w)
      PROVE  RowStep
  <2>1. Dropped
    BY <1>1, DecidedDrops DEF MarkItems, CreateCheck
  <2> QED
    BY <1>1, <2>1, SameRows DEF MarkItems, CreateCheck
<1>2. ASSUME NEW c \in Clerk, NEW k \in Check, Pass(c, k) \/ Fail(c, k)
      PROVE  RowStep
  <2>1. Dropped
    BY <1>2, DecidedDrops DEF Pass, Fail
  <2>2. OrderStep
    BY <1>2 DEF Pass, Fail, OrderTo, OrderStep, OrderMoves, TypeOK
  <2>3. TaskStep
    <3>1. ASSUME NEW w, AddRework(w)
          PROVE  TaskStep
      BY <3>1 DEF AddRework, TaskStep, Lowest, FreeTasks, TypeOK
    <3> QED
      BY <1>2, <3>1, SameTasks DEF Pass, Fail
  <2> QED
    BY <1>2, <2>1, <2>2, <2>3, SameQuotes DEF Pass, Fail, RowStep, ReadStep
<1>3. ASSUME NEW c \in Clerk, NEW w \in WorkOrder, ReadNewCheck(c, w)
      PROVE  RowStep
  <2>1. Known(Read("new check", w), quote, wo)
    BY DEF Known, Read
  <2> QED
    BY <1>3, <2>1, NewReadingStep DEF ReadNewCheck
<1>4. ASSUME NEW c \in Clerk, NEW k \in Check, ReadMark(c, k)
      PROVE  RowStep
  <2>1. Known(Read("mark", k), quote, wo)
    BY DEF Known, Read
  <2> QED
    BY <1>4, <2>1, NewReadingStep DEF ReadMark
<1>5. ASSUME NEW c \in Clerk, NEW k \in Check, ReadPass(c, k) \/ ReadFail(c, k)
      PROVE  RowStep
  <2>1. PICK op \in {"pass", "fail"}, items \in CheckItems : ReadVerdict(c, k, op, items)
    BY <1>5 DEF ReadPass, ReadFail, CheckItems
  <2>2. PICK w \in WorkOrder :
          Reads(c, [Read(op, k) EXCEPT !.status = wo[w], !.visit = visit,
                                       !.versioned = TRUE])
    BY <2>1 DEF ReadVerdict
  <2>3. Known([Read(op, k) EXCEPT !.status = wo[w], !.visit = visit, !.versioned = TRUE], quote, wo)
    BY DEF Known, Read
  <2> QED
    BY <2>1, <2>2, <2>3, NewReadingStep DEF ReadVerdict
<1> QED
  BY <1>1, <1>2, <1>3, <1>4, <1>5 DEF QualityNext

\* The visit's own steps leave all other rows.
LEMMA VisitRowsStep ==
  ASSUME TypeOK, VisitNext
  PROVE  RowStep
<1>1. quote' = quote /\ wo' = wo /\ task' = task
  BY DEF VisitNext, Transition, Deliver, SyncUpdate, GiveUp, rows
<1>2. ASSUME NEW s, VisitTo(s, reading)
      PROVE  Dropped
  BY <1>2, WriteDrops
<1>3. ASSUME NEW c \in Clerk, GiveUp(c)
      PROVE  Dropped
  BY <1>3 DEF GiveUp, Done, Dropped, TypeOK
<1> QED
  BY <1>1, <1>2, <1>3, SameRows DEF VisitNext, Transition, Deliver, SyncUpdate

LEMMA RowsStep ==
  ASSUME TypeOK, AllKnown, [Next]_vars
  PROVE  RowStep
<1>1. CASE UNCHANGED vars
  <2>1. Dropped /\ quote' = quote /\ wo' = wo /\ task' = task
    BY <1>1 DEF vars, rows, Dropped
  <2> QED
    BY <2>1, SameRows
<1> QED
  BY <1>1, InspectionRows, QuotationRows, WorkOrderRows, QualityRows, VisitRowsStep
  DEF Next

-----------------------------------------------------------------------------
\* A quotation that has a child is superseded, and it has one child; a row that is
\* not used yet is nobody's child.
Lineage ==
  /\ \A q \in Quote : quote[q].status = "none" => quote[q].parent = 0
  /\ \A q \in Quote : quote[q].parent # 0 => quote[quote[q].parent].status = "superseded"
  /\ \A a, b \in Quote : quote[a].parent = quote[b].parent /\ quote[a].parent # 0 => a = b
  /\ \A q \in Quote : quote[q].status = "superseded" =>
       \E child \in Quote : quote[child].parent = q

RowsInv == TypeOK /\ AllKnown /\ Lineage

\* What a new quotation changes: the row it takes, and the table it is added to.
LEMMA AddedQuote ==
  ASSUME TypeOK, NEW table \in [Quote -> QuoteRow], NEW items, NEW parent,
         AddQuote(table, items, parent)
  PROVE  \E k \in Quote :
           /\ quote[k].status = "none"
           /\ quote'[k].status = "draft" /\ quote'[k].parent = parent
           /\ \A q \in Quote \ {k} : quote'[q] = table[q]
BY DEF AddQuote, Lowest, FreeQuotes

\* A row that is used stays so.
LEMMA UsedStays ==
  ASSUME TypeOK, QuoteStep, NEW q \in Quote, quote[q].status # "none"
  PROVE  quote'[q].status # "none"
<1>1. CASE QuotesKept
  BY <1>1 DEF QuotesKept, QuoteMoves, TypeOK, QuoteRow, QuoteStatus
<1>2. ASSUME NEW items, AddQuote(quote, items, 0)
      PROVE  quote'[q].status # "none"
  BY <1>2, AddedQuote DEF TypeOK
<1>3. ASSUME NEW c \in Clerk, NEW p \in Quote, NewVersion(c, p)
      PROVE  quote'[q].status # "none"
  <2> DEFINE table == [quote EXCEPT ![p].status = "superseded"]
  <2>1. table \in [Quote -> QuoteRow] /\ table[q].status # "none"
    BY DEF TypeOK, QuoteRow, QuoteStatus
  <2>2. AddQuote(table, reading[c].items, p)
    BY <1>3 DEF NewVersion
  <2> HIDE DEF table
  <2> QED
    BY <2>1, <2>2, AddedQuote
<1> QED
  BY <1>1, <1>2, <1>3 DEF QuoteStep

\* So does an order.
LEMMA OrderStays ==
  ASSUME TypeOK, OrderStep, NEW w \in WorkOrder, wo[w] # "none"
  PROVE  wo'[w] # "none"
<1>1. wo[w] \in OrderStatus
  BY DEF TypeOK
<1>2. \A x \in OrderStatus : "none" \notin OrderMoves[x]
  BY DEF OrderMoves, OrderStatus
<1> QED
  BY <1>1, <1>2 DEF OrderStep

\* Who is known stays known.
LEMMA KnownStep ==
  ASSUME TypeOK, TypeOK', AllKnown, RowStep
  PROVE  AllKnown'
<1>1. ASSUME NEW r, Known(r, quote, wo)
      PROVE  Known(r, quote', wo')
  BY <1>1, UsedStays, OrderStays DEF Known, RowStep
<1>2. Known(Idle, quote', wo')
  BY DEF Known, Idle, Read
<1>3. CASE Dropped
  BY <1>1, <1>2, <1>3 DEF Dropped, AllKnown
<1>4. CASE NewReading
  <2>1. PICK c \in Clerk : \E r : Known(r, quote, wo) /\ Reads(c, r)
    BY <1>4 DEF NewReading
  <2> PICK r : Known(r, quote, wo) /\ Reads(c, r)
    BY <2>1
  <2>2. \A d \in Clerk : reading'[d] = IF d = c THEN r ELSE reading[d]
    BY <2>1 DEF Reads, TypeOK
  <2> QED
    BY <1>1, <2>1, <2>2 DEF AllKnown
<1> QED
  BY <1>3, <1>4 DEF RowStep, ReadStep

\* Quotations that keep their parents keep their lineage.
LEMMA KeptLineage ==
  ASSUME TypeOK, Lineage, QuotesKept
  PROVE  Lineage'
<1>1. \A q \in Quote : /\ quote'[q].parent = quote[q].parent
                       /\ quote'[q].status = "none" => quote[q].status = "none"
                       /\ quote'[q].status = "superseded" <=> quote[q].status = "superseded"
  BY DEF QuotesKept, QuoteMoves, TypeOK, QuoteRow, QuoteStatus
<1>2. \A q \in Quote : quote[q].parent # 0 => quote[q].parent \in Quote
  BY DEF TypeOK, QuoteRow
<1> QED
  BY <1>1, <1>2 DEF Lineage

\* A quotation without a parent has no child either.
LEMMA AddedLineage ==
  ASSUME TypeOK, Lineage, NEW items, AddQuote(quote, items, 0)
  PROVE  Lineage'
<1>1. PICK k \in Quote :
        /\ quote[k].status = "none"
        /\ quote'[k].status = "draft" /\ quote'[k].parent = 0
        /\ \A q \in Quote \ {k} : quote'[q] = quote[q]
  BY AddedQuote DEF TypeOK
<1>2. \A q \in Quote : quote[q].parent # 0 => quote[q].parent \in Quote \ {k}
  BY <1>1 DEF TypeOK, QuoteRow, Lineage
<1>3. quote[k].parent = 0
  BY <1>1 DEF Lineage
<1> QED
  BY <1>1, <1>2, <1>3 DEF Lineage, Quote

\* The unique key lets a quotation have one new version: one that was superseded
\* already has it.
LEMMA VersionLineage ==
  ASSUME TypeOK, AllKnown, Lineage, NEW c \in Clerk, NEW p \in Quote, NewVersion(c, p)
  PROVE  Lineage'
<1> DEFINE table == [quote EXCEPT ![p].status = "superseded"]
<1>1. table \in [Quote -> QuoteRow]
  BY DEF TypeOK, QuoteRow, QuoteStatus
<1>2. AddQuote(table, reading[c].items, p) /\ \A child \in Quote : quote[child].parent # p
  BY DEF NewVersion
<1>3. \A q \in Quote : /\ table[q].parent = quote[q].parent
                       /\ q # p => table[q] = quote[q]
  BY DEF TypeOK, QuoteRow
<1>4. table[p].status = "superseded"
  BY DEF TypeOK, QuoteRow
<1> HIDE DEF table
<1>5. PICK k \in Quote :
        /\ quote[k].status = "none"
        /\ quote'[k].status = "draft" /\ quote'[k].parent = p
        /\ \A q \in Quote \ {k} : quote'[q] = table[q]
  BY <1>1, <1>2, AddedQuote
<1>6. p # k
  BY <1>5 DEF NewVersion, AllKnown, Known
<1>7. quote[k].parent = 0
  BY <1>5 DEF Lineage
<1>8. \A q \in Quote : quote[q].parent # 0 => quote[q].parent \in Quote \ {k}
  BY <1>5 DEF TypeOK, QuoteRow, Lineage
<1>9. \A q \in Quote \ {k} : quote'[q].parent = quote[q].parent
  BY <1>3, <1>5
<1>10. \A q \in Quote \ {k, p} : quote'[q] = quote[q]
  BY <1>3, <1>5
<1>11. quote'[p].status = "superseded"
  BY <1>4, <1>5, <1>6
<1>12. \A q \in Quote : quote'[q].status = "none" => quote'[q].parent = 0
  BY <1>5, <1>10, <1>11 DEF Lineage
<1>13. \A q \in Quote : quote'[q].parent # 0 => quote'[quote'[q].parent].status = "superseded"
  BY <1>2, <1>5, <1>6, <1>8, <1>9, <1>10, <1>11 DEF Lineage
<1>14. \A a, b \in Quote : quote'[a].parent = quote'[b].parent /\ quote'[a].parent # 0 => a = b
  BY <1>2, <1>5, <1>9 DEF Lineage
<1>15. \A q \in Quote : quote'[q].status = "superseded" =>
         \E child \in Quote : quote'[child].parent = q
  BY <1>5, <1>7, <1>9, <1>10 DEF Lineage, Quote
<1> QED
  BY <1>12, <1>13, <1>14, <1>15 DEF Lineage

LEMMA RowsInvStep == RowsInv /\ [Next]_vars => RowsInv' /\ RowStep
<1> SUFFICES ASSUME RowsInv, [Next]_vars PROVE RowsInv' /\ RowStep
  OBVIOUS
<1>1. TypeOK' /\ RowStep
  BY TypeStep, RowsStep DEF RowsInv
<1>2. AllKnown'
  BY <1>1, KnownStep DEF RowsInv
<1>3. Lineage'
  BY <1>1, KeptLineage, AddedLineage, VersionLineage DEF RowsInv, RowStep, QuoteStep
<1> QED
  BY <1>1, <1>2, <1>3 DEF RowsInv

LEMMA InitRows == Init => RowsInv
<1> SUFFICES ASSUME Init PROVE AllKnown /\ Lineage
  BY InitType DEF RowsInv
<1>1. AllKnown
  BY DEF Init, AllKnown, Known, Idle, Read
<1>2. Lineage
  BY DEF Init, Lineage
<1> QED
  BY <1>1, <1>2

\* One child, or none, counted.
LEMMA LineageCounts ==
  ASSUME TypeOK, Lineage
  PROVE  OneNextVersion
<1> SUFFICES ASSUME NEW q \in Quote, quote[q].status # "none"
             PROVE  Cardinality({child \in Quote : quote[child].parent = q}) =
                      IF quote[q].status = "superseded" THEN 1 ELSE 0
  BY DEF OneNextVersion
<1> DEFINE children == {child \in Quote : quote[child].parent = q}
<1>1. CASE quote[q].status = "superseded"
  <2>1. PICK child \in Quote : quote[child].parent = q
    BY <1>1 DEF Lineage
  <2>2. children = {child}
    BY <2>1 DEF Lineage, Quote
  <2> QED
    BY <1>1, <2>2, FS_Singleton
<1>2. CASE quote[q].status # "superseded"
  <2>1. children = {}
    BY <1>2 DEF Lineage, Quote
  <2> QED
    BY <1>2, <2>1, FS_EmptySet
<1> QED
  BY <1>1, <1>2

\* A superseded quotation has exactly one next version, however many clerks asked
\* for it, and no other quotation has one.
THEOREM VersionsAreUnique == Spec => []OneNextVersion
<1>1. RowsInv => OneNextVersion
  BY LineageCounts DEF RowsInv
<1> QED
  BY <1>1, InitRows, RowsInvStep, PTL DEF Spec

-----------------------------------------------------------------------------
\* A step that approves no quotation.
NoApproval ==
  \A q \in Quote : quote'[q].status = "approved" => quote[q].status = "approved"

LEMMA AddedUnapproved ==
  ASSUME TypeOK, NEW table \in [Quote -> QuoteRow], NEW items, NEW parent,
         AddQuote(table, items, parent),
         \A q \in Quote : table[q].status = "approved" => quote[q].status = "approved"
  PROVE  NoApproval
BY AddedQuote DEF NoApproval

\* The services of the visit's other rows only add quotations, as drafts.
LEMMA OthersApproveNone ==
  ASSUME TypeOK, InspectionNext \/ WorkOrderNext \/ QualityNext \/ VisitNext
  PROVE  NoApproval
<1>1. quote' = quote \/ \E items : AddQuote(quote, items, 0)
  <2>1. CASE InspectionNext
    BY <2>1 DEF InspectionNext, ReadVisit, CheckOpen, CreateInspection, UpdateResults,
       ReadCompleteVisit, CompleteInspection, ReadResults, ReadComplete, rows
  <2>2. CASE WorkOrderNext
    <3>1. ASSUME NEW c \in Clerk, NEW w \in WorkOrder, AdditionalIssue(c, w)
          PROVE  \E items : AddQuote(quote, items, 0)
      BY <3>1 DEF AdditionalIssue
    <3>2. ASSUME NEW c \in Clerk, NEW w \in WorkOrder,
                 Start(c, w) \/ Pause(c, w) \/ CompleteOrder(c, w) \/ SendToQc(c, w)
          PROVE  quote' = quote
      BY <3>2, Zenon DEF Start, Pause, CompleteOrder, SendToQc
    <3>3. ASSUME NEW c \in Clerk, NEW w \in WorkOrder,
                 \/ ReadStart(c, w) \/ ReadPause(c, w) \/ ReadCompleteOrder(c, w)
                 \/ ReadSendToQc(c, w) \/ ReadIssue(c, w)
          PROVE  quote' = quote
      BY <3>3, Zenon DEF ReadStart, ReadPause, ReadCompleteOrder, ReadSendToQc, ReadIssue, rows
    <3>4. ASSUME NEW c \in Clerk, NEW t \in Task, ReadStartTask(c, t) \/ StartTask(c, t)
          PROVE  quote' = quote
      BY <3>4, Zenon DEF ReadStartTask, StartTask, rows
    <3>5. ASSUME NEW c \in Clerk, ReadNewOrder(c) \/ CreateOrder(c)
          PROVE  quote' = quote
      BY <3>5, Zenon DEF ReadNewOrder, CreateOrder, rows
    <3>6. ASSUME NEW x, Assign(x) \/ Cancel(x) \/ PauseTask(x) \/ CompleteTask(x)
          PROVE  quote' = quote
      BY <3>6, Zenon DEF Assign, Cancel, PauseTask, CompleteTask, MoveTask
    <3> QED
      BY <2>2, <3>1, <3>2, <3>3, <3>4, <3>5, <3>6 DEF WorkOrderNext
  <2>3. CASE QualityNext
    BY <2>3 DEF QualityNext, MarkItems, CreateCheck, Pass, Fail, ReadNewCheck, ReadMark,
       ReadPass, ReadFail, ReadVerdict, rows
  <2>4. CASE VisitNext
    BY <2>4 DEF VisitNext, Transition, Deliver, SyncUpdate, GiveUp, rows
  <2> QED
    BY <2>1, <2>2, <2>3, <2>4
<1>2. quote' = quote => NoApproval
  BY DEF NoApproval
<1>3. ASSUME NEW items, AddQuote(quote, items, 0)
      PROVE  NoApproval
  BY <1>3, AddedUnapproved DEF TypeOK
<1> QED
  BY <1>1, <1>2, <1>3

\* Of the quotations' own routines one approves.
LEMMA QuotationApproval ==
  ASSUME TypeOK, QuotationNext
  PROVE  NoApproval \/ \E c \in Clerk : Approve(c)
<1>1. CASE CreateQuote
  BY <1>1, AddedUnapproved DEF CreateQuote, TypeOK
<1>2. ASSUME NEW q \in Quote, Send(q) \/ Lapse(q)
      PROVE  NoApproval
  BY <1>2 DEF Send, Lapse, NoApproval, TypeOK, QuoteRow
<1>3. ASSUME NEW c \in Clerk, UpdateItems(c) \/ ExpireOverdue(c)
      PROVE  NoApproval
  <2>1. CASE UpdateItems(c)
    BY <1>3, <2>1 DEF UpdateItems, NoApproval, TypeOK, QuoteRow
  <2>2. CASE ExpireOverdue(c)
    BY <2>2 DEF ExpireOverdue, NoApproval, TypeOK, QuoteRow
  <2> QED
    BY <1>3, <2>1, <2>2
<1>4. ASSUME NEW c \in Clerk, NEW s \in {"rejected", "draft"}, Decide(c, s)
      PROVE  NoApproval
  BY <1>4 DEF Decide, NoApproval, TypeOK, QuoteRow
<1>5. ASSUME NEW c \in Clerk, NEW p \in Quote, NewVersion(c, p)
      PROVE  NoApproval
  <2> DEFINE table == [quote EXCEPT ![p].status = "superseded"]
  <2>1. /\ table \in [Quote -> QuoteRow]
        /\ \A q \in Quote : table[q].status = "approved" => quote[q].status = "approved"
    BY DEF TypeOK, QuoteRow, QuoteStatus
  <2>2. AddQuote(table, reading[c].items, p)
    BY <1>5 DEF NewVersion
  <2> HIDE DEF table
  <2> QED
    BY <2>1, <2>2, AddedUnapproved
<1>6. ASSUME NEW c \in Clerk,
             \/ ReadOverdue(c) \/ FindOrder(c)
             \/ \E q \in Quote : \/ ReadEdit(c, q) \/ ReadApprove(c, q) \/ ReadVersion(c, q)
                                 \/ \E s \in {"rejected", "draft"} : ReadDecision(c, q, s)
      PROVE  NoApproval
  BY <1>6 DEF ReadOverdue, FindOrder, ReadEdit, ReadApprove, ReadVersion, ReadDecision,
              rows, NoApproval
<1> QED
  BY <1>1, <1>2, <1>3, <1>4, <1>5, <1>6 DEF QuotationNext

\* Clerk c's approval of q relied on an order that was cancelled since.
FoundCancelled(c, q) ==
  /\ reading[c].op = "approving" /\ reading[c].id = q
  /\ reading[c].status \notin {"none", "cancelled"}
  /\ reading[c].order # 0 /\ wo[reading[c].order] = "cancelled"

\* A quotation is approved only by the step that leaves the visit an order.
LEMMA ApprovalStep ==
  ASSUME TypeOK, AllKnown, [Next]_vars, NEW q \in Quote,
         quote[q].status # "approved", quote'[q].status = "approved"
  PROVE  \/ \E w \in WorkOrder : wo'[w] \notin {"none", "cancelled"}
         \/ \E c \in Clerk : FoundCancelled(c, q)
<1>1. ~NoApproval /\ ~UNCHANGED vars
  BY DEF NoApproval, vars, rows
<1>2. PICK c \in Clerk : Approve(c)
  BY <1>1, OthersApproveNone, QuotationApproval DEF Next
<1>3. /\ OrderForApproval(reading[c]) /\ reading[c].op = "approving"
      /\ quote' = [quote EXCEPT ![reading[c].id].status = "approved"]
  BY <1>2 DEF Approve
<1>4. reading[c].id = q
  BY <1>3 DEF TypeOK
<1>5. reading[c].order # 0 =>
        /\ reading[c].order \in WorkOrder /\ wo[reading[c].order] # "none"
        /\ reading[c].status \notin {"none", "cancelled"}
  BY <1>3 DEF AllKnown, Known
<1>6. \/ \E w \in WorkOrder : wo'[w] \notin {"none", "cancelled"}
      \/ reading[c].order # 0 /\ wo[reading[c].order] = "cancelled"
  BY <1>3, <1>5, OrderForApprovalRows
<1> QED
  BY <1>3, <1>4, <1>5, <1>6 DEF FoundCancelled

\* Whichever clerk approves a quotation, the visit then has an order that is not
\* cancelled, unless the one the approval found was cancelled before its commit.
THEOREM ApprovalsHaveOrder == Spec => ApprovalHasOrder
<1>1. RowsInv /\ [Next]_vars =>
        [\A q \in Quote :
           quote[q].status # "approved" /\ quote'[q].status = "approved" =>
             \/ \E w \in WorkOrder : wo'[w] \notin {"none", "cancelled"}
             \/ \E c \in Clerk :
                  /\ reading[c].op = "approving" /\ reading[c].id = q
                  /\ reading[c].status \notin {"none", "cancelled"}
                  /\ reading[c].order # 0 /\ wo[reading[c].order] = "cancelled"]_vars
  BY ApprovalStep DEF RowsInv, FoundCancelled
<1> QED
  BY <1>1, InitRows, RowsInvStep, PTL DEF Spec, ApprovalHasOrder

\* A quotation moves along its cycle, or is superseded by the clerk who had read it
\* for a new version.
LEMMA QuoteMovesStep ==
  ASSUME TypeOK, AllKnown, RowStep, NEW q \in Quote, quote'[q].status # quote[q].status
  PROVE  \/ quote'[q].status \in QuoteMoves[quote[q].status]
         \/ /\ quote'[q].status = "superseded"
            /\ \E c \in Clerk : reading[c].op = "version" /\ reading[c].id = q
                                /\ reading'[c] = Idle
<1>1. CASE QuotesKept
  BY <1>1 DEF QuotesKept
<1>2. ASSUME NEW items, AddQuote(quote, items, 0)
      PROVE  quote'[q].status \in QuoteMoves[quote[q].status]
  BY <1>2, AddedQuote DEF TypeOK, QuoteMoves
<1>3. ASSUME NEW c \in Clerk, NEW p \in Quote, NewVersion(c, p)
      PROVE  \/ quote'[q].status \in QuoteMoves[quote[q].status]
             \/ /\ quote'[q].status = "superseded"
                /\ reading[c].op = "version" /\ reading[c].id = q /\ reading'[c] = Idle
  <2> DEFINE table == [quote EXCEPT ![p].status = "superseded"]
  <2>1. /\ table \in [Quote -> QuoteRow]
        /\ table[p].status = "superseded"
        /\ \A r \in Quote \ {p} : table[r] = quote[r]
    BY DEF TypeOK, QuoteRow, QuoteStatus
  <2>2. AddQuote(table, reading[c].items, p)
    BY <1>3 DEF NewVersion
  <2>3. reading[c].op = "version" /\ reading[c].id = p /\ VisitKept(Done(c))
    BY <1>3 DEF NewVersion
  <2>4. reading'[c] = Idle
    BY <2>3, DecidedDrops
  <2> HIDE DEF table
  <2>5. PICK k \in Quote : /\ quote[k].status = "none" /\ quote'[k].status = "draft"
                           /\ \A r \in Quote \ {k} : quote'[r] = table[r]
    BY <2>1, <2>2, AddedQuote
  <2>6. CASE q = k
    BY <2>5, <2>6 DEF QuoteMoves
  <2>7. CASE q # k
    <3>1. q = p /\ quote'[q].status = "superseded"
      BY <2>1, <2>5, <2>7
    <3> QED
      BY <2>3, <2>4, <3>1
  <2> QED
    BY <2>6, <2>7
<1> QED
  BY <1>1, <1>2, <1>3 DEF RowStep, QuoteStep

\* Visit, orders, tasks and quotations move along their tables, with the exceptions
\* the four properties name, however late the clerks write what they decided.
THEOREM StatusesStayOnTables == Spec => StatusesFollowTables
<1>1. RowsInv /\ [Next]_vars =>
        /\ [\A w \in WorkOrder : wo'[w] # wo[w] /\ wo[w] # "none" =>
              \/ wo'[w] \in OrderMoves[wo[w]]
              \/ wo[w] = "paused" /\ wo'[w] = "qc"
              \/ wo[w] \in {"assigned", "waiting_parts"} /\ wo'[w] = "paused"]_vars
        /\ [\A t \in Task : task'[t].status # task[t].status /\ task[t].status # "none" =>
              \/ task'[t].status \in TaskMoves[task[t].status]
              \/ \E c \in Clerk : /\ reading[c].op \in {"pause", "complete"}
                                  /\ t \in reading[c].set /\ reading'[c] = Idle]_vars
        /\ [\A q \in Quote : quote'[q].status # quote[q].status =>
              \/ quote'[q].status \in QuoteMoves[quote[q].status]
              \/ /\ quote'[q].status = "superseded"
                 /\ \E c \in Clerk : reading[c].op = "version" /\ reading[c].id = q
                                     /\ reading'[c] = Idle]_vars
  <2> SUFFICES ASSUME RowsInv, [Next]_vars
               PROVE  /\ OrderStep /\ TaskStep
                      /\ \A q \in Quote : quote'[q].status # quote[q].status =>
                           \/ quote'[q].status \in QuoteMoves[quote[q].status]
                           \/ /\ quote'[q].status = "superseded"
                              /\ \E c \in Clerk : reading[c].op = "version" /\ reading[c].id = q
                                                  /\ reading'[c] = Idle
    BY DEF OrderStep, TaskStep
  <2>1. RowStep /\ TypeOK /\ AllKnown
    BY RowsInvStep DEF RowsInv
  <2> QED
    BY <2>1, QuoteMovesStep DEF RowStep
<1>2. Spec => OrderFollowsTable /\ TaskFollowsTable /\ QuoteFollowsCycle
  BY <1>1, InitRows, RowsInvStep, PTL
  DEF Spec, OrderFollowsTable, TaskFollowsTable, QuoteFollowsCycle
<1> QED
  BY <1>2, VisitStaysOnTable DEF StatusesFollowTables
=============================================================================
