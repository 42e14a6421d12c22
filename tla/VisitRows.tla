------------------------------ MODULE VisitRows ------------------------------
(***************************************************************************)
(* The rows of one vehicle visit: its inspections, quotations, work orders *)
(* with their tasks, and quality checks. The services that change them are *)
(* the modules Inspections, Quotations, WorkOrders and QualityControl,     *)
(* which Workshop puts together.                                           *)
(*                                                                         *)
(* A routine that compares-and-sets everything it has read is one action.  *)
(* The others read rows, check them, and write in a later transaction;     *)
(* what clerk c has read and not yet written is reading[c]. Of the visit's *)
(* version one bit is kept: reading[c].versioned says that c's write names *)
(* the version c read. Any write of the visit in between raises the version*)
(* and lets such a write fail, so the routine ends there and then.         *)
(***************************************************************************)
EXTENDS Naturals, FiniteSets

CONSTANTS MaxInspections,  \* bound: rows of inspections
          MaxQuotes,       \* bound: rows of quotations
          MaxOrders,       \* bound: rows of work_orders
          MaxTasks,        \* bound: rows of technician_tasks
          MaxChecks,       \* bound: rows of quality_checks
          NewTasks,        \* bound: tasks of a new work order
          Content,         \* the items a quotation can have
          Clerk            \* requests handled at the same time

ASSUME RowsAssumption ==
  /\ MaxInspections \in Nat /\ MaxQuotes \in Nat /\ MaxOrders \in Nat
  /\ MaxTasks \in Nat /\ MaxChecks \in Nat /\ NewTasks \in Nat
  /\ Content # {}

VARIABLES visit,    \* status of the visit
          insp,     \* inspections, by id
          quote,    \* quotations with their items, by id
          wo,       \* status of the work orders, by id
          task,     \* technician_tasks, by id
          qc,       \* quality_checks with their items, by id
          reading   \* what each clerk's routine has read and not written

rows == <<visit, insp, quote, wo, task, qc>>
vars == <<rows, reading>>

Inspection == 1..MaxInspections
Quote      == 1..MaxQuotes
WorkOrder  == 1..MaxOrders
Task       == 1..MaxTasks
Check      == 1..MaxChecks

VisitStatus == {"waiting", "inspection", "waitingApproval", "readyForRepair",
                "inProgress", "waitingParts", "qualityCheck", "readyForDelivery",
                "completed"}
InspectionStatus == {"none", "in_progress", "completed"}
QuoteStatus == {"none", "draft", "pending", "approved", "rejected", "expired",
                "superseded"}
OrderStatus == {"none", "draft", "assigned", "in_progress", "paused",
                "waiting_parts", "qc", "completed", "cancelled"}
TaskStatus  == {"none", "pending", "assigned", "in_progress", "paused",
                "completed", "blocked"}
CheckStatus == {"none", "pending", "passed", "failed"}
CheckItems  == {"open", "passed", "failed"}

NoItems == "no items"

Read(op, i) == [op |-> op, id |-> i, status |-> "none", visit |-> "none",
                versioned |-> FALSE, items |-> NoItems, order |-> 0, set |-> {}]
Idle == Read("idle", 0)

InspectionRow == [status: InspectionStatus, full: BOOLEAN]
QuoteRow == [status: QuoteStatus, items: Content \cup {NoItems},
             overdue: BOOLEAN, parent: {0} \cup Quote]
TaskRow  == [status: TaskStatus, order: {0} \cup WorkOrder]
CheckRow == [status: CheckStatus, items: CheckItems, order: {0} \cup WorkOrder]
Operation == {"idle", "inspect", "inspect visit", "results", "inspected",
              "complete inspection", "edit", "approve", "approving", "rejected", "draft", "expire",
              "version", "new order", "start", "pause", "complete", "send to qc",
              "issue", "start task", "new check", "mark", "pass", "fail"}
Reading  == [op: Operation, id: Nat, status: OrderStatus,
             visit: VisitStatus \cup {"none"}, versioned: BOOLEAN,
             items: Content \cup {NoItems}, order: {0} \cup WorkOrder,
             set: SUBSET (Task \cup Quote)]

TypeOK ==
  /\ visit \in VisitStatus
  /\ insp \in [Inspection -> InspectionRow]
  /\ quote \in [Quote -> QuoteRow]
  /\ wo \in [WorkOrder -> OrderStatus]
  /\ task \in [Task -> TaskRow]
  /\ qc \in [Check -> CheckRow]
  /\ reading \in [Clerk -> Reading]

Init ==
  /\ visit = "waiting"
  /\ insp  = [i \in Inspection |-> [status |-> "none", full |-> FALSE]]
  /\ quote = [q \in Quote |-> [status |-> "none", items |-> NoItems,
                               overdue |-> FALSE, parent |-> 0]]
  /\ wo    = [w \in WorkOrder |-> "none"]
  /\ task  = [t \in Task |-> [status |-> "none", order |-> 0]]
  /\ qc    = [k \in Check |-> [status |-> "none", items |-> "open", order |-> 0]]
  /\ reading = [c \in Clerk |-> Idle]

-----------------------------------------------------------------------------
\* visit-state-machine and work-order-state-machine: the tables of moves.
VisitMoves ==
  [waiting          |-> {"inspection"},
   inspection       |-> {"waitingApproval"},
   waitingApproval  |-> {"readyForRepair"},
   readyForRepair   |-> {"inProgress", "waitingApproval"},
   inProgress       |-> {"waitingParts", "qualityCheck", "waitingApproval"},
   waitingParts     |-> {"inProgress", "waitingApproval"},
   qualityCheck     |-> {"readyForDelivery", "inProgress"},
   readyForDelivery |-> {"completed"},
   completed        |-> {}]

OrderMoves ==
  [none          |-> {},
   draft         |-> {"assigned", "cancelled"},
   assigned      |-> {"in_progress", "cancelled"},
   in_progress   |-> {"paused", "waiting_parts", "qc", "cancelled"},
   paused        |-> {"in_progress", "cancelled"},
   waiting_parts |-> {"in_progress", "cancelled"},
   qc            |-> {"completed", "in_progress", "cancelled"},
   completed     |-> {},
   cancelled     |-> {}]

-----------------------------------------------------------------------------
\* A new row takes the lowest id that is free.
Lowest(i, free) == i \in free /\ \A j \in free : i <= j

\* A routine that will insert a row begins while one is free: where the bound is
\* reached, readings that could only be given up are left out.
FreeInspections == {i \in Inspection : insp[i].status = "none"}
FreeQuotes == {q \in Quote : quote[q].status = "none"}
FreeOrders == {w \in WorkOrder : wo[w] = "none"}
FreeTasks  == {t \in Task : task[t].status = "none"}
FreeChecks == {k \in Check : qc[k].status = "none"}

TasksOf(w) == {t \in Task : task[t].order = w}

\* The tasks ts put in status s.
TasksTo(ts, s) == [t \in Task |-> IF t \in ts THEN [task[t] EXCEPT !.status = s]
                                              ELSE task[t]]

\* quotation.create in the table: a draft.
AddQuote(table, items, parent) ==
  \E q \in Quote :
    /\ Lowest(q, FreeQuotes)
    /\ quote' = [table EXCEPT ![q] = [status |-> "draft", items |-> items,
                                      overdue |-> FALSE, parent |-> parent]]

\* workOrder.create: a draft with n pending tasks.
AddOrder(n) ==
  \E w \in WorkOrder, new \in SUBSET FreeTasks :
    /\ Lowest(w, FreeOrders)
    /\ Cardinality(new) = n
    /\ \A t \in new, other \in FreeTasks \ new : t < other
    /\ wo' = [wo EXCEPT ![w] = "draft"]
    /\ task' = [t \in Task |-> IF t \in new THEN [status |-> "pending", order |-> w]
                                            ELSE task[t]]

\* qualityCheck.create: a pending check, no item marked.
AddCheck(w) ==
  \E k \in Check :
    /\ Lowest(k, FreeChecks)
    /\ qc' = [qc EXCEPT ![k] = [status |-> "pending", items |-> "open", order |-> w]]

-----------------------------------------------------------------------------
\* Clerk c has read r; c has finished; the visit's version has gone up, so the
\* writes that name an earlier one are refused.
Reads(c, r) == reading' = [reading EXCEPT ![c] = r]
Done(c)     == [reading EXCEPT ![c] = Idle]
Refused(r)  == [c \in Clerk |-> IF r[c].versioned THEN Idle ELSE r[c]]

\* vehicleVisit.updateMany with the version: the visit in status s, the clerks'
\* readings r afterwards.
VisitTo(s, r) == visit' = s /\ reading' = Refused(r)
VisitKept(r)  == visit' = visit /\ reading' = r
=============================================================================
