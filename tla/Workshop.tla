------------------------------- MODULE Workshop -------------------------------
(***************************************************************************)
(* One vehicle visit from check-in to delivery: the services of            *)
(* Inspections, Quotations, WorkOrders and QualityControl and the visit's  *)
(* own transitions, working on the same rows. Whether the visit is paid,   *)
(* which completing it also asks, belongs to invoicing; here either answer *)
(* is possible.                                                            *)
(***************************************************************************)
EXTENDS Inspections, Quotations, WorkOrders, QualityControl

QcPassed == \E k \in Check : qc[k].status = "passed"

TransitionUnpassed(to) ==
  /\ to \in VisitMoves[visit]
  /\ VisitTo(to, reading)
  /\ UNCHANGED <<insp, quote, wo, task, qc>>

\* transition and deliver: what they read can only go stale with the version.
Transition(to) ==
  /\ to \in VisitMoves[visit]
  /\ to \in {"readyForDelivery", "completed"} => QcPassed
  /\ VisitTo(to, reading)
  /\ UNCHANGED <<insp, quote, wo, task, qc>>

Deliver ==
  /\ visit = "readyForDelivery"
  /\ QcPassed
  /\ VisitTo("completed", reading)
  /\ UNCHANGED <<insp, quote, wo, task, qc>>

\* An offline update of the visit's capture: only its version changes here.
SyncUpdate ==
  /\ VisitTo(visit, reading)
  /\ UNCHANGED <<insp, quote, wo, task, qc>>

\* A routine is refused at its write, fails, or its caller goes away.
GiveUp(c) ==
  /\ reading[c] # Idle
  /\ reading' = Done(c)
  /\ UNCHANGED rows

VisitNext ==
  \/ \E to \in VisitStatus : Transition(to)
  \/ Deliver
  \/ SyncUpdate
  \/ \E c \in Clerk : GiveUp(c)

Next == VisitNext \/ InspectionNext \/ QuotationNext \/ WorkOrderNext \/ QualityNext

Spec == Init /\ [][Next]_vars

-----------------------------------------------------------------------------
\* The visit only moves along its table, whoever moves it and however long ago
\* they read it: every writer that relies on an earlier reading names the version.
VisitFollowsTable ==
  [][visit' # visit => visit' \in VisitMoves[visit]]_vars

\* A vehicle is handed over only after a quality check of it has passed, and no
\* two checks of a visit pass, since the first one moves the visit on.
DeliveryAfterPass ==
  /\ visit \in {"readyForDelivery", "completed"} <=> QcPassed
  /\ \A j, k \in Check : qc[j].status = "passed" /\ qc[k].status = "passed" => j = k

\* A work order is completed only by a passed check of its own.
CompletedOrderPassed ==
  \A w \in WorkOrder : wo[w] = "completed" =>
    \E k \in Check : qc[k].order = w /\ qc[k].status = "passed"

\* A work order moves along its table, except that it goes to quality control
\* from paused too, and is paused by an additional issue from wherever it waits.
OrderFollowsTable ==
  [][\A w \in WorkOrder : wo'[w] # wo[w] /\ wo[w] # "none" =>
       \/ wo'[w] \in OrderMoves[wo[w]]
       \/ wo[w] = "paused" /\ wo'[w] = "qc"
       \/ wo[w] \in {"assigned", "waiting_parts"} /\ wo'[w] = "paused"]_vars

\* An approval leaves the visit with a work order to do the work, whatever other
\* approvals and cancellations do at the same time; except that the order it
\* found can be cancelled between its reading and its commit.
ApprovalHasOrder ==
  [][\A q \in Quote :
       quote[q].status # "approved" /\ quote'[q].status = "approved" =>
         \/ \E w \in WorkOrder : wo'[w] \notin {"none", "cancelled"}
         \/ \E c \in Clerk :
              /\ reading[c].op = "approving" /\ reading[c].id = q
              /\ reading[c].status \notin {"none", "cancelled"}
              /\ reading[c].order # 0 /\ wo[reading[c].order] = "cancelled"]_vars

\* A quotation moves from draft to the customer and back, and is decided, expired
\* or superseded once; only a new version that read it as open, before someone
\* else changed it, supersedes it from another status.
QuoteMoves ==
  [none |-> {"draft"}, draft |-> {"pending"},
   pending |-> {"approved", "rejected", "draft", "expired", "superseded"},
   approved |-> {}, rejected |-> {"superseded"}, expired |-> {"superseded"},
   superseded |-> {}]

QuoteFollowsCycle ==
  [][\A q \in Quote : quote'[q].status # quote[q].status =>
       \/ quote'[q].status \in QuoteMoves[quote[q].status]
       \/ /\ quote'[q].status = "superseded"
          /\ \E c \in Clerk : reading[c].op = "version" /\ reading[c].id = q
                              /\ reading'[c] = Idle]_vars

\* A superseded quotation has exactly one next version, however many clerks asked
\* for it, and a quotation that is not superseded has none.
OneNextVersion ==
  \A q \in Quote : quote[q].status # "none" =>
    Cardinality({child \in Quote : quote[child].parent = q}) =
      IF quote[q].status = "superseded" THEN 1 ELSE 0

\* A task moves along its table, except that pausing or completing its whole
\* order writes the tasks it listed before, whatever they have become since.
TaskFollowsTable ==
  [][\A t \in Task : task'[t].status # task[t].status /\ task[t].status # "none" =>
       \/ task'[t].status \in TaskMoves[task[t].status]
       \/ \E c \in Clerk : /\ reading[c].op \in {"pause", "complete"}
                           /\ t \in reading[c].set /\ reading'[c] = Idle]_vars

\* The four statuses follow their tables, with the exceptions named at each.
StatusesFollowTables ==
  VisitFollowsTable /\ OrderFollowsTable /\ TaskFollowsTable /\ QuoteFollowsCycle

-----------------------------------------------------------------------------
\* updateResults: "Cannot update results on a completed inspection".
CompletedInspectionStays ==
  [][\A i \in Inspection : insp[i].status = "completed" =>
       insp'[i] = insp[i]]_vars

=============================================================================
