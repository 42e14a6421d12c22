------------------------------ MODULE Quotations ------------------------------
(***************************************************************************)
(* quotations.service: drafts, sending, the customer's decisions, expiry   *)
(* and new versions. An approval creates the visit's work order or         *)
(* unblocks the one it has. The parts it reserves are the stock of module  *)
(* Inventory and are left out here.                                        *)
(***************************************************************************)
EXTENDS VisitRows

\* create: for a visit in any status.
CreateQuote ==
  /\ \E items \in Content : AddQuote(quote, items, 0)
  /\ UNCHANGED <<visit, insp, wo, task, qc, reading>>

\* updateItems: only the reading looks at the status.
ReadEdit(c, q) ==
  /\ reading[c] = Idle
  /\ quote[q].status = "draft"
  /\ Reads(c, Read("edit", q))
  /\ UNCHANGED rows

UpdateItems(c) ==
  /\ reading[c].op = "edit"
  /\ \E items \in Content : quote' = [quote EXCEPT ![reading[c].id].items = items]
  /\ VisitKept(Done(c))
  /\ UNCHANGED <<insp, wo, task, qc>>

\* send: a visit in repair goes back to waiting for the customer.
Interruptible == {"inProgress", "readyForRepair", "waitingParts"}

Send(q) ==
  /\ quote[q].status = "draft"
  /\ quote' = [quote EXCEPT ![q].status = "pending", ![q].overdue = FALSE]
  /\ IF visit \in Interruptible THEN VisitTo("waitingApproval", reading)
                                ELSE VisitKept(reading)
  /\ UNCHANGED <<insp, wo, task, qc>>

\* assertPendingNotExpired
Decidable(q) == quote[q].status = "pending" /\ ~quote[q].overdue

\* approve reads the quotation with its visit.
ReadApprove(c, q) ==
  /\ reading[c] = Idle
  /\ Decidable(q)
  /\ visit \in {"waitingApproval", "readyForRepair"}
  /\ Reads(c, [Read("approve", q) EXCEPT !.visit = visit,
                                         !.versioned = visit = "waitingApproval"])
  /\ UNCHANGED rows

\* The approval's transaction holds the quotation and the visit from its first
\* statements to its commit, so what becomes of them is decided at the commit.
\* The orders it only reads: createFromApprovedQuotationInTx looks for one of
\* the visit that is not cancelled, and anyone may change it before the commit.
LiveOrdersUnfiltered == {w \in WorkOrder : wo[w] # "none"}

LiveOrders == {w \in WorkOrder : wo[w] \notin {"none", "cancelled"}}

Blocked(w) == {t \in TasksOf(w) : task[t].status = "blocked"}

FindOrder(c) ==
  /\ reading[c].op = "approve"
  /\ quote[reading[c].id].status = "pending"
  /\ \/ /\ LiveOrders = {}
        /\ Reads(c, [reading[c] EXCEPT !.op = "approving"])
     \/ \E w \in LiveOrders :
          Reads(c, [reading[c] EXCEPT !.op = "approving", !.order = w,
                                      !.status = wo[w], !.set = Blocked(w)])
  /\ UNCHANGED rows

\* The order found is kept, and if it rested its blocked tasks are assigned
\* again: those blocked when it was found, or also those blocked since. If none
\* was found there is a new draft.
OrderForApproval(r) ==
  IF r.order = 0 THEN \E n \in 1..NewTasks : AddOrder(n)
  ELSE /\ \E ts \in {Blocked(r.order), Blocked(r.order) \cap r.set} :
            task' = IF r.status \in {"paused", "draft"} THEN TasksTo(ts, "assigned")
                                                        ELSE task
       /\ wo' = wo

Approve(c) ==
  LET r == reading[c]
  IN  /\ r.op = "approving"
      /\ quote[r.id].status = "pending"
      /\ quote' = [quote EXCEPT ![r.id].status = "approved"]
      /\ IF r.visit = "waitingApproval" THEN VisitTo("readyForRepair", Done(c))
                                        ELSE VisitKept(Done(c))
      /\ OrderForApproval(r)
      /\ UNCHANGED <<insp, qc>>

\* reject and requestChanges, to status s: the visit keeps waiting for approval.
ReadDecision(c, q, s) ==
  /\ reading[c] = Idle
  /\ Decidable(q)
  /\ Reads(c, Read(s, q))
  /\ UNCHANGED rows

DecideAny(c, s) ==
  /\ reading[c].op = s
  /\ quote' = [quote EXCEPT ![reading[c].id].status = s]
  /\ VisitKept(Done(c))
  /\ UNCHANGED <<insp, wo, task, qc>>

Decide(c, s) ==
  /\ reading[c].op = s
  /\ quote[reading[c].id].status = "pending"
  /\ quote' = [quote EXCEPT ![reading[c].id].status = s]
  /\ VisitKept(Done(c))
  /\ UNCHANGED <<insp, wo, task, qc>>

\* Time passes a pending quotation's validUntil.
Lapse(q) ==
  /\ quote[q].status = "pending" /\ ~quote[q].overdue
  /\ quote' = [quote EXCEPT ![q].overdue = TRUE]
  /\ UNCHANGED <<visit, insp, wo, task, qc, reading>>

\* expireOverdue lists the overdue quotations, then expires those of the list
\* that are pending.
ReadOverdue(c) ==
  LET overdue == {q \in Quote : quote[q].status = "pending" /\ quote[q].overdue}
  IN  /\ reading[c] = Idle
      /\ overdue # {}
      /\ Reads(c, [Read("expire", 0) EXCEPT !.set = overdue])
      /\ UNCHANGED rows

ExpireOverdue(c) ==
  /\ reading[c].op = "expire"
  /\ quote' = [q \in Quote |->
                 IF q \in reading[c].set /\ quote[q].status = "pending"
                 THEN [quote[q] EXCEPT !.status = "expired"] ELSE quote[q]]
  /\ VisitKept(Done(c))
  /\ UNCHANGED <<insp, wo, task, qc>>

\* newVersion: the parent is superseded whatever its status is by then; the
\* unique key on number and version refuses a second child.
ReadVersion(c, q) ==
  /\ reading[c] = Idle
  /\ quote[q].status \in {"pending", "rejected", "expired"} /\ FreeQuotes # {}
  /\ Reads(c, [Read("version", q) EXCEPT !.items = quote[q].items])
  /\ UNCHANGED rows

NewVersion(c, q) ==
  /\ reading[c].op = "version" /\ reading[c].id = q
  /\ \A child \in Quote : quote[child].parent # q
  /\ AddQuote([quote EXCEPT ![q].status = "superseded"], reading[c].items, q)
  /\ VisitKept(Done(c))
  /\ UNCHANGED <<insp, wo, task, qc>>

QuotationNext ==
  \/ CreateQuote
  \/ \E q \in Quote : Send(q) \/ Lapse(q)
  \/ \E c \in Clerk :
       \/ UpdateItems(c) \/ FindOrder(c) \/ Approve(c)
       \/ ReadOverdue(c) \/ ExpireOverdue(c)
       \/ \E q \in Quote : \/ ReadEdit(c, q) \/ ReadApprove(c, q)
                           \/ ReadVersion(c, q) \/ NewVersion(c, q)
       \/ \E s \in {"rejected", "draft"} :
            Decide(c, s) \/ \E q \in Quote : ReadDecision(c, q, s)
=============================================================================
