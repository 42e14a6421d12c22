---------------------------- MODULE QualityControl ----------------------------
(***************************************************************************)
(* quality-control.service: the checklist of a work order, and its verdict,*)
(* which moves the visit by its version and the order if it is in qc.      *)
(***************************************************************************)
EXTENDS VisitRows

\* create: the search for a pending check comes before the insertion, and
\* there is no transaction around them.
ReadNewCheck(c, w) ==
  /\ reading[c] = Idle
  /\ wo[w] # "none" /\ FreeChecks # {}
  /\ wo[w] = "qc" \/ visit = "qualityCheck"
  /\ \A k \in Check : ~(qc[k].order = w /\ qc[k].status = "pending")
  /\ Reads(c, Read("new check", w))
  /\ UNCHANGED rows

CreateCheck(c, w) ==
  /\ reading[c].op = "new check" /\ reading[c].id = w
  /\ AddCheck(w)
  /\ VisitKept(Done(c))
  /\ UNCHANGED <<insp, quote, wo, task>>

\* updateItems: only the reading looks at the status.
ReadMark(c, k) ==
  /\ reading[c] = Idle
  /\ qc[k].status = "pending"
  /\ Reads(c, Read("mark", k))
  /\ UNCHANGED rows

MarkItems(c) ==
  /\ reading[c].op = "mark"
  /\ \E items \in CheckItems : qc' = [qc EXCEPT ![reading[c].id].items = items]
  /\ VisitKept(Done(c))
  /\ UNCHANGED <<insp, quote, wo, task>>

\* pass and fail read the check with its items, its visit and its order.
ReadVerdict(c, k, op, items) ==
  /\ reading[c] = Idle
  /\ qc[k].status = "pending" /\ qc[k].items = items
  /\ visit = "qualityCheck"
  /\ \E w \in WorkOrder :
       /\ qc[k].order = w
       /\ Reads(c, [Read(op, k) EXCEPT !.status = wo[w], !.visit = visit,
                                       !.versioned = TRUE])
  /\ UNCHANGED rows

ReadPass(c, k) == ReadVerdict(c, k, "pass", "passed")
ReadFail(c, k) == ReadVerdict(c, k, "fail", "failed")

\* An order that was in qc when read, and still is, goes to status s.
OrderTo(w, seen, s) ==
  wo' = IF seen = "qc" /\ wo[w] = "qc" THEN [wo EXCEPT ![w] = s] ELSE wo

Pass(c, k) ==
  LET r == reading[c]
  IN  /\ r.op = "pass" /\ r.id = k
      /\ qc[k].status = "pending"
      /\ qc' = [qc EXCEPT ![k].status = "passed"]
      /\ VisitTo("readyForDelivery", Done(c))
      /\ OrderTo(qc[k].order, r.status, "completed")
      /\ UNCHANGED <<insp, quote, task>>

\* fail adds the rework to the order, as a task that is assigned.
AddRework(w) ==
  \E t \in Task :
    /\ Lowest(t, FreeTasks)
    /\ task' = [task EXCEPT ![t] = [status |-> "assigned", order |-> w]]

Fail(c, k) ==
  LET r == reading[c]
  IN  /\ r.op = "fail" /\ r.id = k
      /\ qc[k].status = "pending"
      /\ qc' = [qc EXCEPT ![k].status = "failed"]
      /\ VisitTo("inProgress", Done(c))
      /\ OrderTo(qc[k].order, r.status, "in_progress")
      /\ AddRework(qc[k].order)
      /\ UNCHANGED <<insp, quote>>

QualityNext ==
  \E c \in Clerk :
    \/ MarkItems(c)
    \/ \E w \in WorkOrder : ReadNewCheck(c, w) \/ CreateCheck(c, w)
    \/ \E k \in Check : \/ ReadMark(c, k) \/ ReadPass(c, k) \/ ReadFail(c, k)
                        \/ Pass(c, k) \/ Fail(c, k)
=============================================================================
