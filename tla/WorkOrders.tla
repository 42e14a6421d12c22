------------------------------ MODULE WorkOrders ------------------------------
(***************************************************************************)
(* work-orders.service and technician-tasks.service. A work order and its  *)
(* tasks are changed together by the order's routines; a technician also   *)
(* starts, pauses and completes single tasks. Technicians, bays, progress  *)
(* and timers are left out: assign is the only way out of draft, so every  *)
(* order that can be started has a technician.                             *)
(***************************************************************************)
EXTENDS VisitRows

\* technician-tasks: the table of moves.
TaskMoves ==
  [none        |-> {},
   pending     |-> {"assigned", "in_progress", "blocked"},
   assigned    |-> {"in_progress", "blocked"},
   in_progress |-> {"paused", "completed", "blocked"},
   paused      |-> {"in_progress", "completed", "blocked"},
   completed   |-> {},
   blocked     |-> {"assigned", "in_progress"}]

TasksIn(w, statuses) == {t \in TasksOf(w) : task[t].status \in statuses}

\* create: the visit and its approved quotation are read first.
ReadNewOrder(c) ==
  /\ reading[c] = Idle
  /\ visit # "waitingApproval" /\ FreeOrders # {}
  /\ \/ \E q \in Quote : quote[q].status = "approved"
     \/ visit \in {"readyForRepair", "inProgress"}
  /\ Reads(c, Read("new order", 0))
  /\ UNCHANGED rows

CreateOrder(c) ==
  /\ reading[c].op = "new order"
  /\ \E n \in 1..NewTasks : AddOrder(n)
  /\ VisitKept(Done(c))
  /\ UNCHANGED <<insp, quote, qc>>

Assign(w) ==
  /\ "assigned" \in OrderMoves[wo[w]]
  /\ wo' = [wo EXCEPT ![w] = "assigned"]
  /\ task' = TasksTo(TasksIn(w, {"pending", "assigned"}), "assigned")
  /\ UNCHANGED <<visit, insp, quote, qc, reading>>

\* start reads the order with its visit; a visit ready for repair then goes
\* into repair by its version.
ReadStart(c, w) ==
  /\ reading[c] = Idle
  /\ visit # "waitingApproval"
  /\ "in_progress" \in OrderMoves[wo[w]]
  /\ Reads(c, [Read("start", w) EXCEPT
                 !.status = wo[w],
                 !.visit = IF visit = "readyForRepair" THEN visit ELSE "none",
                 !.versioned = visit = "readyForRepair"])
  /\ UNCHANGED rows

Start(c, w) ==
  LET r == reading[c]
  IN  /\ r.op = "start" /\ r.id = w
      /\ wo[w] = r.status
      /\ wo' = [wo EXCEPT ![w] = "in_progress"]
      /\ task' = TasksTo(TasksIn(w, {"assigned", "paused", "pending"}), "in_progress")
      /\ IF r.visit = "readyForRepair" THEN VisitTo("inProgress", Done(c))
                                       ELSE VisitKept(Done(c))
      /\ UNCHANGED <<insp, quote, qc>>

\* pause lists the tasks in progress and writes each by its id.
ReadPause(c, w) ==
  /\ reading[c] = Idle
  /\ "paused" \in OrderMoves[wo[w]]
  /\ Reads(c, [Read("pause", w) EXCEPT !.set = TasksIn(w, {"in_progress"})])
  /\ UNCHANGED rows

Pause(c, w) ==
  /\ reading[c].op = "pause" /\ reading[c].id = w
  /\ task' = TasksTo(reading[c].set, "paused")
  /\ wo[w] = "in_progress"
  /\ wo' = [wo EXCEPT ![w] = "paused"]
  /\ VisitKept(Done(c))
  /\ UNCHANGED <<insp, quote, qc>>

\* complete lists the open tasks and completes each by its id; the order keeps
\* its status, which must still be the one read.
ReadCompleteOrder(c, w) ==
  /\ reading[c] = Idle
  /\ wo[w] \in {"in_progress", "paused"}
  /\ Reads(c, [Read("complete", w) EXCEPT
                 !.status = wo[w],
                 !.set = {t \in TasksOf(w) : task[t].status \notin {"completed", "blocked"}}])
  /\ UNCHANGED rows

CompleteOrder(c, w) ==
  /\ reading[c].op = "complete" /\ reading[c].id = w
  /\ task' = TasksTo(reading[c].set, "completed")
  /\ wo[w] = reading[c].status
  /\ wo' = wo
  /\ VisitKept(Done(c))
  /\ UNCHANGED <<insp, quote, qc>>

\* sendToQc: the tasks are looked at before the transaction; a pending check is
\* kept, and the visit follows where its table lets it.
ReadSendToQc(c, w) ==
  /\ reading[c] = Idle
  /\ wo[w] \in {"in_progress", "paused"}
  /\ \A t \in TasksOf(w) : task[t].status = "completed"
  /\ Reads(c, Read("send to qc", w))
  /\ UNCHANGED rows

SendToQc(c, w) ==
  /\ reading[c].op = "send to qc" /\ reading[c].id = w
  /\ wo[w] \in {"in_progress", "paused"}
  /\ wo' = [wo EXCEPT ![w] = "qc"]
  /\ IF \E k \in Check : qc[k].order = w /\ qc[k].status = "pending"
     THEN qc' = qc ELSE AddCheck(w)
  /\ IF "qualityCheck" \in VisitMoves[visit] THEN VisitTo("qualityCheck", Done(c))
                                             ELSE VisitKept(Done(c))
  /\ UNCHANGED <<insp, quote, task>>

\* additionalIssue: the order is paused, its open tasks are blocked, and a draft
\* quotation waits for the advisor. An order read as paused is not looked at again.
ReadIssue(c, w) ==
  /\ reading[c] = Idle
  /\ wo[w] \in {"assigned", "in_progress", "paused", "waiting_parts"} /\ FreeQuotes # {}
  /\ Reads(c, [Read("issue", w) EXCEPT !.status = wo[w]])
  /\ UNCHANGED rows

AdditionalIssue(c, w) ==
  LET r == reading[c]
  IN  /\ r.op = "issue" /\ r.id = w
      /\ IF r.status = "paused" THEN wo' = wo
         ELSE wo[w] = r.status /\ wo' = [wo EXCEPT ![w] = "paused"]
      /\ task' = TasksTo(TasksIn(w, {"pending", "assigned", "in_progress", "paused"}),
                         "blocked")
      /\ \E items \in Content : AddQuote(quote, items, 0)
      /\ VisitKept(Done(c))
      /\ UNCHANGED <<insp, qc>>

Cancel(w) ==
  /\ "cancelled" \in OrderMoves[wo[w]]
  /\ wo' = [wo EXCEPT ![w] = "cancelled"]
  /\ task' = TasksTo({t \in TasksOf(w) : task[t].status # "completed"}, "blocked")
  /\ UNCHANGED <<visit, insp, quote, qc, reading>>

-----------------------------------------------------------------------------
\* The technician's own tasks. start reads the task, its order and its visit;
\* an order read as assigned or paused follows if it is still so.
ReadStartTask(c, t) ==
  /\ reading[c] = Idle
  /\ visit # "waitingApproval"
  /\ "in_progress" \in TaskMoves[task[t].status]
  /\ \E w \in WorkOrder :
       /\ task[t].order = w
       /\ Reads(c, [Read("start task", t) EXCEPT !.status = wo[w]])
  /\ UNCHANGED rows

StartTask(c, t) ==
  LET w == task[t].order
      s == reading[c].status
  IN  /\ reading[c].op = "start task" /\ reading[c].id = t
      /\ task[t].status \in {"pending", "assigned", "paused", "blocked"}
      /\ task' = TasksTo({t}, "in_progress")
      /\ wo' = IF s \in {"assigned", "paused"} /\ wo[w] = s
               THEN [wo EXCEPT ![w] = "in_progress"] ELSE wo
      /\ VisitKept(Done(c))
      /\ UNCHANGED <<insp, quote, qc>>

MoveTask(t, from, to) ==
  /\ task[t].status \in from
  /\ task' = TasksTo({t}, to)
  /\ UNCHANGED <<visit, insp, quote, wo, qc, reading>>

PauseTask(t) == MoveTask(t, {"in_progress"}, "paused")

CompleteTask(t) == MoveTask(t, {"in_progress", "paused"}, "completed")

WorkOrderNext ==
  \/ \E w \in WorkOrder : Assign(w) \/ Cancel(w)
  \/ \E t \in Task : PauseTask(t) \/ CompleteTask(t)
  \/ \E c \in Clerk :
       \/ ReadNewOrder(c) \/ CreateOrder(c)
       \/ \E w \in WorkOrder :
            \/ ReadStart(c, w) \/ Start(c, w) \/ ReadPause(c, w) \/ Pause(c, w)
            \/ ReadCompleteOrder(c, w) \/ CompleteOrder(c, w)
            \/ ReadSendToQc(c, w) \/ SendToQc(c, w)
            \/ ReadIssue(c, w) \/ AdditionalIssue(c, w)
       \/ \E t \in Task : ReadStartTask(c, t) \/ StartTask(c, t)
=============================================================================
