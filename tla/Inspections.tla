----------------------------- MODULE Inspections -----------------------------
(***************************************************************************)
(* inspections.service: an inspection is opened on a waiting visit, filled *)
(* in, and completed with a draft quotation that sends the visit to        *)
(* approval. Each routine reads before its transaction.                    *)
(***************************************************************************)
EXTENDS VisitRows

\* The visit as create reads it.
ReadVisit(c) ==
  /\ reading[c] = Idle
  /\ visit \in {"waiting", "inspection"} /\ FreeInspections # {}
  /\ Reads(c, [Read("inspect", 0) EXCEPT !.visit = visit, !.versioned = visit = "waiting"])
  /\ UNCHANGED rows

\* The search for an open inspection, after the visit was read.
CheckOpen(c) ==
  /\ reading[c].op = "inspect"
  /\ \A i \in Inspection : insp[i].status # "in_progress"
  /\ Reads(c, [reading[c] EXCEPT !.op = "inspect visit"])
  /\ UNCHANGED rows

CreateInspection(c) ==
  /\ reading[c].op = "inspect visit"
  /\ \E i \in Inspection :
       /\ Lowest(i, FreeInspections)
       /\ insp' = [insp EXCEPT ![i].status = "in_progress"]
  /\ IF reading[c].visit = "waiting" THEN VisitTo("inspection", Done(c))
                                     ELSE VisitKept(Done(c))
  /\ UNCHANGED <<quote, wo, task, qc>>

ReadResults(c, i) ==
  /\ reading[c] = Idle
  /\ insp[i].status = "in_progress"
  /\ Reads(c, Read("results", i))
  /\ UNCHANGED rows

\* The results of some or all items; the inspection is in progress (again).
UpdateResults(c) ==
  /\ reading[c].op = "results"
  /\ \E full \in BOOLEAN :
       /\ insp[reading[c].id].full => full
       /\ insp' = [insp EXCEPT ![reading[c].id] =
                     [status |-> "in_progress", full |-> full]]
  /\ VisitKept(Done(c))
  /\ UNCHANGED <<quote, wo, task, qc>>

\* complete reads the inspection and its results, and then the visit.
ReadComplete(c, i) ==
  /\ reading[c] = Idle
  /\ insp[i].status = "in_progress" /\ insp[i].full /\ FreeQuotes # {}
  /\ Reads(c, Read("inspected", i))
  /\ UNCHANGED rows

ReadCompleteVisitUnversioned(c) ==
  /\ reading[c].op = "inspected"
  /\ "waitingApproval" \in VisitMoves[visit] \/ visit = "waitingApproval"
  /\ Reads(c, [reading[c] EXCEPT !.op = "complete inspection", !.visit = visit])
  /\ UNCHANGED rows

ReadCompleteVisit(c) ==
  /\ reading[c].op = "inspected"
  /\ "waitingApproval" \in VisitMoves[visit] \/ visit = "waitingApproval"
  /\ Reads(c, [reading[c] EXCEPT !.op = "complete inspection", !.visit = visit,
                                 !.versioned = visit # "waitingApproval"])
  /\ UNCHANGED rows

CompleteInspection(c) ==
  LET r == reading[c]
  IN  /\ r.op = "complete inspection"
      /\ insp' = [insp EXCEPT ![r.id].status = "completed"]
      /\ \E items \in Content : AddQuote(quote, items, 0)
      /\ IF r.visit # "waitingApproval" THEN VisitTo("waitingApproval", Done(c))
                                        ELSE VisitKept(Done(c))
      /\ UNCHANGED <<wo, task, qc>>

InspectionNext ==
  \E c \in Clerk :
    \/ ReadVisit(c) \/ CheckOpen(c) \/ CreateInspection(c)
    \/ UpdateResults(c) \/ ReadCompleteVisit(c) \/ CompleteInspection(c)
    \/ \E i \in Inspection : ReadResults(c, i) \/ ReadComplete(c, i)
=============================================================================
