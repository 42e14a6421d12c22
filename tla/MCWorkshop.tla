------------------------------ MODULE MCWorkshop ------------------------------
(* Instances of Workshop for TLC: clerks, and the items, are interchangeable. A  *)
(* run looks at the scenes it names: the intake, with its inspections and their  *)
(* quotations; the quotations and what else touches them, where approvals need   *)
(* an order, the order's remaining routines leave the quotations alone and the   *)
(* third quotation is a new version of another; and the checks of one order, its *)
(* tasks and the visit. A reading whose write the scene leaves out could only be *)
(* given up, and is left out too; so are the statuses of the visit from which it *)
(* could only come back.                                                         *)
EXTENDS Workshop, TLC

CONSTANT Scenes

VARIABLE scene

SceneInit == Init /\ scene \in Scenes

NoReading(op) == \A c \in Clerk : reading'[c].op # op

IntakeNext ==
  /\ VisitNext \/ InspectionNext \/ QuotationNext
  /\ UNCHANGED <<wo, task, qc>>
  /\ NoReading("approve")
  /\ visit' # "waitingParts"
  /\ \A q \in Quote : q > 2 => quote'[q] = quote[q]

QuotesNext ==
  /\ \/ VisitNext
     \/ QuotationNext
     \/ \E w \in WorkOrder : Assign(w) \/ Cancel(w)
     \/ \E c \in Clerk, w \in WorkOrder : ReadIssue(c, w) \/ AdditionalIssue(c, w)
  /\ visit' \notin {"waitingParts", "qualityCheck"}
  /\ \A q \in Quote : q > 2 /\ quote'[q].status # "none" => quote'[q].parent # 0
  /\ \A t \in Task : t > 1 => task'[t] = task[t]

ChecksNext ==
  /\ VisitNext \/ WorkOrderNext \/ QualityNext
  /\ NoReading("issue")
  /\ visit' # "waitingParts"
  /\ visit' = "waitingApproval" => visit \in {"inspection", "waitingApproval"}
  /\ UNCHANGED <<insp, quote>>

SceneNext ==
  /\ UNCHANGED scene
  /\ \/ scene = "intake" /\ IntakeNext
     \/ scene = "quotes" /\ QuotesNext
     \/ scene = "checks" /\ ChecksNext

SceneSpec == SceneInit /\ [][SceneNext]_<<scene, vars>>
RowSymmetry == Permutations(Clerk) \cup Permutations(Content)
=============================================================================
