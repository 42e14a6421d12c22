---------------------------------- MODULE Uxb ----------------------------------
(***************************************************************************)
(* uxb.service.ts: the jobs of the film shop, stage by stage, their        *)
(* service lines, their invoice, and the rolls of film they use.           *)
(*                                                                         *)
(* A line is an edit's number and the panel it covers; rev counts the      *)
(* edits. The consumption recorded for a line is deleted with it; the      *)
(* records are kept as what they come to, the deleted ones included.       *)
(*                                                                         *)
(* Lengths are in the unit of the columns, a thousandth of a metre.        *)
(***************************************************************************)
EXTENDS ShopDesk

CONSTANTS Job,
          Panel,
          Roll,
          RollLength,  \* the length of a new roll
          MaxEdits     \* bound: edits of a job's lines

ASSUME UxbAssumption == RollLength \in Nat \ {0} /\ MaxEdits \in Nat

Stages == <<"reception", "inspection", "in_progress", "quality", "ready", "delivered">>

Stage == {Stages[i] : i \in 1..6}

EditableStages == {"reception", "inspection"}

\* indexOf: a job that is not on the list, for it was cancelled, counts as 0.
IndexOf(stage) == IF stage \in Stage THEN CHOOSE i \in 1..6 : Stages[i] = stage ELSE 0

VARIABLES job,      \* uxb.jobs
          roll,     \* uxb.material_rolls
          recorded  \* per roll, the length on consumption records, deleted ones too

uxbVars == <<job, roll, recorded>>

UxbTypeOK ==
  /\ \A j \in Job :
       /\ job[j].stage \in Stage \cup {"none", "cancelled"}
       /\ job[j].rev \in 0..MaxEdits
       /\ job[j].lines \subseteq (1..MaxEdits) \X Panel /\ job[j].zones \subseteq Panel
       /\ job[j].invoice \in 0..Len(billed[j])
  /\ \A r \in Roll :
       /\ roll[r].status \in {"none", "open", "depleted"}
       /\ roll[r].remaining \in 0..RollLength
  /\ recorded \in [Roll -> Nat]

UxbInit ==
  /\ job = [j \in Job |-> [stage |-> "none", lines |-> {}, zones |-> {}, rev |-> 0,
                           invoice |-> 0]]
  /\ roll = [r \in Roll |-> [status |-> "none", remaining |-> 0]]
  /\ recorded = [r \in Roll |-> 0]

-----------------------------------------------------------------------------
CreateJob(j) ==
  /\ job[j].stage = "none"
  /\ job' = [job EXCEPT ![j].stage = "reception"]
  /\ UNCHANGED <<deskVars, roll, recorded>>

Exists(j) == job[j].stage # "none"

ReadForJobItems(c, j) ==
  /\ job[j].stage \in EditableStages
  /\ ReadRow(c, "jobItems", j, NoLines)
  /\ UNCHANGED <<billed, uxbVars>>

\* setJobItems: the lines that are there, at whatever stage the job has reached by
\* now, are deleted, with the records of the film they used;
DeleteJobItems(c) ==
  /\ Serving(c, "jobItems")
  /\ ReadOn(c, "replaceJob", [lines |-> job[serving[c].ref].lines])
  /\ UNCHANGED <<billed, uxbVars>>

\* and the new ones inserted, and all of it committed. A panel is added to the map of
\* zones with its first line and never leaves it.
SetJobItems(c, panels) ==
  LET j == serving[c].ref IN
  /\ Serving(c, "replaceJob")
  /\ job[j].rev < MaxEdits
  /\ job' = [job EXCEPT
       ![j].lines = (@ \ serving[c].saw.lines) \cup Inserted(job[j].rev + 1, panels),
       ![j].zones = @ \cup panels, ![j].rev = @ + 1]
  /\ Done(c)
  /\ UNCHANGED <<billed, roll, recorded>>

\* setZoneStatus and its upsert: any panel gets a zone.
SetZone(j, z) ==
  /\ Exists(j)
  /\ job' = [job EXCEPT ![j].zones = @ \cup {z}]
  /\ UNCHANGED <<deskVars, roll, recorded>>

\* advanceJob to a stage reads the job, and asks for the next stage only; then the
\* job's lines, for there must be some unless it is for the inspection.
ReadForAdvance(c, j) ==
  /\ Exists(j) /\ job[j].stage # "delivered"
  /\ ReadRow(c, "advancing", j, [stage |-> job[j].stage])
  /\ UNCHANGED <<billed, uxbVars>>

LookAtLines(c) ==
  /\ Serving(c, "advancing")
  /\ IndexOf(serving[c].saw.stage) + 1 # 2 => job[serving[c].ref].lines # {}
  /\ ReadOn(c, "advance", serving[c].saw)
  /\ UNCHANGED <<billed, uxbVars>>

\* Mutant: the job moves two stages at once.
AdvanceJobTwice(c) ==
  LET j == serving[c].ref IN
  /\ Serving(c, "advance")
  /\ IndexOf(serving[c].saw.stage) <= 4
  /\ job' = [job EXCEPT ![j].stage = Stages[IndexOf(serving[c].saw.stage) + 2]]
  /\ Done(c)
  /\ UNCHANGED <<billed, roll, recorded>>

\* The stage that was asked for is written over whatever the job has become.
AdvanceJob(c) ==
  LET j == serving[c].ref IN
  /\ Serving(c, "advance")
  /\ job' = [job EXCEPT ![j].stage = Stages[IndexOf(serving[c].saw.stage) + 1]]
  /\ Done(c)
  /\ UNCHANGED <<billed, roll, recorded>>

\* advanceJob to cancelled, from any stage.
CancelJob(j) ==
  /\ Exists(j)
  /\ job' = [job EXCEPT ![j].stage = "cancelled"]
  /\ UNCHANGED <<deskVars, roll, recorded>>

ReadForInvoice(c, j) ==
  /\ job[j].invoice = 0
  /\ job[j].stage \in {"ready", "delivered"}
  /\ ReadRow(c, "invoicing", j, NoLines)
  /\ UNCHANGED <<billed, uxbVars>>

ReadJobLines(c) ==
  /\ Serving(c, "invoicing")
  /\ ReadOn(c, "invoice", [lines |-> job[serving[c].ref].lines])
  /\ UNCHANGED <<billed, uxbVars>>

\* invoiceJob's transaction: the lines that were read are billed.
InvoiceJob(c) ==
  LET j == serving[c].ref IN
  /\ Serving(c, "invoice")
  /\ RaiseInvoice(j, serving[c].saw.lines)
  /\ job' = [job EXCEPT ![j].invoice = NewInvoice(j)]
  /\ Done(c)
  /\ UNCHANGED <<roll, recorded>>

-----------------------------------------------------------------------------
OpenRoll(r) ==
  /\ roll[r].status = "none"
  /\ roll' = [roll EXCEPT ![r] = [status |-> "open", remaining |-> RollLength]]
  /\ UNCHANGED <<deskVars, job, recorded>>

\* consumeRoll reads the roll without a lock and checks that it has enough.
ReadRoll(c, r, length) ==
  /\ roll[r].status # "none"
  /\ length <= roll[r].remaining
  /\ ReadRow(c, "consume", r, [row |-> roll[r], length |-> length])
  /\ UNCHANGED <<billed, uxbVars>>

\* Its write: a record for a line of job j, and on the roll what is left of the
\* length it read. The difference is taken in floating point, and rounded only when
\* it is stored: what is stored as zero need not have been equal to zero.
ConsumeRoll(c, j) ==
  LET r == serving[c].ref
      saw == serving[c].saw
      left == saw.row.remaining - saw.length
  IN
  /\ Serving(c, "consume")
  /\ job[j].lines \ Deleted("replaceJob", j) # {}
  /\ recorded' = [recorded EXCEPT ![r] = @ + saw.length]
  /\ \E status \in {saw.row.status} \cup IF left = 0 THEN {"depleted"} ELSE {} :
       roll' = [roll EXCEPT ![r] = [status |-> status, remaining |-> left]]
  /\ Done(c)
  /\ UNCHANGED <<billed, job>>

UxbNext ==
  \/ \E j \in Job : CreateJob(j) \/ CancelJob(j)
  \/ \E j \in Job, z \in Panel : SetZone(j, z)
  \/ \E c \in Seller, j \in Job :
       ReadForJobItems(c, j) \/ ReadForAdvance(c, j) \/ ReadForInvoice(c, j)
  \/ \E c \in Seller, panels \in SUBSET Panel : SetJobItems(c, panels)
  \/ \E c \in Seller : DeleteJobItems(c) \/ LookAtLines(c) \/ AdvanceJob(c)
                        \/ ReadJobLines(c) \/ InvoiceJob(c)
  \/ \E r \in Roll : OpenRoll(r)
  \/ \E c \in Seller, r \in Roll, length \in 1..RollLength : ReadRoll(c, r, length)
  \/ \E c \in Seller, j \in Job : ConsumeRoll(c, j)

-----------------------------------------------------------------------------
\* What is missing from a roll is on consumption records, or was on one that an
\* edit of the job's lines deleted; draws that overlap can only make the roll show
\* more than there is, never less. A roll that is called depleted shows none; one
\* that shows none need not be called so.
MaterialIsAccounted ==
  \A r \in Roll : roll[r].status # "none" =>
    /\ RollLength - roll[r].remaining <= recorded[r]
    /\ roll[r].status = "depleted" => roll[r].remaining = 0

\* A job moves one stage at a time or is cancelled; a cancelled one starts over.
\* It moves otherwise only by a request that read it at another stage, so never
\* when one person at a time works on it.
StagesInOrder ==
  [][\A j \in Job :
       \/ IndexOf(job'[j].stage) \in {0, IndexOf(job[j].stage), IndexOf(job[j].stage) + 1}
       \/ \E c \in Seller : /\ Serving(c, "advance") /\ serving[c].ref = j
                           /\ serving[c].saw.stage # job[j].stage]_<<deskVars, uxbVars>>
=============================================================================
