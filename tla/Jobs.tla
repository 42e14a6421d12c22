--------------------------------- MODULE Jobs ---------------------------------
(***************************************************************************)
(* The scheduled jobs of jobs.processors under the locks of                *)
(* job-lock.service, with reminder-engine.service as the job: a run takes  *)
(* the lock with a time to live, four sweeps go over their rows at once,   *)
(* and the run gives the lock back by reading it and deleting it in two    *)
(* calls. A sweep looks in the outbox for a reminder of the row within a   *)
(* number of days and then emits one.                                      *)
(*                                                                         *)
(* The lock expires whether the run is over or not. When a sweep throws,   *)
(* Promise.all rejects at once and the lock is given back while the other  *)
(* sweeps go on.                                                           *)
(***************************************************************************)
EXTENDS Naturals, FiniteSets

CONSTANTS Run,                                  \* runs that may be under way at once
          Sweep,                                \* the sweeps of a run
          Vehicle, Warranty, Visit, Customer,   \* active rows of the sweeps
          Driven,     \* km of a vehicle since its last completed visit
          ValidUntil, \* last day of a warranty
          Promised,   \* day a visit that is not completed was promised for
          LastVisit,  \* day a customer last came
          OilInterval, OilWarn, WarnDays, LapsedDays,
          Cooldown,   \* days, per sweep
          Take,       \* rows, per sweep
          MaxDay,     \* bound: days that pass
          MaxFaults   \* bound: crashes and failing sweeps

Sweeps == {"oil", "warranty", "delivery", "lapsed"}
NoRun  == "no run"

SubjectsOf == [oil |-> Vehicle, warranty |-> Warranty, delivery |-> Visit,
               lapsed |-> Customer]

ASSUME JobsAssumption ==
  /\ NoRun \notin Run /\ Sweep \subseteq Sweeps /\ MaxDay \in Nat
  /\ \A j, k \in Sweeps : j # k => SubjectsOf[j] \cap SubjectsOf[k] = {}
  /\ Driven \in [Vehicle -> Nat] /\ ValidUntil \in [Warranty -> Nat]
  /\ Promised \in [Visit -> Nat] /\ LastVisit \in [Customer -> Nat]
  /\ OilInterval \in Nat /\ OilWarn \in 0..OilInterval
  /\ Cooldown \in [Sweep -> Nat] /\ Take \in [Sweep -> Nat]

VARIABLES lock,    \* the Redis key of the job: its token, and whether it expires
          run,     \* what each run is doing
          sent,    \* reminders in the outbox: the days a subject was reminded on
          day,
          faults,
          excused  \* runs that went on after their lock was lost or given back

jobVars == <<lock, run, sent, day, faults, excused>>

Subject == UNION {SubjectsOf[k] : k \in Sweep}

\* reading are the sweeps that have yet to read their rows, todo the rows not yet
\* looked up, missing those found without a reminder; late says that the lock
\* expired between the two calls of the unlocking.
Idle == [phase |-> "idle", reading |-> {}, todo |-> {}, missing |-> {}, late |-> FALSE]
Free == [by |-> NoRun, px |-> FALSE]

Sweeping(r) == run[r].reading \cup run[r].todo \cup run[r].missing # {}
Going(r)    == run[r].phase = "working" \/ Sweeping(r)

JobsInit ==
  /\ lock = Free
  /\ run = [r \in Run |-> Idle]
  /\ sent = [s \in Subject |-> {}]
  /\ day = 0 /\ faults = 0
  /\ excused = {}

-----------------------------------------------------------------------------
\* Mutant: the lock never expires.
StartWithoutExpiry(r) ==
  /\ run[r] = Idle /\ lock = Free
  /\ lock' = [by |-> r, px |-> FALSE]
  /\ run' = [run EXCEPT ![r].phase = "working", ![r].reading = Sweep]
  /\ excused' = excused \ {r}
  /\ UNCHANGED <<sent, day, faults>>

\* SET NX PX; a run that finds the lock held is skipped.
Start(r) ==
  /\ run[r] = Idle /\ lock = Free
  /\ lock' = [by |-> r, px |-> TRUE]
  /\ run' = [run EXCEPT ![r].phase = "working", ![r].reading = Sweep]
  /\ excused' = excused \ {r}
  /\ UNCHANGED <<sent, day, faults>>

\* What a query without an order may return.
Taken(k, rows) ==
  {T \in SUBSET rows : Cardinality(T) = IF Cardinality(rows) > Take[k]
                                        THEN Take[k] ELSE Cardinality(rows)}

\* The distance is compared after the rows are taken: with more vehicles than Take
\* a due one may never be among them.
OilChangeDue ==
  {{v \in T : Driven[v] >= OilInterval - OilWarn} : T \in Taken("oil", Vehicle)}

WarrantyExpiring ==
  Taken("warranty", {w \in Warranty : ValidUntil[w] \in day..(day + WarnDays)})

ScheduledServiceDue == Taken("delivery", {v \in Visit : Promised[v] <= day + 1})

LapsedCustomers == Taken("lapsed", {c \in Customer : LastVisit[c] + LapsedDays < day})

Rows == [oil |-> OilChangeDue, warranty |-> WarrantyExpiring,
         delivery |-> ScheduledServiceDue, lapsed |-> LapsedCustomers]

Read(r, k) ==
  /\ k \in run[r].reading
  /\ \E rows \in Rows[k] :
       run' = [run EXCEPT ![r].reading = @ \ {k}, ![r].todo = @ \cup rows]
  /\ UNCHANGED <<lock, sent, day, faults, excused>>

\* How an event is kept in the outbox: emit writes its payload as an object.
Payload == "object"

\* Prisma's string_contains without a path, on PostgreSQL: it also asks that the
\* column's JSON be a string.
StringContains(payload) == payload = "string"

\* Is the subject's id in the payload of an event within the cooldown? No payload
\* is ever one that the filter admits.
AlreadySent(k, s) == StringContains(Payload) /\ \E d \in sent[s] : d + Cooldown[k] >= day

Look(r, k, s) ==
  /\ s \in run[r].todo \cap SubjectsOf[k]
  /\ run[r].missing \cap SubjectsOf[k] = {}
  /\ run' = [run EXCEPT ![r].todo = @ \ {s},
                        ![r].missing = IF AlreadySent(k, s) THEN @ ELSE @ \cup {s}]
  /\ UNCHANGED <<lock, sent, day, faults, excused>>

Remind(r, s) ==
  /\ s \in run[r].missing
  /\ run' = [run EXCEPT ![r].missing = @ \ {s}]
  /\ sent' = [sent EXCEPT ![s] = @ \cup {day}]
  /\ UNCHANGED <<lock, day, faults, excused>>

Swept(r) ==
  /\ run[r].phase = "working" /\ ~Sweeping(r)
  /\ run' = [run EXCEPT ![r].phase = "unlocking"]
  /\ UNCHANGED <<lock, sent, day, faults, excused>>

\* A sweep throws: the others go on without the run.
Fail(r, k) ==
  /\ faults < MaxFaults
  /\ run[r].phase = "working"
  /\ k \in run[r].reading \/ (run[r].todo \cup run[r].missing) \cap SubjectsOf[k] # {}
  /\ faults' = faults + 1
  /\ run' = [run EXCEPT ![r].phase = "unlocking", ![r].reading = @ \ {k},
                        ![r].todo = @ \ SubjectsOf[k], ![r].missing = @ \ SubjectsOf[k]]
  /\ excused' = IF Sweeping(r)' THEN excused \cup {r} ELSE excused
  /\ UNCHANGED <<lock, sent, day>>

\* Mutant: the lock is deleted whoever holds it.
UnlockAny(r) ==
  /\ run[r].phase = "unlocking"
  /\ run' = [run EXCEPT ![r].phase = "deleting"]
  /\ UNCHANGED <<lock, sent, day, faults, excused>>

\* GET: the lock is only deleted by the run whose token it holds ...
Unlock(r) ==
  /\ run[r].phase = "unlocking"
  /\ run' = [run EXCEPT ![r].phase = IF lock.by = r THEN "deleting" ELSE "idle"]
  /\ UNCHANGED <<lock, sent, day, faults, excused>>

\* ... unless it has changed hands before the DEL.
Delete(r) ==
  /\ run[r].phase = "deleting"
  /\ lock' = Free
  /\ run' = [q \in Run |-> IF q = r THEN [run[q] EXCEPT !.phase = "idle", !.late = FALSE]
                           ELSE IF q = lock.by /\ run[q].phase = "deleting"
                           THEN [run[q] EXCEPT !.late = TRUE]
                           ELSE run[q]]
  /\ excused' = excused \cup {q \in Run : run[r].late /\ lock.by = q /\ Going(q)}
  /\ UNCHANGED <<sent, day, faults>>

-----------------------------------------------------------------------------
Expire ==
  /\ lock.px
  /\ lock' = Free
  /\ run' = [q \in Run |-> IF q = lock.by /\ run[q].phase = "deleting"
                           THEN [run[q] EXCEPT !.late = TRUE] ELSE run[q]]
  /\ excused' = excused \cup {q \in Run : lock.by = q /\ Going(q)}
  /\ UNCHANGED <<sent, day, faults>>

RunCrashes(r) ==
  /\ faults < MaxFaults
  /\ run[r] # Idle
  /\ faults' = faults + 1
  /\ run' = [run EXCEPT ![r] = Idle]
  /\ UNCHANGED <<lock, sent, day, excused>>

NextDay ==
  /\ day < MaxDay
  /\ day' = day + 1
  /\ UNCHANGED <<lock, run, sent, faults, excused>>

GoOn(r) ==
  \/ Swept(r) \/ Unlock(r) \/ Delete(r)
  \/ \E k \in Sweep : Read(r, k) \/ \E s \in Subject : Look(r, k, s)
  \/ \E s \in Subject : Remind(r, s)

JobsNext ==
  \/ \E r \in Run : Start(r) \/ GoOn(r) \/ RunCrashes(r) \/ \E k \in Sweep : Fail(r, k)
  \/ Expire \/ NextDay

JobsSpec == JobsInit /\ [][JobsNext]_jobVars

\* The schedule fires again and again and a held lock is given back or expires
\* long before the next night; a run that has begun goes on by itself.
JobsFair ==
  /\ WF_jobVars(\E r \in Run : Start(r))
  /\ \A r \in Run : WF_jobVars(GoOn(r))
  /\ WF_jobVars(Expire)

-----------------------------------------------------------------------------
\* Two runs of a job are under way at once only if one of them outlived its
\* lock, failed while sweeps of it went on, or had its lock deleted by a run
\* whose own had expired between the two calls of the unlocking.
OverlapsNeedLostLocks ==
  \A r, q \in Run : r # q /\ Going(r) /\ Going(q) => r \in excused \/ q \in excused

\* The engine runs nightly and does not nag: a subject reminded on one day is not
\* reminded on a later one within the cooldown.
NotRemindedAgain ==
  [][\A k \in Sweep : \A s \in SubjectsOf[k] :
       \A d \in sent'[s] \ sent[s] : ~\E c \in sent[s] : c + Cooldown[k] >= d]_jobVars

\* What is due on the last day has been reminded within its cooldown in the end,
\* whatever crashed or failed on the way.
DueSubjectsAreReminded ==
  \A k \in Sweep : \A s \in SubjectsOf[k] :
    <>[](\A rows \in Rows[k] : s \in rows => \E d \in sent[s] : d + Cooldown[k] >= day)
=============================================================================
