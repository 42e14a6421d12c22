--------------------------------- MODULE Sync ---------------------------------
(***************************************************************************)
(* How requests reach reception. The desk sends one check-in under an      *)
(* Idempotency-Key; a device that was offline sends a batch of operations, *)
(* each with its own id. Either way the server looks the id up, does the   *)
(* work, and stores the answer, in separate transactions; a batch goes on  *)
(* with its next operation. The sender repeats what it got no answer to,   *)
(* also while the first attempt is still at work.                          *)
(***************************************************************************)
EXTENDS CheckIn, TLC

CONSTANTS Worker,     \* requests the server handles at the same time
          Batches,    \* what is sent: sequences of operations
          MaxSends,   \* bound: requests sent, repetitions included
          MaxCrashes  \* bound: crashes of the server

Operations == UNION {{b[i] : i \in 1..Len(b)} : b \in Batches}
Id == {o.id : o \in Operations}

\* What CheckInDto admits: a form names its customer, and its vehicle, or brings it.
IsForm(o) ==
  /\ DOMAIN o = {"id", "kind", "customer", "plate", "newCustomer", "newVehicle"}
  /\ o.newCustomer \in BOOLEAN /\ o.newVehicle \in BOOLEAN
  /\ o.newCustomer => o.customer \in Phone
  /\ o.newVehicle => o.plate \in Plate

ASSUME SyncAssumption ==
  /\ IsFiniteSet(Worker)
  /\ \A b \in Batches : b \in Seq(Operations) /\ b # <<>>
  /\ \A o \in Operations :
       /\ o.kind \in {"desk", "visit"} => IsForm(o)
       /\ o.kind = "customer" => o.customer \in Phone
       /\ o.kind = "vehicle" => o.plate \in Plate

VARIABLES worker,    \* what each worker is doing
          answered,  \* idempotency_keys and sync_operations, by id
          captured,  \* when each batch was put together on its device, and the
                     \* version of the visits it knew then
          sent,      \* requests sent so far
          made,      \* how often the work of each id was committed
          excuses,   \* how often an id was found without an answer although its
                     \* work was at hand, lost in a crash, or expired
          crashes    \* crashes so far

syncVars == <<worker, answered, captured, sent, made, excuses, crashes>>
vars == <<checkInVars, syncVars>>

Nothing == [op |-> "none"]  \* no answer stored
Free == [at |-> "free"]
Unsent == [at |-> 0, versions |-> <<>>]

QuietInit ==
  /\ worker = [w \in Worker |-> Free]
  /\ answered = [x \in Id |-> Nothing]
  /\ sent = 0
  /\ made = [x \in Id |-> 0] /\ excuses = [x \in Id |-> 0]
  /\ crashes = 0

SyncInit == QuietInit /\ captured = [b \in Batches |-> Unsent]

Op(w) == worker[w].batch[worker[w].pos]
Busy(w, ats) == worker[w].at \in ats

\* The id a payload names: one this batch has just been answered for, or itself.
Resolved(w, ref) == IF ref \in DOMAIN worker[w].ids THEN worker[w].ids[ref] ELSE ref

\* The next thing worker w does, with what it has got so far.
To(w, at, got) == worker' = [worker EXCEPT ![w].at = at, ![w].got = got]
Result(status, entity) == [status |-> status, entity |-> entity]
Answers(w, status, entity) == To(w, "store", Result(status, entity))
\* The handler throws: the desk gets an error. A batch ends with its operation, for
\* applyOperation returns the promises of the handlers without awaiting them, and
\* its catch, which was to turn the error into an answer, never sees one.
Throws(w) == worker' = [worker EXCEPT ![w] = Free]

-----------------------------------------------------------------------------
\* A device puts a batch together, offline.
Capture(b) ==
  /\ captured[b] = Unsent
  /\ captured' = [captured EXCEPT ![b] =
       [at |-> now, versions |-> [i \in 1..Len(visits) |-> visits[i].version]]]
  /\ UNCHANGED <<checkInVars, worker, answered, sent, made, excuses, crashes>>

Send(w, b) ==
  /\ worker[w] = Free
  /\ captured[b] # Unsent
  /\ sent < MaxSends
  /\ sent' = sent + 1
  /\ worker' = [worker EXCEPT ![w] =
       [at |-> "look", batch |-> b, pos |-> 1, ids |-> <<>>, got |-> Nothing]]
  /\ UNCHANGED <<checkInVars, answered, captured, made, excuses, crashes>>

\* On to the next operation, if there is one; an applied one gives its id a meaning.
Advance(w, result) ==
  LET r == worker[w]
      ids == IF result.status = "applied" THEN (Op(w).id :> result.entity) @@ r.ids
                                          ELSE r.ids
  IN  worker' = [worker EXCEPT ![w] =
        IF r.pos = Len(r.batch) THEN Free
        ELSE [r EXCEPT !.at = "look", !.pos = r.pos + 1, !.got = Nothing, !.ids = ids]]

Expired(x) == Day(answered[x].at) < Day(now) /\ answered[x].op.kind = "desk"
AtHand(w, x) == \E v \in Worker \ {w} : Busy(v, {"read", "write", "store"}) /\ Op(v).id = x

\* beginOrReplay and the look-up of processOne. A key of an earlier day is deleted,
\* one that was used for another form is refused, any other answer is given again.
LookUp(w) ==
  /\ Busy(w, {"look"})
  /\ LET x == Op(w).id
         new == answered[x] = Nothing
     IN  IF new \/ Expired(x)
         THEN /\ To(w, "read", Nothing)
              /\ answered' = [answered EXCEPT ![x] = Nothing]
              /\ excuses' = [excuses EXCEPT ![x] = IF ~new \/ AtHand(w, x) THEN @ + 1 ELSE @]
         ELSE /\ IF Op(w).kind = "desk" /\ answered[x].op # Op(w)
                 THEN Throws(w) ELSE Advance(w, answered[x].result)
              /\ UNCHANGED <<answered, excuses>>
  /\ UNCHANGED <<checkInVars, captured, sent, made, crashes>>

-----------------------------------------------------------------------------
\* The check-in form of an operation, the ids in it resolved.
Form(w) == [Op(w) EXCEPT
  !.customer = IF Op(w).newCustomer THEN @ ELSE Resolved(w, @),
  !.plate = IF Op(w).newVehicle THEN @ ELSE Resolved(w, @)]

\* mergeVisitCapture. A complaint the visit has is left alone, one captured after
\* the visit's last change replaces the others, an earlier one is added to them.
Newer(w, visit) == visit.updatedAt > captured[worker[w].batch].at
MergedNotes(w, visit) ==
  IF \E n \in visit.notes : n.by = Op(w).id THEN visit.notes
  ELSE {Entered(Op(w).id)} \cup IF Newer(w, visit) THEN visit.notes ELSE {}
MergeRefused(w, i) ==
  \/ Op(w).versioned /\ captured[worker[w].batch].versions[i] # visits[i].version
  \/ Op(w).fuel /\ Newer(w, visits[i]) /\ visits[i].fuel.by # Op(w).id

\* The readings of the handlers: each finds an answer, or throws, or goes on to write.
ReadCustomer(w) ==
  /\ Op(w).kind = "customer"
  /\ IF Op(w).customer \in customers THEN Answers(w, "applied", Op(w).customer)
                                     ELSE To(w, "write", Nothing)

ReadVehicle(w) ==
  /\ Op(w).kind = "vehicle"
  /\ LET owner == vehicles[Op(w).plate]
         customer == Resolved(w, Op(w).customer)
     IN  CASE owner = Nobody /\ customer \in customers -> To(w, "write", Nothing)
           [] owner = Nobody /\ customer \notin customers -> Throws(w)
           [] owner # Nobody /\ owner = customer -> Answers(w, "applied", Op(w).plate)
           [] OTHER -> Answers(w, "conflict", Op(w).plate)

ReadCheckIn(w) ==
  /\ Op(w).kind \in {"desk", "visit"}
  /\ LET reading == ReadingOf(Form(w))
     IN  CASE reading = "ok" -> To(w, "write", Len(visits))
           [] reading = "conflict" /\ Op(w).kind = "visit" -> Answers(w, "conflict", Nothing)
           [] OTHER -> Throws(w)

ReadUpdate(w) ==
  /\ Op(w).kind = "update"
  /\ LET i == Resolved(w, Op(w).visit)
     IN  IF i \notin 1..Len(visits) THEN Throws(w)
         ELSE IF MergeRefused(w, i) THEN Answers(w, "conflict", i)
         ELSE To(w, "write", [version |-> visits[i].version,
                              notes |-> MergedNotes(w, visits[i])])

ReadAttachment(w) ==
  /\ Op(w).kind = "attachment"
  /\ \/ Resolved(w, Op(w).visit) \in 1..Len(visits) /\ To(w, "write", Nothing)
     \/ Throws(w)  \* no such visit, or a file that was not uploaded and confirmed

\* Payments, stock and the like are not for offline devices. And a payload may lack
\* what its handler asks for.
Forbidden(w) == Op(w).kind = "forbidden" /\ Answers(w, "failed", Nothing)
Malformed(w) == Op(w).kind = "malformed" /\ Throws(w)

Read(w) ==
  /\ Busy(w, {"read"})
  /\ \/ ReadCustomer(w) \/ ReadVehicle(w) \/ ReadCheckIn(w)
     \/ ReadUpdate(w) \/ ReadAttachment(w)
     \/ Forbidden(w) \/ Malformed(w)
  /\ UNCHANGED <<checkInVars, answered, captured, sent, made, excuses, crashes>>

-----------------------------------------------------------------------------
\* The writes of the handlers, each one transaction that ends in an entity.
WriteCustomer(w) ==
  /\ Op(w).kind = "customer" /\ Op(w).customer \notin customers
  /\ customers' = customers \cup {Op(w).customer}
  /\ Answers(w, "applied", Op(w).customer)
  /\ UNCHANGED <<now, vehicles, visits, numberVars>>

WriteVehicle(w) ==
  /\ Op(w).kind = "vehicle" /\ vehicles[Op(w).plate] = Nobody
  /\ vehicles' = [vehicles EXCEPT ![Op(w).plate] = Resolved(w, Op(w).customer)]
  /\ Answers(w, "applied", Op(w).plate)
  /\ UNCHANGED <<now, customers, visits, numberVars>>

WriteCheckIn(w) ==
  /\ Op(w).kind \in {"desk", "visit"}
  /\ CommitCheckIn(Op(w).id, Form(w), worker[w].got)
  /\ Answers(w, "applied", Len(visits) + 1)

\* A mutant of WriteUpdate: the version read is not asked for.
WriteUpdateAnyhow(w) ==
  /\ Op(w).kind = "update"
  /\ LET i == Resolved(w, Op(w).visit)
     IN  /\ visits' = [visits EXCEPT ![i].notes = worker[w].got.notes,
              ![i].fuel = IF Op(w).fuel THEN Entered(Op(w).id) ELSE @,
              ![i].version = @ + 1, ![i].updatedAt = now]
         /\ Answers(w, "applied", i)
  /\ UNCHANGED <<now, customers, vehicles, numberVars>>

WriteUpdate(w) ==
  /\ Op(w).kind = "update"
  /\ LET i == Resolved(w, Op(w).visit)
     IN  /\ visits[i].version = worker[w].got.version
         /\ visits' = [visits EXCEPT ![i].notes = worker[w].got.notes,
              ![i].fuel = IF Op(w).fuel THEN Entered(Op(w).id) ELSE @,
              ![i].version = @ + 1, ![i].updatedAt = now]
         /\ Answers(w, "applied", i)
  /\ UNCHANGED <<now, customers, vehicles, numberVars>>

WriteAttachment(w) ==
  /\ Op(w).kind = "attachment"
  /\ Answers(w, "applied", Resolved(w, Op(w).visit))
  /\ UNCHANGED checkInVars

Write(w) ==
  /\ Busy(w, {"write"})
  /\ \/ WriteCustomer(w) \/ WriteVehicle(w) \/ WriteCheckIn(w)
     \/ WriteUpdate(w) \/ WriteAttachment(w)
  /\ made' = [made EXCEPT ![Op(w).id] = @ + 1]
  /\ UNCHANGED <<answered, captured, sent, excuses, crashes>>

\* Another request was first: a unique index or the version refuses the write. Of
\* the handlers of a batch only that of a check-in awaits and answers a conflict.
Refused(w) ==
  /\ Busy(w, {"write"})
  /\ CASE Op(w).kind = "customer" -> Op(w).customer \in customers /\ Throws(w)
       [] Op(w).kind = "vehicle" -> vehicles[Op(w).plate] # Nobody /\ Throws(w)
       [] Op(w).kind = "desk" -> Collides(Form(w)) /\ Throws(w)
       [] Op(w).kind = "visit" -> Collides(Form(w)) /\ Answers(w, "conflict", Nothing)
       [] Op(w).kind = "update" ->
            /\ visits[Resolved(w, Op(w).visit)].version # worker[w].got.version
            /\ Throws(w)
       [] OTHER -> FALSE
  /\ UNCHANGED <<checkInVars, answered, captured, sent, made, excuses, crashes>>

-----------------------------------------------------------------------------
\* A mutant of Store: the answers are stored with the batch's last operation only.
StoreLast(w) ==
  /\ Busy(w, {"store"})
  /\ answered' = [answered EXCEPT ![Op(w).id] =
       IF @ = Nothing /\ worker[w].pos = Len(worker[w].batch)
       THEN [op |-> Op(w), result |-> worker[w].got, at |-> now] ELSE @]
  /\ Advance(w, worker[w].got)
  /\ UNCHANGED <<checkInVars, captured, sent, made, excuses, crashes>>

\* save and persistResult: the first answer under an id stays, but a key that has
\* expired is deleted and its user told of a conflict.
Store(w) ==
  /\ Busy(w, {"store"})
  /\ LET x == Op(w).id
         answer == [op |-> Op(w), result |-> worker[w].got, at |-> now]
     IN  CASE answered[x] = Nothing ->
                /\ answered' = [answered EXCEPT ![x] = answer]
                /\ UNCHANGED excuses
           [] answered[x] # Nothing /\ Expired(x) ->
                /\ answered' = [answered EXCEPT ![x] = Nothing]
                /\ excuses' = [excuses EXCEPT ![x] = @ + 1]
           [] OTHER -> UNCHANGED <<answered, excuses>>
  /\ Advance(w, worker[w].got)
  /\ UNCHANGED <<checkInVars, captured, sent, made, crashes>>

\* The server stops in the middle; what it has committed stays.
Crash(w) ==
  /\ worker[w] # Free
  /\ crashes < MaxCrashes
  /\ crashes' = crashes + 1
  /\ excuses' = IF Busy(w, {"store"}) THEN [excuses EXCEPT ![Op(w).id] = @ + 1] ELSE excuses
  /\ worker' = [worker EXCEPT ![w] = Free]
  /\ UNCHANGED <<checkInVars, answered, captured, sent, made>>

SyncNext ==
  \/ \E b \in Batches : Capture(b)
  \/ \E w \in Worker :
       \/ \E b \in Batches : Send(w, b)
       \/ LookUp(w) \/ Read(w) \/ Write(w) \/ Refused(w) \/ Store(w) \/ Crash(w)

ReceptionNext ==
  /\ UNCHANGED syncVars
  /\ \/ Tick
     \/ \E i \in 1..Len(visits), delivered \in BOOLEAN : MoveVisit(i, delivered)
     \/ \E p \in Plate, c \in Phone : TransferVehicle(p, c)
     \/ UNCHANGED <<now, rowVars>> /\ NumbersNext

Init == ReceptionInit /\ NumbersInit /\ SyncInit
Next == SyncNext \/ ReceptionNext
Spec == Init /\ [][Next]_vars

-----------------------------------------------------------------------------
\* "is idempotent on duplicate operationId", and the same for an Idempotency-Key:
\* the work of an id is committed again only if an attempt found no answer because
\* an earlier one was still at work, had died before it stored one, or the answer
\* had expired. Whatever else ends a batch halfway does not repeat its first half.
AppliedOnce == \A x \in Id : made[x] <= 1 + excuses[x]

\* "no last-write-wins for everything": an update from a device takes away only
\* complaints and fuel readings that are older than its own capture, and one that
\* names a version only those of that version, whoever writes meanwhile.
LaterEntriesStay ==
  [][\A w \in Worker, i \in 1..Len(visits) :
       LET lost == (visits[i].notes \ visits'[i].notes)
                     \cup (IF visits'[i].fuel.by = visits[i].fuel.by THEN {} ELSE {visits[i].fuel})
       IN  made' # made /\ Busy(w, {"write"}) /\ worker'[w] # worker[w] =>
             \A n \in lost :
               /\ n.at <= captured[worker[w].batch].at
               /\ Op(w).versioned =>
                    visits[i].version = captured[worker[w].batch].versions[i]]_vars

\* "partial success": a batch that comes to its end, rather than to a crash of the
\* server, has an answer to each of its operations.
EveryOperationAnswered ==
  [][\A w \in Worker :
       /\ worker[w] # Free /\ worker'[w] = Free /\ crashes' = crashes
       /\ Op(w).kind # "desk"
       => \A i \in 1..Len(worker[w].batch) : answered'[worker[w].batch[i].id] # Nothing]_vars
=============================================================================
