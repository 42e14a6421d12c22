--------------------------- MODULE BackgroundProofs ---------------------------
(***************************************************************************)
(* Proofs about what works in the background: the outbox of events         *)
(* (Outbox), the scheduled jobs (Jobs) and the installation they run in    *)
(* (Installation), which share no state.                                   *)
(***************************************************************************)
EXTENDS Outbox, Jobs, Installation, FiniteSetTheorems, SequenceTheorems,
        NaturalsInduction, WellFoundedInduction, TLAPS

(***************************************************************************)
(* The outbox, for any events, users and workers.                          *)
(***************************************************************************)
\* Who rests holds nothing; who found a user without a notification is about to
\* notify that user of the event it dispatches.
Orderly(d) ==
  /\ d.tx = "none" => d.now = NoEvent /\ d.todo = {}
  /\ d.now = NoEvent => d.left = {}
  /\ d.missing # NoUser => d.missing \in d.left

OutboxTypes == TypeOK /\ \A w \in Worker : Orderly(drain[w])

\* The drain of worker w becomes d.
Becomes(w, d) == drain' = [drain EXCEPT ![w] = d]

-----------------------------------------------------------------------------
\* The least element of a set of events.
LEMMA MinEvent ==
  ASSUME NEW T \in SUBSET Event, T # {}
  PROVE  Min(T) \in T
<1> USE OutboxAssumption
<1>1. T \in SUBSET Nat
  OBVIOUS
<1>2. PICK m \in T : \A k \in T : <<k, m>> \notin OpToRel(<, Nat)
  BY <1>1, WFMin, NatLessThanWellFounded, Zenon
<1>3. \A k \in T : ~(k < m)
  BY <1>1, <1>2, Zenon DEF OpToRel
<1>4. \A k \in T : m <= k
  BY <1>1, <1>3
<1> QED
  BY <1>4 DEF Min

\* A worker at rest is orderly.
LEMMA RestingRow == Resting \in Drain /\ Orderly(Resting)
BY DEF Resting, Drain, Orderly, NoEvent

\* What each step of a worker makes of its drain.
LEMMA ClaimRow ==
  ASSUME OutboxTypes, NEW w \in Worker, Claim(w)
  PROVE  LET d == [drain[w] EXCEPT !.tx = "open", !.claimed = Oldest, !.todo = Oldest]
         IN  Becomes(w, d) /\ d \in Drain /\ Orderly(d)
<1> drain[w] \in Drain
  BY DEF OutboxTypes, TypeOK
<1>1. Oldest \in SUBSET Event
  BY DEF Oldest, Claimable
<1> QED
  BY <1>1 DEF Claim, Becomes, Drain, Orderly, OutboxTypes, Resting, NoEvent

\* What a step makes of its worker's drain.
LEMMA TakeUpRow ==
  ASSUME OutboxTypes, NEW w \in Worker, TakeUp(w)
  PROVE  LET e == Min(drain[w].todo)
             d == [drain[w] EXCEPT !.now = e, !.todo = @ \ {e}, !.left = Recipient[e]]
         IN  /\ e \in drain[w].todo /\ e \in Event
             /\ Becomes(w, d) /\ d \in Drain /\ Orderly(d)
<1> drain[w] \in Drain
  BY DEF OutboxTypes, TypeOK
<1>1. Min(drain[w].todo) \in drain[w].todo
  BY MinEvent DEF TakeUp, Drain
<1> QED
  BY <1>1, OutboxAssumption DEF TakeUp, Becomes, Drain, Orderly, OutboxTypes, NoEvent

\* The look for a notification.
LEMMA LookForRow ==
  ASSUME OutboxTypes, NEW w \in Worker, NEW u \in User, LookFor(w, u)
  PROVE  LET e == drain[w].now
             d == [drain[w] EXCEPT !.left = @ \ {u}]
             f == [drain[w] EXCEPT !.missing = u]
         IN  /\ e \in Event /\ drain[w].missing = NoUser
             /\ \/ note[e][u] > 0 /\ Becomes(w, d) /\ d \in Drain /\ Orderly(d)
                \/ note[e][u] = 0 /\ Becomes(w, f) /\ f \in Drain /\ Orderly(f)
<1> drain[w] \in Drain
  BY DEF OutboxTypes, TypeOK
<1>1. drain[w].now \in Event
  BY DEF LookFor, Drain, OutboxTypes, Orderly
<1>2. note[drain[w].now][u] \in Nat
  BY <1>1 DEF OutboxTypes, TypeOK
<1> QED
  BY <1>1, <1>2, NoUserAssumption DEF LookFor, Becomes, Drain, Orderly, OutboxTypes, NoEvent

\* The notification.
LEMMA NotifyRow ==
  ASSUME OutboxTypes, NEW w \in Worker, Notify(w)
  PROVE  LET d == [drain[w] EXCEPT !.left = @ \ {drain[w].missing}, !.missing = NoUser]
         IN  /\ drain[w].now \in Event /\ drain[w].missing \in User
             /\ Becomes(w, d) /\ d \in Drain /\ Orderly(d)
<1> drain[w] \in Drain
  BY DEF OutboxTypes, TypeOK
<1> QED
  BY DEF Notify, Becomes, Drain, Orderly, OutboxTypes, NoEvent

\* The end of an event.
LEMMA DispatchedRow ==
  ASSUME OutboxTypes, NEW w \in Worker, Dispatched(w)
  PROVE  LET d == [drain[w] EXCEPT !.now = NoEvent, !.done = @ \cup {drain[w].now}]
         IN  /\ d \in Drain /\ Orderly(d)
             /\ IF drain[w].tx = "open" THEN Becomes(w, d) ELSE Becomes(w, Resting)
<1> drain[w] \in Drain
  BY DEF OutboxTypes, TypeOK
<1> QED
  BY DEF Dispatched, Stage, Becomes, Drain, Orderly, OutboxTypes, NoEvent

\* The failure of an event.
LEMMA FailedRow ==
  ASSUME OutboxTypes, NEW w \in Worker, Failed(w)
  PROVE  LET d == [drain[w] EXCEPT !.now = NoEvent, !.left = {}, !.missing = NoUser,
                                   !.bad = @ \cup {drain[w].now}]
         IN  /\ d \in Drain /\ Orderly(d)
             /\ IF drain[w].tx = "open" THEN Becomes(w, d) ELSE Becomes(w, Resting)
<1> drain[w] \in Drain
  BY DEF OutboxTypes, TypeOK
<1> QED
  BY DEF Failed, Stage, Becomes, Drain, Orderly, OutboxTypes, NoEvent

\* The commit.
LEMMA CommitRow ==
  ASSUME OutboxTypes, NEW w \in Worker, Commit(w)
  PROVE  LET d == [Resting EXCEPT !.tell = drain[w].done]
         IN  Becomes(w, d) /\ d \in Drain /\ Orderly(d)
<1> drain[w] \in Drain
  BY DEF OutboxTypes, TypeOK
<1> QED
  BY DEF Commit, Becomes, Drain, Orderly, Resting, NoEvent

\* A message to the bus.
LEMMA PublishRow ==
  ASSUME OutboxTypes, NEW w \in Worker, Publish(w)
  PROVE  LET e == Min(drain[w].tell)
             d == [drain[w] EXCEPT !.tell = @ \ {e}]
         IN  /\ e \in drain[w].tell /\ e \in Event
             /\ Becomes(w, d) /\ d \in Drain /\ Orderly(d)
<1> drain[w] \in Drain
  BY DEF OutboxTypes, TypeOK
<1>1. Min(drain[w].tell) \in drain[w].tell
  BY MinEvent DEF Publish, Drain
<1> QED
  BY <1>1 DEF Publish, Becomes, Drain, Orderly, OutboxTypes, NoEvent

\* The end of a transaction in time.
LEMMA TimeoutRow ==
  ASSUME OutboxTypes, NEW w \in Worker, Timeout(w)
  PROVE  LET d == [drain[w] EXCEPT !.tx = "lost"]
         IN  Becomes(w, d) /\ d \in Drain /\ Orderly(d)
<1> drain[w] \in Drain
  BY DEF OutboxTypes, TypeOK
<1> QED
  BY DEF Timeout, Becomes, Drain, Orderly, OutboxTypes, NoEvent

-----------------------------------------------------------------------------
\* OutboxTypes, when one drain becomes another of its type.
LEMMA RowTypes ==
  ASSUME OutboxTypes, NEW w \in Worker, NEW d \in Drain, Orderly(d), Becomes(w, d)
  PROVE  drain' \in [Worker -> Drain] /\ \A v \in Worker : Orderly(drain'[v])
BY DEF OutboxTypes, TypeOK, Becomes

\* The empty outbox.
LEMMA OutboxTypesStart == Init => OutboxTypes
BY RestingRow, OutboxAssumption DEF Init, OutboxTypes, TypeOK, Status

\* Every step keeps the types.
LEMMA OutboxTypesStep ==
  ASSUME OutboxTypes, [Next]_vars
  PROVE  OutboxTypes'
<1> USE OutboxAssumption, NoUserAssumption DEF NoEvent
<1>1. CASE UNCHANGED vars
  BY <1>1 DEF vars, OutboxTypes, TypeOK, Orderly
<1>2. CASE \E e \in Event : Emit(e)
  BY <1>2 DEF Emit, OutboxTypes, TypeOK, Orderly, Status
<1>3. ASSUME NEW w \in Worker, Work(w) \/ Timeout(w) \/ Crash(w)
      PROVE  OutboxTypes'
  <2>1. drain' \in [Worker -> Drain] /\ \A v \in Worker : Orderly(drain'[v])
    BY <1>3, RowTypes, RestingRow, ClaimRow, TakeUpRow, LookForRow, NotifyRow, DispatchedRow,
       FailedRow, CommitRow, PublishRow, TimeoutRow DEF Work, Lose, Crash, Becomes
  <2>2. status' \in [Event -> Status]
    BY <1>3 DEF Work, Claim, TakeUp, LookFor, Notify, Dispatched, Failed, Stage, Commit,
       Publish, Lose, Timeout, Crash, OutboxTypes, TypeOK, Status
  <2>3. note' \in [Event -> [User -> Nat]]
    <3>1. CASE Notify(w)
      <4> DEFINE e == drain[w].now
                 u == drain[w].missing
      <4>1. e \in Event /\ u \in User /\ note' = [note EXCEPT ![e][u] = @ + 1]
        BY <3>1, NotifyRow DEF Notify
      <4> HIDE DEF e, u
      <4> QED
        BY <4>1 DEF OutboxTypes, TypeOK
    <3>2. CASE ~Notify(w)
      BY <3>2, <1>3 DEF Work, Claim, TakeUp, LookFor, Dispatched, Failed, Stage, Commit,
         Publish, Lose, Timeout, Crash, OutboxTypes, TypeOK
    <3> QED
      BY <3>1, <3>2
  <2>4. bus' \in [Event -> Nat]
    BY <1>3, PublishRow DEF Work, Claim, TakeUp, LookFor, Notify, Dispatched, Failed, Stage,
       Commit, Publish, Lose, Timeout, Crash, OutboxTypes, TypeOK
  <2>5. timeouts' \in 0..MaxTimeouts /\ crashes' \in 0..MaxCrashes
    BY <1>3 DEF Work, Claim, TakeUp, LookFor, Notify, Dispatched, Failed, Stage, Commit,
       Publish, Lose, Timeout, Crash, OutboxTypes, TypeOK
  <2> QED
    BY <2>1, <2>2, <2>3, <2>4, <2>5 DEF OutboxTypes, TypeOK
<1> QED
  BY <1>1, <1>2, <1>3 DEF Next

-----------------------------------------------------------------------------
Open(w) == drain[w].tx = "open"

\* What an open transaction deals with is locked by it alone, and pending.
Holds(d) ==
  d.tx = "open" => /\ d.todo \cup d.done \cup d.bad \subseteq d.claimed
                   /\ d.now # NoEvent => d.now \in d.claimed

RowLocks ==
  /\ \A w \in Worker : Holds(drain[w])
  /\ \A w \in Worker : Open(w) => \A e \in drain[w].claimed : status[e] = "pending"
  /\ \A v, w \in Worker : v # w /\ Open(v) /\ Open(w) =>
       drain[v].claimed \cap drain[w].claimed = {}

\* What the bus is still to be told was published, by one drain.
Told ==
  /\ \A w \in Worker : \A e \in drain[w].tell : status[e] = "published" /\ bus[e] = 0
  /\ \A v, w \in Worker : v # w => drain[v].tell \cap drain[w].tell = {}
  /\ \A e \in Event : bus[e] <= 1 /\ (bus[e] > 0 => status[e] = "published")

\* A drain that deals with no more than before keeps to its locks.
LEMMA RowLocksKept ==
  ASSUME OutboxTypes, RowLocks, NEW w \in Worker, NEW d, Becomes(w, d), Holds(d),
         d.tx = "open" => Open(w) /\ d.claimed = drain[w].claimed,
         UNCHANGED status
  PROVE  RowLocks'
BY DEF RowLocks, Becomes, OutboxTypes, TypeOK, Open

\* Every step keeps the locks.
LEMMA RowLocksStep ==
  ASSUME OutboxTypes, RowLocks, [Next]_vars
  PROVE  RowLocks'
<1>1. CASE UNCHANGED vars
  BY <1>1 DEF vars, RowLocks, Open
<1>2. ASSUME NEW e \in Event, Emit(e)
      PROVE  RowLocks'
  <2>1. \A f \in Event : status[f] = "pending" => status'[f] = "pending"
    BY <1>2 DEF Emit, OutboxTypes, TypeOK
  <2>2. \A w \in Worker : drain[w].claimed \in SUBSET Event
    BY DEF OutboxTypes, TypeOK, Drain
  <2>3. drain' = drain
    BY <1>2 DEF Emit
  <2> QED
    BY <2>1, <2>2, <2>3 DEF RowLocks, Open
<1>3. ASSUME NEW w \in Worker, Work(w) \/ Timeout(w) \/ Crash(w)
      PROVE  RowLocks'
  <2> drain[w] \in Drain /\ Orderly(drain[w]) /\ Holds(drain[w])
    BY DEF OutboxTypes, TypeOK, RowLocks
  <2>0. Holds(Resting) /\ Resting.tx # "open"
    BY DEF Holds, Resting
  <2>1. CASE Claim(w)
    <3> DEFINE d == [drain[w] EXCEPT !.tx = "open", !.claimed = Oldest, !.todo = Oldest]
    <3>1. Becomes(w, d) /\ status' = status
      BY <2>1, ClaimRow DEF Claim
    <3>2. d.claimed = Oldest /\ Holds(d)
      BY <2>1 DEF Claim, Holds, Drain, Resting, NoEvent
    <3>3. \A e \in Oldest : status[e] = "pending" /\ \A v \in Worker : Open(v) => e \notin drain[v].claimed
      BY DEF Oldest, Claimable, Locked, Open
    <3>4. drain'[w] = d /\ \A v \in Worker \ {w} : drain'[v] = drain[v]
      BY <3>1 DEF Becomes, OutboxTypes, TypeOK
    <3> HIDE DEF d
    <3> QED
      BY <3>1, <3>2, <3>3, <3>4 DEF RowLocks, Open
  <2>2. CASE TakeUp(w)
    BY <2>2, RowLocksKept, TakeUpRow DEF TakeUp, Holds, Open, Drain, NoEvent
  <2>3. CASE \E u \in User : LookFor(w, u)
    <3> PICK u \in User : LookFor(w, u)
      BY <2>3
    <3> DEFINE d == [drain[w] EXCEPT !.left = @ \ {u}]
               f == [drain[w] EXCEPT !.missing = u]
    <3>1. (Becomes(w, d) \/ Becomes(w, f)) /\ status' = status
      BY LookForRow DEF LookFor
    <3>2. Holds(d) /\ d.tx = drain[w].tx /\ d.claimed = drain[w].claimed
      BY DEF Holds, Drain
    <3>3. Holds(f) /\ f.tx = drain[w].tx /\ f.claimed = drain[w].claimed
      BY DEF Holds, Drain
    <3> HIDE DEF d, f
    <3> QED
      BY <3>1, <3>2, <3>3, RowLocksKept DEF Open
  <2>4. CASE Notify(w)
    BY <2>4, RowLocksKept, NotifyRow DEF Notify, Holds, Open, Drain
  <2>5. CASE Dispatched(w)
    <3> DEFINE d == [drain[w] EXCEPT !.now = NoEvent, !.done = @ \cup {drain[w].now}]
    <3>1. /\ IF drain[w].tx = "open" THEN Becomes(w, d) ELSE Becomes(w, Resting)
          /\ status' = status
      BY <2>5, DispatchedRow DEF Dispatched, Stage
    <3>2. Holds(d) /\ d.tx = drain[w].tx /\ d.claimed = drain[w].claimed
      BY <2>5 DEF Dispatched, Holds, Drain, NoEvent
    <3> HIDE DEF d
    <3> QED
      BY <3>1, <3>2, <2>0, RowLocksKept DEF Open
  <2>6. CASE Failed(w)
    <3> DEFINE d == [drain[w] EXCEPT !.now = NoEvent, !.left = {}, !.missing = NoUser,
                                     !.bad = @ \cup {drain[w].now}]
    <3>1. /\ IF drain[w].tx = "open" THEN Becomes(w, d) ELSE Becomes(w, Resting)
          /\ status' = status
      BY <2>6, FailedRow DEF Failed, Stage
    <3>2. Holds(d) /\ d.tx = drain[w].tx /\ d.claimed = drain[w].claimed
      BY <2>6 DEF Failed, Holds, Drain, NoEvent
    <3> HIDE DEF d
    <3> QED
      BY <3>1, <3>2, <2>0, RowLocksKept DEF Open
  <2>7. CASE Commit(w)
    <3> DEFINE d == [Resting EXCEPT !.tell = drain[w].done]
    <3>1. Becomes(w, d) /\ d.tx # "open"
      BY <2>7, CommitRow DEF Resting
    <3>2. drain'[w] = d /\ \A v \in Worker \ {w} : drain'[v] = drain[v]
      BY <3>1 DEF Becomes, OutboxTypes, TypeOK
    <3>3. drain[w].done \cup drain[w].bad \subseteq drain[w].claimed /\ Open(w)
      BY <2>7 DEF Commit, Holds, Open
    <3>4. \A e \in Event \ drain[w].claimed : status'[e] = status[e]
      BY <2>7, <3>3 DEF Commit
    <3>5. \A v \in Worker \ {w} : Open(v) =>
             drain[v].claimed \in SUBSET (Event \ drain[w].claimed)
      BY <3>3 DEF RowLocks, OutboxTypes, TypeOK, Drain
    <3>6. Holds(d)
      BY <3>1 DEF Holds
    <3> HIDE DEF d
    <3>7. \A v \in Worker : Open(v)' => v # w /\ Open(v) /\ drain'[v] = drain[v]
      BY <3>1, <3>2 DEF Open
    <3>8. \A v \in Worker : Holds(drain'[v])
      BY <3>2, <3>6 DEF RowLocks
    <3>9. \A v \in Worker : Open(v)' => \A e \in drain'[v].claimed : status'[e] = "pending"
      BY <3>4, <3>5, <3>7 DEF RowLocks
    <3> QED
      BY <3>7, <3>8, <3>9 DEF RowLocks
  <2>8. CASE Publish(w)
    BY <2>8, RowLocksKept, PublishRow DEF Publish, Holds, Open, Drain
  <2>9. CASE Lose(w) \/ Crash(w)
    <3>1. Becomes(w, Resting) /\ status' = status
      BY <2>9 DEF Lose, Crash, Becomes
    <3> QED
      BY <2>0, <3>1, RowLocksKept
  <2>10. CASE Timeout(w)
    BY <2>10, RowLocksKept, TimeoutRow DEF Timeout, Holds, Open, Drain
  <2> QED
    BY <1>3, <2>1, <2>2, <2>3, <2>4, <2>5, <2>6, <2>7, <2>8, <2>9, <2>10 DEF Work
<1> QED
  BY <1>1, <1>2, <1>3 DEF Next

-----------------------------------------------------------------------------
\* A step that publishes nothing and tells nothing.
LEMMA ToldKept ==
  ASSUME OutboxTypes, Told, NEW w \in Worker, NEW d, Becomes(w, d),
         d.tell \subseteq drain[w].tell, UNCHANGED <<status, bus>>
  PROVE  Told'
BY DEF Told, Becomes, OutboxTypes, TypeOK

\* Every step keeps what the bus is to be told.
LEMMA ToldStep ==
  ASSUME OutboxTypes, RowLocks, Told, [Next]_vars
  PROVE  Told'
<1>1. CASE UNCHANGED vars
  BY <1>1 DEF vars, Told
<1>2. ASSUME NEW e \in Event, Emit(e)
      PROVE  Told'
  <2>1. \A f \in Event : status[f] = "published" => status'[f] = "published"
    BY <1>2 DEF Emit, OutboxTypes, TypeOK
  <2>2. \A w \in Worker : drain[w].tell \in SUBSET Event
    BY DEF OutboxTypes, TypeOK, Drain
  <2>3. drain' = drain /\ bus' = bus
    BY <1>2 DEF Emit
  <2> QED
    BY <2>1, <2>2, <2>3 DEF Told
<1>3. ASSUME NEW w \in Worker, Work(w) \/ Timeout(w) \/ Crash(w)
      PROVE  Told'
  <2> drain[w] \in Drain /\ Holds(drain[w])
    BY DEF OutboxTypes, TypeOK, RowLocks
  <2>0. Resting.tell = {}
    BY DEF Resting
  <2>1. CASE Claim(w)
    BY <2>1, ToldKept, ClaimRow DEF Claim, Drain
  <2>2. CASE TakeUp(w)
    BY <2>2, ToldKept, TakeUpRow DEF TakeUp, Drain
  <2>3. CASE \E u \in User : LookFor(w, u)
    BY <2>3, ToldKept, LookForRow DEF LookFor, Drain
  <2>4. CASE Notify(w)
    BY <2>4, ToldKept, NotifyRow DEF Notify, Drain
  <2>5. CASE Dispatched(w)
    BY <2>5, <2>0, ToldKept, DispatchedRow DEF Dispatched, Stage, Drain
  <2>6. CASE Failed(w)
    BY <2>6, <2>0, ToldKept, FailedRow DEF Failed, Stage, Drain
  <2>7. CASE Commit(w)
    <3> DEFINE d == [Resting EXCEPT !.tell = drain[w].done]
    <3>1. Becomes(w, d) /\ d.tell = drain[w].done
      BY <2>7, CommitRow DEF Resting
    <3>2. drain'[w] = d /\ \A v \in Worker \ {w} : drain'[v] = drain[v]
      BY <3>1 DEF Becomes, OutboxTypes, TypeOK
    <3>3. \A e \in drain[w].done : e \in Event /\ status[e] = "pending"
      BY <2>7 DEF Commit, Holds, Open, RowLocks, Drain
    <3>4. \A e \in drain[w].done : status'[e] = "published"
      BY <2>7, <3>3 DEF Commit
    <3>5. \A e \in Event : status[e] = "published" => status'[e] = "published"
      <4>1. \A e \in drain[w].bad : status[e] = "pending"
        BY <2>7 DEF Commit, Holds, Open, RowLocks
      <4> QED
        BY <2>7, <4>1 DEF Commit
    <3>6. bus' = bus /\ \A v \in Worker : drain[v].tell \in SUBSET Event
      BY <2>7 DEF Commit, OutboxTypes, TypeOK, Drain
    <3>7. \A e \in drain[w].done : bus[e] = 0 /\ \A v \in Worker : e \notin drain[v].tell
      BY <3>3 DEF Told, OutboxTypes, TypeOK
    <3> HIDE DEF d
    <3>8. \A v \in Worker : \A e \in drain'[v].tell : status'[e] = "published" /\ bus'[e] = 0
      BY <3>1, <3>2, <3>4, <3>5, <3>6, <3>7 DEF Told
    <3>9. \A v, x \in Worker : v # x => drain'[v].tell \cap drain'[x].tell = {}
      BY <3>1, <3>2, <3>7 DEF Told
    <3>10. \A e \in Event : bus'[e] <= 1 /\ (bus'[e] > 0 => status'[e] = "published")
      BY <3>5, <3>6 DEF Told
    <3> QED
      BY <3>8, <3>9, <3>10 DEF Told
  <2>8. CASE Publish(w)
    <3> DEFINE e == Min(drain[w].tell)
               d == [drain[w] EXCEPT !.tell = @ \ {e}]
    <3>1. e \in drain[w].tell /\ e \in Event /\ Becomes(w, d)
      BY <2>8, PublishRow
    <3>2. d.tell = drain[w].tell \ {e}
      BY DEF Drain
    <3>3. drain'[w] = d /\ \A v \in Worker \ {w} : drain'[v] = drain[v]
      BY <3>1 DEF Becomes, OutboxTypes, TypeOK
    <3>4. status' = status /\ bus' = [bus EXCEPT ![e] = @ + 1]
      BY <2>8 DEF Publish
    <3> HIDE DEF d, e
    <3>5. bus[e] = 0 /\ status[e] = "published" /\ \A v \in Worker \ {w} : e \notin drain[v].tell
      BY <3>1 DEF Told
    <3>6. bus'[e] = 1 /\ \A f \in Event \ {e} : bus'[f] = bus[f]
      BY <3>1, <3>4, <3>5 DEF OutboxTypes, TypeOK
    <3>7. \A v \in Worker : drain'[v].tell \in SUBSET (Event \ {e}) /\ drain'[v].tell \subseteq drain[v].tell
      BY <3>2, <3>3, <3>5 DEF OutboxTypes, TypeOK, Drain
    <3>8. \A v \in Worker : \A f \in drain'[v].tell : status'[f] = "published" /\ bus'[f] = 0
      BY <3>4, <3>6, <3>7 DEF Told
    <3>9. \A v, x \in Worker : v # x => drain'[v].tell \cap drain'[x].tell = {}
      BY <3>7 DEF Told
    <3>10. \A f \in Event : bus'[f] <= 1 /\ (bus'[f] > 0 => status'[f] = "published")
      BY <3>4, <3>5, <3>6 DEF Told
    <3> QED
      BY <3>8, <3>9, <3>10 DEF Told
  <2>9. CASE Lose(w) \/ Crash(w)
    <3>1. Becomes(w, Resting) /\ UNCHANGED <<status, bus>>
      BY <2>9 DEF Lose, Crash, Becomes
    <3> QED
      BY <2>0, <3>1, ToldKept
  <2>10. CASE Timeout(w)
    BY <2>10, ToldKept, TimeoutRow DEF Timeout, Drain
  <2> QED
    BY <1>3, <2>1, <2>2, <2>3, <2>4, <2>5, <2>6, <2>7, <2>8, <2>9, <2>10 DEF Work
<1> QED
  BY <1>1, <1>2, <1>3 DEF Next

\* At most one drain is still to tell an event.
LEMMA ToldOnce ==
  ASSUME OutboxTypes, Told PROVE AnnouncedOnce
<1> SUFFICES ASSUME NEW e \in Event
             PROVE  LET by == {w \in Worker : e \in drain[w].tell}
                    IN  /\ bus[e] + Cardinality(by) <= 1
                        /\ bus[e] > 0 \/ by # {} => status[e] = "published"
  BY DEF AnnouncedOnce
<1> DEFINE by == {w \in Worker : e \in drain[w].tell}
<1>1. bus[e] \in Nat
  BY DEF OutboxTypes, TypeOK
<1>2. CASE by = {}
  <2>1. Cardinality(by) = 0
    BY <1>2, FS_EmptySet
  <2>2. bus[e] <= 1 /\ (bus[e] > 0 => status[e] = "published")
    BY DEF Told
  <2> QED
    BY <1>1, <1>2, <2>1, <2>2
<1>3. ASSUME NEW w \in by PROVE by = {w} /\ bus[e] = 0 /\ status[e] = "published"
  BY DEF Told
<1>4. CASE by # {}
  <2>1. Cardinality(by) = 1
    BY <1>3, <1>4, FS_Singleton
  <2> QED
    BY <1>3, <1>4, <2>1
<1> QED
  BY <1>2, <1>4

-----------------------------------------------------------------------------
\* Whom an open drain has gone past has been notified, of the event it dispatches
\* and of those it is to publish.
Reached ==
  /\ \A w \in Worker : Open(w) =>
       /\ \A e \in drain[w].done : \A u \in Recipient[e] : note[e][u] > 0
       /\ drain[w].now # NoEvent =>
            \A u \in Recipient[drain[w].now] \ drain[w].left : note[drain[w].now][u] > 0
  /\ PublishedReachedAll

ReachedBy(d, n) ==
  d.tx = "open" =>
    /\ \A e \in d.done : \A u \in Recipient[e] : n[e][u] > 0
    /\ d.now # NoEvent => \A u \in Recipient[d.now] \ d.left : n[d.now][u] > 0

\* What was reached stays reached.
LEMMA ReachedKept ==
  ASSUME OutboxTypes, Reached, NEW w \in Worker, NEW d \in Drain, Becomes(w, d), ReachedBy(d,
         note'),
         \A e \in Event, u \in User : note[e][u] > 0 => note'[e][u] > 0,
         UNCHANGED status
  PROVE  Reached'
<1> USE OutboxAssumption
<1>1. drain'[w] = d /\ \A v \in Worker \ {w} : drain'[v] = drain[v] /\ drain[v] \in Drain
  BY DEF Becomes, OutboxTypes, TypeOK
<1>2. \A v \in Worker : ReachedBy(drain[v], note)
  BY DEF Reached, ReachedBy, Open
<1>3. \A x \in Drain : ReachedBy(x, note) => ReachedBy(x, note')
  BY DEF ReachedBy, Drain
<1>4. \A v \in Worker : ReachedBy(drain'[v], note')
  BY <1>1, <1>2, <1>3
<1>5. PublishedReachedAll'
  BY DEF Reached, PublishedReachedAll
<1> QED
  BY <1>4, <1>5 DEF Reached, ReachedBy, Open

\* Every step keeps who was reached.
LEMMA ReachedStep ==
  ASSUME OutboxTypes, RowLocks, Reached, [Next]_vars
  PROVE  Reached'
<1> USE OutboxAssumption
<1>1. CASE UNCHANGED vars
  BY <1>1 DEF vars, Reached, Open, PublishedReachedAll
<1>2. ASSUME NEW e \in Event, Emit(e)
      PROVE  Reached'
  <2>1. \A f \in Event : status'[f] = "published" => status[f] = "published"
    BY <1>2 DEF Emit, OutboxTypes, TypeOK
  <2>2. drain' = drain /\ note' = note
    BY <1>2 DEF Emit
  <2> QED
    BY <2>1, <2>2 DEF Reached, Open, PublishedReachedAll
<1>3. ASSUME NEW w \in Worker, Work(w) \/ Timeout(w) \/ Crash(w)
      PROVE  Reached'
  <2> drain[w] \in Drain /\ Orderly(drain[w]) /\ ReachedBy(drain[w], note)
    BY DEF OutboxTypes, TypeOK, Reached, ReachedBy, Open
  <2>0. ReachedBy(Resting, note) /\ Resting \in Drain
    BY RestingRow DEF Resting, ReachedBy
  <2>1. CASE Claim(w)
    <3> DEFINE d == [drain[w] EXCEPT !.tx = "open", !.claimed = Oldest, !.todo = Oldest]
    <3>1. Becomes(w, d) /\ d \in Drain /\ UNCHANGED <<status, note>>
      BY <2>1, ClaimRow DEF Claim
    <3>2. ReachedBy(d, note)
      BY <2>1 DEF Claim, ReachedBy, Drain, Resting
    <3> HIDE DEF d
    <3> QED
      BY <3>1, <3>2, ReachedKept
  <2>2. CASE TakeUp(w)
    <3> DEFINE e == Min(drain[w].todo)
               d == [drain[w] EXCEPT !.now = e, !.todo = @ \ {e}, !.left = Recipient[e]]
    <3>1. Becomes(w, d) /\ d \in Drain /\ UNCHANGED <<status, note>>
      BY <2>2, TakeUpRow DEF TakeUp
    <3>2. ReachedBy(d, note)
      BY DEF ReachedBy, Drain
    <3> HIDE DEF d
    <3> QED
      BY <3>1, <3>2, ReachedKept
  <2>3. CASE \E u \in User : LookFor(w, u)
    <3> PICK u \in User : LookFor(w, u)
      BY <2>3
    <3> DEFINE d == [drain[w] EXCEPT !.left = @ \ {u}]
               f == [drain[w] EXCEPT !.missing = u]
    <3>1. /\ \/ note[drain[w].now][u] > 0 /\ Becomes(w, d) /\ d \in Drain
             \/ Becomes(w, f) /\ f \in Drain
          /\ UNCHANGED <<status, note>>
      BY LookForRow DEF LookFor
    <3>2. note[drain[w].now][u] > 0 => ReachedBy(d, note)
      BY DEF ReachedBy, Drain
    <3>3. ReachedBy(f, note)
      BY DEF ReachedBy, Drain
    <3> HIDE DEF d, f
    <3> QED
      BY <3>1, <3>2, <3>3, ReachedKept
  <2>4. CASE Notify(w)
    <3> DEFINE e == drain[w].now
               u == drain[w].missing
               d == [drain[w] EXCEPT !.left = @ \ {u}, !.missing = NoUser]
    <3>1. Becomes(w, d) /\ d \in Drain /\ e \in Event /\ u \in User
      BY <2>4, NotifyRow
    <3>2. status' = status /\ note' = [note EXCEPT ![e][u] = @ + 1]
      BY <2>4 DEF Notify
    <3>3. /\ d.tx = drain[w].tx /\ d.done = drain[w].done /\ d.now = e
          /\ d.left = drain[w].left \ {u} /\ drain[w].done \in SUBSET Event
      BY DEF Drain
    <3>4. ReachedBy(drain[w], note) /\ e = drain[w].now
      OBVIOUS
    <3> HIDE DEF d, e, u
    <3>5. /\ note'[e][u] > 0
          /\ \A f \in Event, x \in User : note[f][x] > 0 => note'[f][x] > 0
      BY <3>1, <3>2 DEF OutboxTypes, TypeOK
    <3>6. ReachedBy(d, note')
      <4>1. d.tx = "open" => \A f \in d.done : \A x \in Recipient[f] : note'[f][x] > 0
        BY <3>3, <3>4, <3>5 DEF ReachedBy
      <4>2. d.tx = "open" => \A x \in Recipient[e] \ d.left : note'[e][x] > 0
        <5>1. ASSUME d.tx = "open", NEW x \in Recipient[e] \ d.left, x # u
              PROVE  note'[e][x] > 0
          BY <5>1, <3>1, <3>3, <3>4, <3>5 DEF ReachedBy, NoEvent
        <5> QED
          BY <5>1, <3>5
      <4> QED
        BY <4>1, <4>2, <3>3 DEF ReachedBy
    <3> QED
      BY <3>1, <3>2, <3>5, <3>6, ReachedKept
  <2>5. CASE Dispatched(w)
    <3> DEFINE d == [drain[w] EXCEPT !.now = NoEvent, !.done = @ \cup {drain[w].now}]
    <3>1. /\ IF drain[w].tx = "open" THEN Becomes(w, d) ELSE Becomes(w, Resting)
          /\ d \in Drain /\ UNCHANGED <<status, note>>
      BY <2>5, DispatchedRow DEF Dispatched, Stage
    <3>2. ReachedBy(d, note)
      BY <2>5 DEF Dispatched, ReachedBy, Drain
    <3> HIDE DEF d
    <3> QED
      BY <3>1, <3>2, <2>0, ReachedKept
  <2>6. CASE Failed(w)
    <3> DEFINE d == [drain[w] EXCEPT !.now = NoEvent, !.left = {}, !.missing = NoUser,
                                     !.bad = @ \cup {drain[w].now}]
    <3>1. /\ IF drain[w].tx = "open" THEN Becomes(w, d) ELSE Becomes(w, Resting)
          /\ d \in Drain /\ UNCHANGED <<status, note>>
      BY <2>6, FailedRow DEF Failed, Stage
    <3>2. ReachedBy(d, note)
      BY DEF ReachedBy, Drain
    <3> HIDE DEF d
    <3> QED
      BY <3>1, <3>2, <2>0, ReachedKept
  <2>7. CASE Commit(w)
    <3> DEFINE d == [Resting EXCEPT !.tell = drain[w].done]
    <3>1. Becomes(w, d) /\ d.tx # "open" /\ note' = note
      BY <2>7, CommitRow DEF Resting, Commit
    <3>2. drain'[w] = d /\ \A v \in Worker \ {w} : drain'[v] = drain[v]
      BY <3>1 DEF Becomes, OutboxTypes, TypeOK
    <3>3. \A e \in Event : status'[e] = "published" =>
            status[e] = "published" \/ e \in drain[w].done
      BY <2>7 DEF Commit
    <3>4. \A e \in drain[w].done : \A u \in Recipient[e] : note[e][u] > 0
      BY <2>7 DEF Commit, ReachedBy
    <3>5. PublishedReachedAll'
      BY <3>1, <3>3, <3>4 DEF Reached, PublishedReachedAll
    <3> HIDE DEF d
    <3> QED
      BY <3>1, <3>2, <3>5 DEF Reached, Open
  <2>8. CASE Publish(w)
    <3> DEFINE d == [drain[w] EXCEPT !.tell = @ \ {Min(drain[w].tell)}]
    <3>1. Becomes(w, d) /\ d \in Drain /\ UNCHANGED <<status, note>>
      BY <2>8, PublishRow DEF Publish
    <3>2. ReachedBy(d, note)
      BY DEF ReachedBy, Drain
    <3> HIDE DEF d
    <3> QED
      BY <3>1, <3>2, ReachedKept
  <2>9. CASE Lose(w) \/ Crash(w)
    <3>1. Becomes(w, Resting) /\ UNCHANGED <<status, note>>
      BY <2>9 DEF Lose, Crash, Becomes
    <3> QED
      BY <2>0, <3>1, ReachedKept
  <2>10. CASE Timeout(w)
    <3> DEFINE d == [drain[w] EXCEPT !.tx = "lost"]
    <3>1. Becomes(w, d) /\ d \in Drain /\ UNCHANGED <<status, note>>
      BY <2>10, TimeoutRow DEF Timeout
    <3>2. ReachedBy(d, note)
      BY DEF ReachedBy, Drain
    <3> HIDE DEF d
    <3> QED
      BY <3>1, <3>2, ReachedKept
  <2> QED
    BY <1>3, <2>1, <2>2, <2>3, <2>4, <2>5, <2>6, <2>7, <2>8, <2>9, <2>10 DEF Work
<1> QED
  BY <1>1, <1>2, <1>3 DEF Next

-----------------------------------------------------------------------------
\* Drains whose transaction timed out, and those that found user u without a
\* notification of event e and have not written it.
Lost(D) == {w \in Worker : D[w].tx = "lost"}
Pending(D, e, u) == {w \in Worker : D[w].now = e /\ D[w].missing = u}

\* Each notification, written or about to be, beyond the first of an event goes back
\* to a time-out; so do the drains at work on lost transactions.
Repeats ==
  /\ IsFiniteSet(Lost(drain)) /\ Cardinality(Lost(drain)) <= timeouts
  /\ \A e \in Event, u \in User :
       /\ IsFiniteSet(Pending(drain, e, u))
       /\ note[e][u] + Cardinality(Pending(drain, e, u)) <= 1 + timeouts

\* Whoever is at work on event e, all but one are on lost transactions.
LEMMA PendingBound ==
  ASSUME NEW D \in [Worker -> Drain], NEW e \in Event, NEW u \in User,
         \A w \in Worker : Orderly(D[w]) /\ Holds(D[w]),
         \A v, w \in Worker : v # w /\ D[v].tx = "open" /\ D[w].tx = "open" =>
           D[v].claimed \cap D[w].claimed = {},
         IsFiniteSet(Lost(D))
  PROVE  /\ IsFiniteSet(Pending(D, e, u))
         /\ Cardinality(Pending(D, e, u)) <= 1 + Cardinality(Lost(D))
<1> DEFINE P == Pending(D, e, u)
           L == Lost(D)
<1>0. e # NoEvent
  BY OutboxAssumption DEF NoEvent
<1>1. ASSUME NEW w \in P
      PROVE  w \in Worker /\ (w \in L \/ (D[w].tx = "open" /\ e \in D[w].claimed))
  <2>1. w \in Worker /\ D[w].now = e /\ D[w] \in Drain /\ Orderly(D[w]) /\ Holds(D[w])
    BY DEF Pending
  <2>2. D[w].tx \in {"none", "open", "lost"}
    BY <2>1 DEF Drain
  <2>3. CASE D[w].tx = "none"
    BY <1>0, <2>1, <2>3 DEF Orderly
  <2>4. CASE D[w].tx = "open"
    BY <1>0, <2>1, <2>4 DEF Holds
  <2>5. CASE D[w].tx = "lost"
    BY <2>1, <2>5 DEF Lost
  <2> QED
    BY <2>1, <2>2, <2>3, <2>4, <2>5
<1>2. \A v, w \in P : v \in L \/ w \in L \/ v = w
  BY <1>1 DEF Pending
<1>3. IsFiniteSet(L) /\ Cardinality(L) \in Nat
  BY FS_CardinalityType
<1> HIDE DEF P, L
<1>4. CASE P \subseteq L
  BY <1>3, <1>4, FS_Subset, FS_CardinalityType DEF P, L
<1>5. ASSUME NEW w \in P, w \notin L
      PROVE  IsFiniteSet(P) /\ Cardinality(P) <= 1 + Cardinality(L)
  <2>1. P \in SUBSET (L \cup {w})
    BY <1>2, <1>5
  <2>2. IsFiniteSet(L \cup {w}) /\ Cardinality(L \cup {w}) = Cardinality(L) + 1
    BY <1>3, <1>5, FS_AddElement
  <2>3. IsFiniteSet(P) /\ Cardinality(P) <= Cardinality(L \cup {w})
    BY <2>1, <2>2, FS_Subset
  <2> QED
    BY <2>2, <2>3, <1>3
<1> QED
  BY <1>4, <1>5 DEF P, L

\* A step that finds nobody to notify and loses no transaction.
LEMMA RepeatsKept ==
  ASSUME OutboxTypes, Repeats, NEW w \in Worker, NEW d, Becomes(w, d),
         d.tx = "lost" => drain[w].tx = "lost",
         d.missing # NoUser => d.now = drain[w].now /\ d.missing = drain[w].missing,
         UNCHANGED <<note, timeouts>>
  PROVE  Repeats'
<1> USE NoUserAssumption
<1>1. drain'[w] = d /\ \A v \in Worker \ {w} : drain'[v] = drain[v]
  BY DEF Becomes, OutboxTypes, TypeOK
<1>2. Lost(drain') \in SUBSET Lost(drain)
  BY <1>1 DEF Lost
<1>3. IsFiniteSet(Lost(drain')) /\ Cardinality(Lost(drain')) <= timeouts'
  <2>1. IsFiniteSet(Lost(drain)) /\ Cardinality(Lost(drain)) <= timeouts
    BY DEF Repeats
  <2>2. /\ IsFiniteSet(Lost(drain')) /\ Cardinality(Lost(drain')) <= Cardinality(Lost(drain))
        /\ Cardinality(Lost(drain)) \in Nat /\ Cardinality(Lost(drain')) \in Nat
    BY <1>2, <2>1, FS_Subset, FS_CardinalityType
  <2> QED
    BY <2>1, <2>2 DEF OutboxTypes, TypeOK
<1>4. ASSUME NEW e \in Event, NEW u \in User
      PROVE  /\ IsFiniteSet(Pending(drain', e, u))
             /\ note'[e][u] + Cardinality(Pending(drain', e, u)) <= 1 + timeouts'
  <2>1. Pending(drain', e, u) \in SUBSET Pending(drain, e, u)
    BY <1>1 DEF Pending
  <2>2. /\ IsFiniteSet(Pending(drain, e, u))
        /\ note[e][u] + Cardinality(Pending(drain, e, u)) <= 1 + timeouts
    BY DEF Repeats
  <2>3. /\ IsFiniteSet(Pending(drain', e, u))
        /\ Cardinality(Pending(drain', e, u)) <= Cardinality(Pending(drain, e, u))
        /\ Cardinality(Pending(drain', e, u)) \in Nat /\ Cardinality(Pending(drain, e, u)) \in Nat
    BY <2>1, <2>2, FS_Subset, FS_CardinalityType
  <2>4. note[e][u] \in Nat /\ timeouts \in Nat
    BY OutboxAssumption DEF OutboxTypes, TypeOK
  <2> QED
    BY <2>2, <2>3, <2>4
<1> QED
  BY <1>3, <1>4 DEF Repeats

\* Every step keeps the account of the repeats.
LEMMA RepeatsStep ==
  ASSUME OutboxTypes, OutboxTypes', RowLocks', Repeats, [Next]_vars
  PROVE  Repeats'
<1> USE OutboxAssumption, NoUserAssumption
<1>1. CASE UNCHANGED vars
  BY <1>1 DEF vars, Repeats
<1>2. ASSUME NEW e \in Event, Emit(e)
      PROVE  Repeats'
  BY <1>2 DEF Emit, Repeats
<1>3. ASSUME NEW w \in Worker, Work(w) \/ Timeout(w) \/ Crash(w)
      PROVE  Repeats'
  <2> drain[w] \in Drain /\ Orderly(drain[w])
    BY DEF OutboxTypes, TypeOK
  <2>0. Resting.tx = "none" /\ Resting.missing = NoUser
    BY DEF Resting
  <2>1. CASE Claim(w)
    BY <2>1, RepeatsKept, ClaimRow DEF Claim, Drain
  <2>2. CASE TakeUp(w)
    <3>1. drain[w].missing = NoUser
      BY <2>2 DEF TakeUp, Orderly
    <3> QED
      BY <2>2, <3>1, RepeatsKept, TakeUpRow DEF TakeUp, Drain
  <2>3. ASSUME NEW u \in User, LookFor(w, u)
        PROVE  Repeats'
    <3> DEFINE e == drain[w].now
               d == [drain[w] EXCEPT !.left = @ \ {u}]
               f == [drain[w] EXCEPT !.missing = u]
    <3>1. CASE Becomes(w, d)
      BY <2>3, <3>1, RepeatsKept DEF LookFor, Drain
    <3>2. CASE note[e][u] = 0 /\ Becomes(w, f)
      <4>1. e \in Event /\ UNCHANGED <<note, timeouts>> /\ drain[w].missing = NoUser
        BY <2>3, LookForRow DEF LookFor
      <4>2. drain'[w] = f /\ \A v \in Worker \ {w} : drain'[v] = drain[v]
        BY <3>2 DEF Becomes, OutboxTypes, TypeOK
      <4>3. f.tx = drain[w].tx /\ f.now = e /\ f.missing = u
        BY DEF Drain
      <4>4. e = drain[w].now
        OBVIOUS
      <4> HIDE DEF e, f, d
      <4>5. Lost(drain') = Lost(drain)
        BY <4>2, <4>3 DEF Lost
      <4>6. /\ IsFiniteSet(Pending(drain', e, u))
            /\ Cardinality(Pending(drain', e, u)) <= 1 + Cardinality(Lost(drain'))
        BY <4>1, <4>5, PendingBound DEF OutboxTypes, TypeOK, RowLocks, Open, Repeats
      <4>7. \A g \in Event, x \in User : <<g, x>> # <<e, u>> =>
              Pending(drain', g, x) = Pending(drain, g, x)
        BY <4>1, <4>2, <4>3 DEF Pending
      <4>8. /\ timeouts \in Nat /\ Cardinality(Lost(drain)) <= timeouts
            /\ Cardinality(Lost(drain)) \in Nat /\ Cardinality(Pending(drain', e, u)) \in Nat
        BY <4>6, FS_CardinalityType DEF Repeats, OutboxTypes, TypeOK
      <4>9. note'[e][u] + Cardinality(Pending(drain', e, u)) <= 1 + timeouts'
        BY <3>2, <4>1, <4>5, <4>6, <4>8
      <4> QED
        BY <4>1, <4>5, <4>6, <4>7, <4>9 DEF Repeats
    <3> QED
      BY <2>3, <3>1, <3>2, LookForRow
  <2>4. CASE Notify(w)
    <3> DEFINE e == drain[w].now
               u == drain[w].missing
               d == [drain[w] EXCEPT !.left = @ \ {u}, !.missing = NoUser]
    <3>1. Becomes(w, d) /\ e \in Event /\ u \in User
      BY <2>4, NotifyRow
    <3>2. note' = [note EXCEPT ![e][u] = @ + 1] /\ timeouts' = timeouts
      BY <2>4 DEF Notify
    <3>3. drain'[w] = d /\ \A v \in Worker \ {w} : drain'[v] = drain[v]
      BY <3>1 DEF Becomes, OutboxTypes, TypeOK
    <3>4. d.tx = drain[w].tx /\ d.now = e /\ d.missing = NoUser
      BY DEF Drain
    <3>5. e = drain[w].now /\ u = drain[w].missing
      OBVIOUS
    <3> HIDE DEF e, u, d
    <3>6. Lost(drain') = Lost(drain)
      BY <3>3, <3>4 DEF Lost
    <3>7. /\ w \in Pending(drain, e, u)
          /\ Pending(drain', e, u) = Pending(drain, e, u) \ {w}
      BY <3>1, <3>3, <3>4, <3>5 DEF Pending
    <3>8. \A g \in Event, x \in User : <<g, x>> # <<e, u>> =>
            /\ Pending(drain', g, x) = Pending(drain, g, x)
            /\ note'[g][x] = note[g][x]
      BY <3>1, <3>2, <3>3, <3>4, <3>5 DEF Pending, OutboxTypes, TypeOK
    <3>9. /\ IsFiniteSet(Pending(drain, e, u)) /\ Cardinality(Pending(drain, e, u)) \in Nat
          /\ note[e][u] + Cardinality(Pending(drain, e, u)) <= 1 + timeouts
          /\ note[e][u] \in Nat /\ timeouts \in Nat
      BY <3>1, FS_CardinalityType DEF Repeats, OutboxTypes, TypeOK
    <3>10. /\ IsFiniteSet(Pending(drain', e, u))
           /\ Cardinality(Pending(drain', e, u)) = Cardinality(Pending(drain, e, u)) - 1
      BY <3>7, <3>9, FS_RemoveElement
    <3>11. note'[e][u] = note[e][u] + 1
      BY <3>1, <3>2 DEF OutboxTypes, TypeOK
    <3>12. note'[e][u] + Cardinality(Pending(drain', e, u)) <= 1 + timeouts'
      BY <3>2, <3>9, <3>10, <3>11
    <3> QED
      BY <3>2, <3>6, <3>8, <3>10, <3>12 DEF Repeats
  <2>5. CASE Dispatched(w)
    <3> DEFINE d == [drain[w] EXCEPT !.now = NoEvent, !.done = @ \cup {drain[w].now}]
    <3>1. (Becomes(w, d) \/ Becomes(w, Resting)) /\ UNCHANGED <<note, timeouts>>
      BY <2>5, DispatchedRow DEF Dispatched, Stage
    <3>2. d.tx = drain[w].tx /\ d.missing = NoUser
      BY <2>5 DEF Dispatched, Orderly, Drain
    <3> HIDE DEF d
    <3> QED
      BY <3>1, <3>2, <2>0, RepeatsKept
  <2>6. CASE Failed(w)
    <3> DEFINE d == [drain[w] EXCEPT !.now = NoEvent, !.left = {}, !.missing = NoUser,
                                     !.bad = @ \cup {drain[w].now}]
    <3>1. (Becomes(w, d) \/ Becomes(w, Resting)) /\ UNCHANGED <<note, timeouts>>
      BY <2>6, FailedRow DEF Failed, Stage
    <3>2. d.tx = drain[w].tx /\ d.missing = NoUser
      BY DEF Drain
    <3> HIDE DEF d
    <3> QED
      BY <3>1, <3>2, <2>0, RepeatsKept
  <2>7. CASE Commit(w)
    <3> DEFINE d == [Resting EXCEPT !.tell = drain[w].done]
    <3>1. Becomes(w, d) /\ d.tx = "none" /\ d.missing = NoUser /\ UNCHANGED <<note, timeouts>>
      BY <2>7, CommitRow DEF Resting, Commit
    <3> HIDE DEF d
    <3> QED
      BY <3>1, RepeatsKept
  <2>8. CASE Publish(w)
    BY <2>8, RepeatsKept, PublishRow DEF Publish, Drain
  <2>9. CASE Lose(w) \/ Crash(w)
    <3>1. Becomes(w, Resting) /\ UNCHANGED <<note, timeouts>>
      BY <2>9 DEF Lose, Crash, Becomes
    <3> QED
      BY <2>0, <3>1, RepeatsKept
  <2>10. CASE Timeout(w)
    <3> DEFINE d == [drain[w] EXCEPT !.tx = "lost"]
    <3>1. Becomes(w, d) /\ note' = note /\ timeouts' = timeouts + 1 /\ drain[w].tx = "open"
      BY <2>10, TimeoutRow DEF Timeout
    <3>2. drain'[w] = d /\ \A v \in Worker \ {w} : drain'[v] = drain[v]
      BY <3>1 DEF Becomes, OutboxTypes, TypeOK
    <3>3. d.tx = "lost" /\ d.now = drain[w].now /\ d.missing = drain[w].missing
      BY DEF Drain
    <3> HIDE DEF d
    <3>4. Lost(drain') = Lost(drain) \cup {w} /\ w \notin Lost(drain)
      BY <3>1, <3>2, <3>3 DEF Lost
    <3>5. \A g \in Event, x \in User : Pending(drain', g, x) = Pending(drain, g, x)
      BY <3>2, <3>3 DEF Pending
    <3>6. /\ IsFiniteSet(Lost(drain)) /\ Cardinality(Lost(drain)) \in Nat
          /\ Cardinality(Lost(drain)) <= timeouts /\ timeouts \in Nat
      BY FS_CardinalityType DEF Repeats, OutboxTypes, TypeOK
    <3>7. IsFiniteSet(Lost(drain')) /\ Cardinality(Lost(drain')) <= timeouts'
      <4>1. /\ IsFiniteSet(Lost(drain) \cup {w})
            /\ Cardinality(Lost(drain) \cup {w}) = Cardinality(Lost(drain)) + 1
        BY <3>4, <3>6, FS_AddElement
      <4>2. IsFiniteSet(Lost(drain')) /\ Cardinality(Lost(drain')) = Cardinality(Lost(drain)) + 1
        BY <3>4, <4>1
      <4> QED
        BY <3>1, <3>6, <4>2
    <3>8. ASSUME NEW g \in Event, NEW x \in User
          PROVE  /\ IsFiniteSet(Pending(drain', g, x))
                 /\ note'[g][x] + Cardinality(Pending(drain', g, x)) <= 1 + timeouts'
      <4>1. /\ IsFiniteSet(Pending(drain, g, x)) /\ Cardinality(Pending(drain, g, x)) \in Nat
            /\ note[g][x] + Cardinality(Pending(drain, g, x)) <= 1 + timeouts
            /\ note[g][x] \in Nat
        BY FS_CardinalityType DEF Repeats, OutboxTypes, TypeOK
      <4>2. Pending(drain', g, x) = Pending(drain, g, x)
        BY <3>5
      <4>3. note[g][x] + Cardinality(Pending(drain, g, x)) <= 1 + (timeouts + 1)
        BY <3>6, <4>1
      <4> QED
        BY <3>1, <4>1, <4>2, <4>3
    <3> QED
      BY <3>7, <3>8 DEF Repeats
  <2> QED
    BY <1>3, <2>1, <2>2, <2>3, <2>4, <2>5, <2>6, <2>7, <2>8, <2>9, <2>10 DEF Work
<1> QED
  BY <1>1, <1>2, <1>3 DEF Next

-----------------------------------------------------------------------------
OutboxInv == OutboxTypes /\ RowLocks /\ Told /\ Reached /\ Repeats

\* The invariant at the start.
LEMMA OutboxStart == Init => OutboxInv
<1> SUFFICES ASSUME Init PROVE OutboxInv
  OBVIOUS
<1> USE OutboxAssumption, NoUserAssumption
<1>1. OutboxTypes
  BY OutboxTypesStart
<1>2. RowLocks /\ Told
  BY DEF Init, RowLocks, Told, Open, Holds, Resting
<1>3. Reached
  BY DEF Init, Reached, PublishedReachedAll, Open, Resting
<1>4. Repeats
  <2>1. Lost(drain) = {}
    BY DEF Init, Lost, Resting
  <2>2. \A e \in Event, u \in User : Pending(drain, e, u) = {}
    BY DEF Init, Pending, Resting
  <2>3. IsFiniteSet({}) /\ Cardinality({}) = 0
    BY FS_EmptySet
  <2>4. timeouts = 0 /\ \A e \in Event, u \in User : note[e][u] = 0
    BY DEF Init
  <2>5. IsFiniteSet(Lost(drain)) /\ Cardinality(Lost(drain)) <= timeouts
    BY <2>1, <2>3, <2>4
  <2>6. ASSUME NEW e \in Event, NEW u \in User
        PROVE  /\ IsFiniteSet(Pending(drain, e, u))
               /\ note[e][u] + Cardinality(Pending(drain, e, u)) <= 1 + timeouts
    <3>1. Cardinality(Pending(drain, e, u)) = 0 /\ IsFiniteSet(Pending(drain, e, u))
      BY <2>2, <2>3
    <3>2. note[e][u] = 0 /\ timeouts = 0
      BY <2>4
    <3> QED
      BY <3>1, <3>2
  <2> QED
    BY <2>5, <2>6 DEF Repeats
<1> QED
  BY <1>1, <1>2, <1>3, <1>4 DEF OutboxInv

\* The invariant.
LEMMA OutboxInvariant == Spec => []OutboxInv
<1>1. OutboxInv /\ [Next]_vars => OutboxInv'
  <2> SUFFICES ASSUME OutboxInv, [Next]_vars PROVE OutboxInv'
    OBVIOUS
  <2>1. OutboxTypes' /\ RowLocks'
    BY OutboxTypesStep, RowLocksStep DEF OutboxInv
  <2> QED
    BY <2>1, ToldStep, ReachedStep, RepeatsStep DEF OutboxInv
<1> QED
  BY <1>1, OutboxStart, PTL DEF Spec

\* Every variable keeps its type for any events, users, workers and limits.
THEOREM TypeCorrect == Spec => []TypeOK
<1>1. OutboxInv => TypeOK
  BY DEF OutboxInv, OutboxTypes
<1> QED
  BY <1>1, OutboxInvariant, PTL

\* A published event has reached everyone it is for, whatever was lost halfway.
THEOREM PublishedEventsReachedAll == Spec => []PublishedReachedAll
<1>1. OutboxInv => PublishedReachedAll
  BY DEF OutboxInv, Reached
<1> QED
  BY <1>1, OutboxInvariant, PTL

\* The bus hears of an event once at most, however many drains take it up.
THEOREM EventsAnnouncedOnce == Spec => []AnnouncedOnce
<1>1. OutboxInv => AnnouncedOnce
  BY ToldOnce DEF OutboxInv
<1> QED
  BY <1>1, OutboxInvariant, PTL

\* One more notification of an event for each time-out, and no other.
THEOREM RepeatsAreTimeouts == Spec => []RepeatsNeedTimeouts
<1>1. OutboxInv => RepeatsNeedTimeouts
  <2> SUFFICES ASSUME OutboxInv, NEW e \in Event, NEW u \in User
               PROVE  note[e][u] <= 1 + timeouts
    BY DEF RepeatsNeedTimeouts
  <2>1. /\ Cardinality(Pending(drain, e, u)) \in Nat /\ note[e][u] \in Nat /\ timeouts \in Nat
        /\ note[e][u] + Cardinality(Pending(drain, e, u)) <= 1 + timeouts
    BY OutboxAssumption, FS_CardinalityType DEF OutboxInv, Repeats, OutboxTypes, TypeOK
  <2> QED
    BY <2>1
<1> QED
  BY <1>1, OutboxInvariant, PTL

-----------------------------------------------------------------------------
(***************************************************************************)
(* What the lock of a job is good for, for any runs, rows, days and        *)
(* faults: JobsInv says who holds the lock and who may go on without it.    *)
(***************************************************************************)
Lock == [by: Run \cup {NoRun}, px: BOOLEAN]
Duty == [phase: {"idle", "working", "unlocking", "deleting"}, reading: SUBSET Sweep,
         todo: SUBSET Subject, missing: SUBSET Subject, late: BOOLEAN]

JobTypes ==
  /\ lock \in Lock
  /\ run \in [Run -> Duty]
  /\ sent \in [Subject -> SUBSET (0..MaxDay)]
  /\ day \in 0..MaxDay
  /\ excused \subseteq Run

\* A run under way holds the lock unless it is excused, and so does one that is
\* about to delete it unless it is late; who sweeps on after the run is excused.
Holding ==
  /\ \A r \in Run : Going(r) /\ r \notin excused => lock.by = r
  /\ \A r \in Run : run[r].phase = "deleting" /\ ~run[r].late => lock.by = r
  /\ \A r \in Run : Sweeping(r) /\ run[r].phase # "working" => r \in excused

JobsInv == JobTypes /\ Holding

-----------------------------------------------------------------------------
\* What is read for a sweep are subjects of it.
LEMMA ReadRows ==
  ASSUME NEW k \in Sweep, NEW found \in Rows[k]
  PROVE  found \subseteq Subject
<1>1. \A S, j : \A T \in Taken(j, S) : T \subseteq S
  BY DEF Taken
<1>2. k \in {"oil", "warranty", "delivery", "lapsed"}
  BY JobsAssumption DEF Sweeps
<1>3. CASE k = "oil"
  <2>1. PICK T \in Taken("oil", Vehicle) : found = {v \in T : Driven[v] >= OilInterval - OilWarn}
    BY <1>3 DEF Rows, OilChangeDue
  <2> QED
    BY <1>1, <1>3, <2>1 DEF Subject, SubjectsOf
<1>4. CASE k = "warranty"
  BY <1>1, <1>4 DEF Rows, WarrantyExpiring, Subject, SubjectsOf
<1>5. CASE k = "delivery"
  BY <1>1, <1>5 DEF Rows, ScheduledServiceDue, Subject, SubjectsOf
<1>6. CASE k = "lapsed"
  BY <1>1, <1>6 DEF Rows, LapsedCustomers, Subject, SubjectsOf
<1> QED
  BY <1>2, <1>3, <1>4, <1>5, <1>6

-----------------------------------------------------------------------------
\* The row of run r becomes w.
RunBecomes(r, w) == run' = [run EXCEPT ![r] = w]

\* What a run does to its own row while it goes on.
LEMMA ReadRow ==
  ASSUME JobTypes, NEW r \in Run, NEW k \in Sweep, Read(r, k)
  PROVE  \E w \in Duty : /\ RunBecomes(r, w)
                         /\ w.phase = run[r].phase /\ w.late = run[r].late
                         /\ Sweeping(r)
<1>1. PICK found \in Rows[k] :
        run' = [run EXCEPT ![r].reading = @ \ {k}, ![r].todo = @ \cup found]
  BY DEF Read
<1>2. found \subseteq Subject
  BY ReadRows
<1> DEFINE w == [run[r] EXCEPT !.reading = @ \ {k}, !.todo = @ \cup found]
<1>3. w \in Duty
  BY <1>2 DEF JobTypes, Duty
<1>4. RunBecomes(r, w)
  BY <1>1 DEF RunBecomes, JobTypes
<1>5. w.phase = run[r].phase /\ w.late = run[r].late
  BY DEF JobTypes, Duty
<1>6. Sweeping(r)
  BY DEF Read, Sweeping
<1> QED
  BY <1>3, <1>4, <1>5, <1>6

\* The look in the outbox.
LEMMA LookRow ==
  ASSUME JobTypes, NEW r \in Run, NEW k \in Sweep, NEW s \in Subject, Look(r, k, s)
  PROVE  \E w \in Duty : /\ RunBecomes(r, w)
                         /\ w.phase = run[r].phase /\ w.late = run[r].late
                         /\ Sweeping(r)
<1> DEFINE w == [run[r] EXCEPT !.todo = @ \ {s},
                               !.missing = IF AlreadySent(k, s) THEN @ ELSE @ \cup {s}]
<1>1. w \in Duty
  BY DEF JobTypes, Duty
<1>2. RunBecomes(r, w)
  BY DEF Look, RunBecomes, JobTypes
<1>3. w.phase = run[r].phase /\ w.late = run[r].late
  BY DEF JobTypes, Duty
<1>4. Sweeping(r)
  BY DEF Look, Sweeping
<1> HIDE DEF w
<1> QED
  BY <1>1, <1>2, <1>3, <1>4

\* The reminder.
LEMMA RemindRow ==
  ASSUME JobTypes, NEW r \in Run, NEW s \in Subject, Remind(r, s)
  PROVE  \E w \in Duty : /\ RunBecomes(r, w)
                         /\ w.phase = run[r].phase /\ w.late = run[r].late
                         /\ Sweeping(r)
<1> DEFINE w == [run[r] EXCEPT !.missing = @ \ {s}]
<1>1. w \in Duty /\ w.phase = run[r].phase /\ w.late = run[r].late
  BY DEF JobTypes, Duty
<1>2. RunBecomes(r, w)
  BY DEF Remind, RunBecomes, JobTypes
<1>3. Sweeping(r)
  BY DEF Remind, Sweeping
<1> QED
  BY <1>1, <1>2, <1>3

\* The failure of a sweep.
LEMMA FailRow ==
  ASSUME JobTypes, NEW r \in Run, NEW k \in Sweep, Fail(r, k)
  PROVE  \E w \in Duty : /\ RunBecomes(r, w)
                         /\ w.phase = "unlocking"
                         /\ run[r].phase = "working"
<1> DEFINE w == [run[r] EXCEPT !.phase = "unlocking", !.reading = @ \ {k},
                               !.todo = @ \ SubjectsOf[k], !.missing = @ \ SubjectsOf[k]]
<1>1. w \in Duty /\ w.phase = "unlocking"
  BY DEF JobTypes, Duty
<1>2. RunBecomes(r, w) /\ run[r].phase = "working"
  BY DEF Fail, RunBecomes, JobTypes
<1> QED
  BY <1>1, <1>2

\* A run starts over an idle row.
LEMMA StartRow ==
  ASSUME JobTypes, NEW r \in Run, Start(r)
  PROVE  \E w \in Duty : /\ RunBecomes(r, w)
                         /\ w.phase = "working" /\ ~Going(r)
<1> DEFINE w == [run[r] EXCEPT !.phase = "working", !.reading = Sweep]
<1>0. run[r] = Idle /\ run[r] \in Duty /\ run[r].missing = {}
  <2>1. run[r] = Idle
    BY DEF Start
  <2>2. run[r] \in Duty
    BY DEF JobTypes
  <2> QED
    BY <2>1, <2>2 DEF Idle
<1>1. w.phase = "working" /\ w.missing = {} /\ w \in Duty
  BY <1>0 DEF Duty
<1>3. RunBecomes(r, w)
  BY DEF Start, RunBecomes, JobTypes
<1>4. ~Going(r)
  BY <1>0 DEF Going, Sweeping, Idle
<1> QED
  BY <1>1, <1>3, <1>4

\* A run that is over, gives back the lock or crashes.
LEMMA PhaseRow ==
  ASSUME JobTypes, NEW r \in Run, Swept(r) \/ Unlock(r) \/ RunCrashes(r)
  PROVE  \E w \in Duty :
           /\ RunBecomes(r, w)
           /\ w.phase \in {"idle", "unlocking", "deleting"}
           /\ w.phase = "deleting" => lock.by = r
           /\ w.reading \subseteq run[r].reading /\ w.todo \subseteq run[r].todo
           /\ w.missing \subseteq run[r].missing
           /\ run[r].phase = "working" =>
                w.reading = {} /\ w.todo = {} /\ w.missing = {}
<1>1. CASE Swept(r)
  <2> DEFINE w == [run[r] EXCEPT !.phase = "unlocking"]
  <2>1. w \in Duty /\ w.phase = "unlocking" /\ w.reading = run[r].reading
        /\ w.todo = run[r].todo /\ w.missing = run[r].missing
    BY DEF JobTypes, Duty
  <2>2. RunBecomes(r, w)
    BY <1>1 DEF Swept, RunBecomes, JobTypes
  <2>3. w.reading = {} /\ w.todo = {} /\ w.missing = {}
    BY <1>1, <2>1 DEF Swept, Sweeping
  <2> HIDE DEF w
  <2> QED
    BY <2>1, <2>2, <2>3
<1>2. CASE Unlock(r)
  <2> DEFINE w == [run[r] EXCEPT !.phase = IF lock.by = r THEN "deleting" ELSE "idle"]
  <2>1. w \in Duty /\ w.phase = (IF lock.by = r THEN "deleting" ELSE "idle")
        /\ w.reading = run[r].reading /\ w.todo = run[r].todo /\ w.missing = run[r].missing
    BY DEF JobTypes, Duty
  <2>2. RunBecomes(r, w) /\ run[r].phase = "unlocking"
    BY <1>2 DEF Unlock, RunBecomes, JobTypes
  <2> HIDE DEF w
  <2> QED
    BY <2>1, <2>2
<1>3. CASE RunCrashes(r)
  <2>1. Idle \in Duty /\ Idle.phase = "idle" /\ Idle.reading = {} /\ Idle.todo = {}
        /\ Idle.missing = {}
    BY DEF Idle, Duty
  <2>2. RunBecomes(r, Idle)
    BY <1>3 DEF RunCrashes, RunBecomes
  <2> QED
    BY <2>1, <2>2
<1> QED
  BY <1>1, <1>2, <1>3

\* What becomes of the row of run q when a lock goes away, deleted or expired.
LateRow(q, w) ==
  /\ w.reading = run[q].reading /\ w.todo = run[q].todo /\ w.missing = run[q].missing
  /\ w.phase \in {run[q].phase, "idle"}
  /\ w.phase = "deleting" /\ ~w.late =>
       run[q].phase = "deleting" /\ ~run[q].late /\ lock.by # q

\* The rows when the lock goes away.
LEMMA LateRows ==
  ASSUME JobTypes, Expire \/ \E r \in Run : Delete(r)
  PROVE  run' \in [Run -> Duty] /\ \A q \in Run : LateRow(q, run'[q])
<1>1. \A q \in Run : /\ [run[q] EXCEPT !.late = TRUE] \in Duty
                     /\ LateRow(q, [run[q] EXCEPT !.late = TRUE])
                     /\ [run[q] EXCEPT !.phase = "idle", !.late = FALSE] \in Duty
                     /\ LateRow(q, [run[q] EXCEPT !.phase = "idle", !.late = FALSE])
                     /\ run[q] \in Duty
  BY DEF LateRow, JobTypes, Duty
<1>2. CASE Expire
  <2>1. run' = [q \in Run |-> IF q = lock.by /\ run[q].phase = "deleting"
                              THEN [run[q] EXCEPT !.late = TRUE] ELSE run[q]]
    BY <1>2 DEF Expire
  <2>2. ASSUME NEW q \in Run PROVE run'[q] \in Duty /\ LateRow(q, run'[q])
    <3>1. CASE q = lock.by /\ run[q].phase = "deleting"
      BY <1>1, <2>1, <3>1
    <3>2. CASE ~(q = lock.by /\ run[q].phase = "deleting")
      <4>1. run'[q] = run[q]
        BY <2>1, <3>2
      <4> QED
        BY <1>1, <3>2, <4>1 DEF LateRow
    <3> QED
      BY <3>1, <3>2
  <2> QED
    BY <2>1, <2>2
<1>3. ASSUME NEW r \in Run, Delete(r)
      PROVE  run' \in [Run -> Duty] /\ \A q \in Run : LateRow(q, run'[q])
  <2>1. run' = [q \in Run |-> IF q = r THEN [run[q] EXCEPT !.phase = "idle", !.late = FALSE]
                              ELSE IF q = lock.by /\ run[q].phase = "deleting"
                              THEN [run[q] EXCEPT !.late = TRUE]
                              ELSE run[q]]
    BY <1>3 DEF Delete
  <2>2. ASSUME NEW q \in Run PROVE run'[q] \in Duty /\ LateRow(q, run'[q])
    <3>1. CASE q = r
      BY <1>1, <2>1, <3>1
    <3>2. CASE q # r /\ q = lock.by /\ run[q].phase = "deleting"
      BY <1>1, <2>1, <3>2
    <3>3. CASE q # r /\ ~(q = lock.by /\ run[q].phase = "deleting")
      <4>1. run'[q] = run[q]
        BY <2>1, <3>3
      <4> QED
        BY <1>1, <3>3, <4>1 DEF LateRow
    <3> QED
      BY <3>1, <3>2, <3>3
  <2> QED
    BY <2>1, <2>2
<1> QED
  BY <1>2, <1>3

-----------------------------------------------------------------------------
\* The invariant at the start.
LEMMA JobsStart == JobsInit => JobsInv
<1> SUFFICES ASSUME JobsInit PROVE JobsInv
  OBVIOUS
<1> USE JobsAssumption
<1>1. \A r \in Run : ~Going(r) /\ ~Sweeping(r) /\ run[r].phase = "idle" /\ run[r].missing = {}
  BY DEF JobsInit, Going, Sweeping, Idle
<1>2. JobTypes
  <2>1. Idle \in Duty /\ Free \in Lock
    BY DEF Idle, Duty, Free, Lock
  <2> QED
    BY <2>1 DEF JobsInit, JobTypes
<1>3. Holding
  BY <1>1 DEF Holding
<1> QED
  BY <1>2, <1>3 DEF JobsInv

\* Every step keeps the types.
LEMMA JobTypesStep ==
  ASSUME JobTypes, [JobsNext]_jobVars
  PROVE  JobTypes'
<1> USE JobsAssumption
<1>1. CASE UNCHANGED jobVars
  BY <1>1 DEF jobVars, JobTypes
<1>2. ASSUME NEW r \in Run, NEW w \in Duty, RunBecomes(r, w), UNCHANGED <<lock, sent, day>>,
             excused' \subseteq Run
      PROVE  JobTypes'
  BY <1>2 DEF RunBecomes, JobTypes
<1>3. ASSUME NEW r \in Run, Start(r) PROVE JobTypes'
  <2>1. run' \in [Run -> Duty]
    BY <1>3, StartRow DEF RunBecomes, JobTypes
  <2>2. lock' \in Lock
    BY <1>3 DEF Start, Lock
  <2>3. excused' \subseteq Run /\ UNCHANGED <<sent, day>>
    BY <1>3 DEF Start, JobTypes
  <2> QED
    BY <2>1, <2>2, <2>3 DEF JobTypes
<1>4. ASSUME NEW r \in Run, Swept(r) \/ Unlock(r) \/ RunCrashes(r) PROVE JobTypes'
  BY <1>2, <1>4, PhaseRow DEF Swept, Unlock, RunCrashes, JobTypes
<1>5. ASSUME NEW r \in Run, NEW k \in Sweep, Read(r, k) PROVE JobTypes'
  BY <1>2, <1>5, ReadRow DEF Read, JobTypes
<1>6. ASSUME NEW r \in Run, NEW k \in Sweep, NEW s \in Subject, Look(r, k, s) PROVE JobTypes'
  BY <1>2, <1>6, LookRow DEF Look, JobTypes
<1>7. ASSUME NEW r \in Run, NEW k \in Sweep, Fail(r, k) PROVE JobTypes'
  BY <1>2, <1>7, FailRow DEF Fail, JobTypes
<1>8. ASSUME NEW r \in Run, NEW s \in Subject, Remind(r, s) PROVE JobTypes'
  <2>1. run' \in [Run -> Duty]
    BY <1>8, RemindRow DEF RunBecomes, JobTypes
  <2>2. sent' \in [Subject -> SUBSET (0..MaxDay)]
    BY <1>8 DEF Remind, JobTypes
  <2> QED
    BY <1>8, <2>1, <2>2 DEF Remind, JobTypes
<1>9. CASE Expire \/ \E r \in Run : Delete(r)
  <2>1. Free \in Lock
    BY DEF Free, Lock
  <2>2. CASE Expire
    BY <2>1, <2>2, LateRows DEF Expire, JobTypes
  <2>3. ASSUME NEW r \in Run, Delete(r) PROVE JobTypes'
    BY <2>1, <2>3, LateRows DEF Delete, JobTypes
  <2> QED
    BY <1>9, <2>2, <2>3
<1>10. CASE NextDay
  BY <1>10 DEF NextDay, JobTypes
<1> QED
  BY <1>1, <1>3, <1>4, <1>5, <1>6, <1>7, <1>8, <1>9, <1>10 DEF JobsNext, GoOn

-----------------------------------------------------------------------------
\* A row that sweeps, and one under way.
RowSweeps(w) == w.reading \cup w.todo \cup w.missing # {}
RowGoes(w)   == w.phase = "working" \/ RowSweeps(w)

\* A step that only changes the row of a run, and does not set it going.
LEMMA OneRow ==
  ASSUME JobTypes, Holding, NEW r \in Run, NEW w \in Duty, RunBecomes(r, w),
         UNCHANGED lock, excused \subseteq excused',
         RowGoes(w) => Going(r),
         w.phase = "deleting" /\ ~w.late => lock.by = r,
         RowSweeps(w) /\ w.phase # "working" => r \in excused'
  PROVE  Holding'
<1>1. run'[r] = w /\ \A q \in Run \ {r} : run'[q] = run[q]
  BY DEF RunBecomes, JobTypes
<1>2. /\ Going(r)' = RowGoes(w) /\ Sweeping(r)' = RowSweeps(w)
      /\ \A q \in Run \ {r} : Going(q)' = Going(q) /\ Sweeping(q)' = Sweeping(q)
  BY <1>1 DEF Going, Sweeping, RowGoes, RowSweeps
<1>3. ASSUME NEW q \in Run, Going(q)', q \notin excused' PROVE lock'.by = q
  <2>1. Going(q) /\ q \notin excused
    BY <1>2, <1>3
  <2> QED
    BY <2>1 DEF Holding
<1>4. ASSUME NEW q \in Run, run'[q].phase = "deleting", ~run'[q].late PROVE lock'.by = q
  BY <1>1, <1>4 DEF Holding
<1>5. ASSUME NEW q \in Run, Sweeping(q)', run'[q].phase # "working" PROVE q \in excused'
  BY <1>1, <1>2, <1>5 DEF Holding
<1> QED
  BY <1>3, <1>4, <1>5 DEF Holding

\* A run that starts takes the lock.
LEMMA StartLocks ==
  ASSUME JobTypes, Holding, NEW r \in Run, Start(r)
  PROVE  Holding'
<1> USE JobsAssumption
<1>1. PICK w \in Duty : RunBecomes(r, w) /\ w.phase = "working" /\ ~Going(r)
  BY StartRow
<1>2. run'[r] = w /\ \A q \in Run \ {r} : run'[q] = run[q]
  BY <1>1 DEF RunBecomes, JobTypes
<1>3. \A q \in Run \ {r} : Going(q)' = Going(q) /\ Sweeping(q)' = Sweeping(q)
  BY <1>2 DEF Going, Sweeping
<1>4. lock.by = NoRun /\ lock'.by = r /\ excused' = excused \ {r}
  BY DEF Start, Free
<1>5. \A q \in Run : Going(q) => q \in excused
  BY <1>4 DEF Holding
<1>6. ASSUME NEW q \in Run, Going(q)', q \notin excused' PROVE lock'.by = q
  BY <1>3, <1>4, <1>5, <1>6
<1>7. ASSUME NEW q \in Run, run'[q].phase = "deleting", ~run'[q].late PROVE lock'.by = q
  BY <1>1, <1>2, <1>4, <1>7 DEF Holding
<1>8. ASSUME NEW q \in Run, Sweeping(q)', run'[q].phase # "working" PROVE q \in excused'
  BY <1>1, <1>2, <1>3, <1>4, <1>8 DEF Holding
<1> QED
  BY <1>6, <1>7, <1>8 DEF Holding

\* The lock goes away: who held it is excused.
LEMMA GoneLocks ==
  ASSUME JobTypes, Holding, Expire \/ \E r \in Run : Delete(r)
  PROVE  Holding'
<1> USE JobsAssumption
<1>1. \A q \in Run : LateRow(q, run'[q])
  BY LateRows
<1>2. \A q \in Run : (Going(q)' => Going(q)) /\ Sweeping(q)' = Sweeping(q)
  BY <1>1 DEF LateRow, Going, Sweeping
<1>3. excused \subseteq excused'
  BY DEF Expire, Delete
<1>4. ASSUME NEW q \in Run, Going(q)', q \notin excused' PROVE lock'.by = q
  <2>1. Going(q) /\ q \notin excused /\ lock.by = q
    BY <1>2, <1>3, <1>4 DEF Holding
  <2>2. CASE Expire
    BY <1>4, <2>1, <2>2 DEF Expire
  <2>3. ASSUME NEW r \in Run, Delete(r) PROVE FALSE
    <3>1. ~run[r].late /\ run[r].phase = "deleting"
      BY <1>4, <2>1, <2>3 DEF Delete, JobTypes, Duty
    <3>2. q = r
      BY <2>1, <3>1 DEF Holding
    <3> QED
      BY <2>1, <3>1, <3>2 DEF Holding, Going
  <2> QED
    BY <2>2, <2>3
<1>5. ASSUME NEW q \in Run, run'[q].phase = "deleting", ~run'[q].late PROVE lock'.by = q
  BY <1>1, <1>5 DEF LateRow, Holding
<1>6. ASSUME NEW q \in Run, Sweeping(q)', run'[q].phase # "working" PROVE q \in excused'
  <2>1. CASE run[q].phase # "working"
    BY <1>2, <1>3, <1>6, <2>1 DEF Holding
  <2>2. CASE run[q].phase = "working"
    <3>1. run'[q] = run[q]
      BY <2>2 DEF Expire, Delete, JobTypes
    <3> QED
      BY <1>6, <2>2, <3>1
  <2> QED
    BY <2>1, <2>2
<1> QED
  BY <1>4, <1>5, <1>6 DEF Holding

\* Every step keeps who holds the lock.
LEMMA JobLocksStep ==
  ASSUME JobTypes, Holding, [JobsNext]_jobVars
  PROVE  Holding'
<1>1. CASE UNCHANGED jobVars \/ NextDay
  BY <1>1 DEF jobVars, NextDay, Holding, Going, Sweeping
<1>2. ASSUME NEW r \in Run, NEW w \in Duty, RunBecomes(r, w),
             UNCHANGED <<lock, excused>>, Sweeping(r),
             w.phase = run[r].phase, w.late = run[r].late
      PROVE  Holding'
  BY <1>2, OneRow DEF Going, Holding
<1>3. ASSUME NEW r \in Run, NEW k \in Sweep, Read(r, k) PROVE Holding'
  BY <1>2, <1>3, ReadRow DEF Read
<1>4. ASSUME NEW r \in Run, NEW k \in Sweep, NEW s \in Subject, Look(r, k, s)
      PROVE  Holding'
  BY <1>2, <1>4, LookRow DEF Look
<1>5. ASSUME NEW r \in Run, NEW s \in Subject, Remind(r, s) PROVE Holding'
  BY <1>2, <1>5, RemindRow DEF Remind
<1>6. ASSUME NEW r \in Run, Swept(r) \/ Unlock(r) \/ RunCrashes(r)
      PROVE  Holding'
  <2>1. PICK w \in Duty :
           /\ RunBecomes(r, w)
           /\ w.phase \in {"idle", "unlocking", "deleting"}
           /\ w.phase = "deleting" => lock.by = r
           /\ w.reading \subseteq run[r].reading /\ w.todo \subseteq run[r].todo
           /\ w.missing \subseteq run[r].missing
           /\ run[r].phase = "working" =>
                w.reading = {} /\ w.todo = {} /\ w.missing = {}
    BY <1>6, PhaseRow
  <2>2. UNCHANGED <<lock, excused>>
    BY <1>6 DEF Swept, Unlock, RunCrashes
  <2>3. RowSweeps(w) => Sweeping(r)
    BY <2>1 DEF RowSweeps, Sweeping
  <2>4. RowGoes(w) => Going(r)
    BY <2>1, <2>3 DEF RowGoes, Going
  <2>5. RowSweeps(w) /\ w.phase # "working" => r \in excused
    <3>1. CASE run[r].phase = "working"
      BY <2>1, <3>1 DEF RowSweeps
    <3>2. CASE run[r].phase # "working"
      BY <2>3, <3>2 DEF Holding
    <3> QED
      BY <3>1, <3>2
  <2> QED
    BY <2>1, <2>2, <2>4, <2>5, OneRow
<1>7. ASSUME NEW r \in Run, NEW k \in Sweep, Fail(r, k) PROVE Holding'
  <2>1. PICK w \in Duty : RunBecomes(r, w) /\ w.phase = "unlocking" /\ run[r].phase = "working"
    BY <1>7, FailRow
  <2>2. run'[r] = w
    BY <2>1 DEF RunBecomes, JobTypes
  <2>3. Sweeping(r)' = RowSweeps(w)
    BY <2>2 DEF Sweeping, RowSweeps
  <2>4. UNCHANGED lock /\ excused \subseteq excused'
        /\ (RowSweeps(w) => r \in excused')
    BY <1>7, <2>3 DEF Fail
  <2> QED
    BY <2>1, <2>4, OneRow DEF Going
<1>8. ASSUME NEW r \in Run, Start(r) PROVE Holding'
  BY <1>8, StartLocks
<1>9. CASE Expire \/ \E r \in Run : Delete(r)
  BY <1>9, GoneLocks
<1> QED
  BY <1>1, <1>3, <1>4, <1>5, <1>6, <1>7, <1>8, <1>9 DEF JobsNext, GoOn

------------------------------------------------------\* The invariant.
LEMMA JobsInvariant == JobsSpec => []JobsInv
<1>1. JobsInv /\ [JobsNext]_jobVars => JobsInv'
  BY JobTypesStep, JobLocksStep DEF JobsInv
<1> QED
  BY <1>1, JobsStart, PTL DEF JobsSpec

-----------------------------------------------------------------------------
\* No two runs are under way at once unless the lock of one was lost or given
\* back before its time.
THEOREM OverlapsAreExcused == JobsSpec => []OverlapsNeedLostLocks
<1>1. JobsInv => OverlapsNeedLostLocks
  BY DEF JobsInv, Holding, OverlapsNeedLostLocks
<1> QED
  BY <1>1, JobsInvariant, PTL

-----------------------------------------------------------------------------
(***************************************************************************)
(* The installation, for any users, runs of a seed script and requests of  *)
(* administrators, and any of the permissions.                             *)
(***************************************************************************)
\* The demo gives in nineteen sections, the production script in one.
LEMMA GrantsCount ==
  DOMAIN DemoGrants = 1..19 /\ Len(DemoGrants) = 19 /\ DOMAIN ProductionGrants = 1..1
BY DEF DemoGrants, ProductionGrants

\* Section i of the grants.
GiveSection(i) == [do |-> "give", roles |-> DemoGrants[i].roles, perms |-> DemoGrants[i].perms]

\* A function on 1..n is a sequence of length n.
LEMMA AsSeq ==
  ASSUME NEW S, NEW n \in Nat, NEW s \in [1..n -> S]
  PROVE  s \in Seq(S) /\ Len(s) = n
<1>1. s \in Seq(S)
  BY SeqDef
<1>2. Len(s) \in Nat /\ DOMAIN s = 1..Len(s) /\ DOMAIN s = 1..n
  BY <1>1, LenProperties
<1>3. \A i, j \in Nat : 1..i = 1..j => i = j
  <2> SUFFICES ASSUME NEW i \in Nat, NEW j \in Nat, 1..i = 1..j, i # j PROVE FALSE
    OBVIOUS
  <2>1. i + 1 \notin 1..i /\ j + 1 \notin 1..j
    OBVIOUS
  <2>2. i < j => i + 1 \in 1..j
    OBVIOUS
  <2>3. j < i => j + 1 \in 1..i
    OBVIOUS
  <2> QED
    BY <2>1, <2>2, <2>3
<1> QED
  BY <1>1, <1>2, <1>3

\* A list of n members of S; and one that another follows.
Lists(s, n, S) == s \in [1..n -> S]
Chain(u, s, n, t, m) == (\A i \in 1..n : u[i] = s[i]) /\ \A i \in 1..m : u[n + i] = t[i]

\* What follows what in two lists joined.
LEMMA Joined ==
  ASSUME NEW S, NEW s, NEW t, NEW n \in Nat, NEW m \in Nat, Lists(s, n, S), Lists(t, m, S)
  PROVE  Lists(s \o t, n + m, S) /\ Len(s \o t) = n + m /\ Chain(s \o t, s, n, t, m)
<1> USE DEF Lists
<1>1. s \in Seq(S) /\ Len(s) = n /\ t \in Seq(S) /\ Len(t) = m
  BY AsSeq
<1>2. /\ s \o t \in Seq(S) /\ Len(s \o t) = n + m
      /\ \A i \in 1..(n + m) : (s \o t)[i] = IF i <= n THEN s[i] ELSE t[i - n]
  <2>1. /\ s \o t \in Seq(S)
        /\ Len(s \o t) = Len(s) + Len(t)
        /\ \A i \in 1 .. Len(s) + Len(t) : (s \o t)[i] =
                IF i <= Len(s) THEN s[i] ELSE t[i - Len(s)]
    BY <1>1, ConcatProperties
  <2> QED
    BY <1>1, <2>1
<1>3. s \o t \in [1..n + m -> S]
  BY <1>2, LenProperties
<1>4. \A i \in 1..n : (s \o t)[i] = s[i]
  <2> TAKE i \in 1..n
  <2>1. i \in 1..(n + m) /\ i <= n
    OBVIOUS
  <2> QED
    BY <1>2, <2>1
<1>5. \A i \in 1..m : (s \o t)[n + i] = t[i]
  <2> TAKE i \in 1..m
  <2>1. n + i \in 1..(n + m) /\ ~(n + i <= n) /\ (n + i) - n = i
    OBVIOUS
  <2> QED
    BY <1>2, <2>1
<1> QED
  BY <1>2, <1>3, <1>4, <1>5 DEF Chain

\* The sections of the demo's script.
LEMMA DemoSections ==
  /\ Len(DemoScript) = 23
  /\ DemoScript[1] = Adds(Generic) /\ DemoScript[2] = Adds(ReportDomains)
  /\ DemoScript[3] = Section("list")
  /\ \A i \in 1..19 : DemoScript[3 + i] = GiveSection(i)
  /\ DemoScript[23] = Section("users")
<1> DEFINE S == {Adds(Generic), Adds(ReportDomains), Section("list"), Section("users")}
                  \cup {GiveSection(i) : i \in 1..19}
<1> DEFINE a == <<Adds(Generic), Adds(ReportDomains), Section("list")>>
           b == Giving(DemoGrants)
           c == <<Section("users")>>
<1>1. b = [i \in 1..19 |-> GiveSection(i)]
  BY GrantsCount DEF Giving, GiveSection
<1>2. a \in [1..3 -> S] /\ c \in [1..1 -> S] /\ b \in [1..19 -> S]
  BY <1>1
<1>3. /\ a[1] = Adds(Generic) /\ a[2] = Adds(ReportDomains) /\ a[3] = Section("list")
      /\ c[1] = Section("users")
      /\ \A i \in 1..19 : b[i] = GiveSection(i)
  BY <1>1
<1>4. DemoScript = (a \o b) \o c
  BY DEF DemoScript
<1> HIDE DEF a, b, c, S
<1>5. /\ a \o b \in [1..22 -> S]
      /\ \A i \in 1..3 : (a \o b)[i] = a[i]
      /\ \A i \in 1..19 : (a \o b)[3 + i] = b[i]
  <2>1. Lists(a, 3, S) /\ Lists(b, 19, S) /\ 3 \in Nat /\ 19 \in Nat
    BY <1>2 DEF Lists
  <2>2. /\ Lists(a \o b, 3 + 19, S) /\ Len(a \o b) = 3 + 19
        /\ Chain(a \o b, a, 3, b, 19)
    BY <2>1, Joined, Zenon
  <2>3. 3 + 19 = 22
    OBVIOUS
  <2>4. Lists(a \o b, 22, S) /\ Len(a \o b) = 22
    BY <2>2, <2>3, Zenon
  <2>5. /\ \A i \in 1..3 : (a \o b)[i] = a[i]
        /\ \A i \in 1..19 : (a \o b)[3 + i] = b[i]
    BY <2>2, Zenon DEF Chain
  <2> QED
    BY <2>4, <2>5, Zenon DEF Lists
<1>6. /\ Len((a \o b) \o c) = 23
      /\ \A i \in 1..22 : ((a \o b) \o c)[i] = (a \o b)[i]
      /\ \A i \in 1..1 : ((a \o b) \o c)[22 + i] = c[i]
  <2>1. Lists((a \o b), 22, S) /\ Lists(c, 1, S) /\ 22 \in Nat /\ 1 \in Nat
    BY <1>2, <1>5 DEF Lists
  <2>2. /\ Lists((a \o b) \o c, 22 + 1, S) /\ Len((a \o b) \o c) = 22 + 1
        /\ Chain((a \o b) \o c, (a \o b), 22, c, 1)
    BY <2>1, Joined, Zenon
  <2>3. 22 + 1 = 23
    OBVIOUS
  <2>4. Lists((a \o b) \o c, 23, S) /\ Len((a \o b) \o c) = 23
    BY <2>2, <2>3, Zenon
  <2>5. /\ \A i \in 1..22 : ((a \o b) \o c)[i] = (a \o b)[i]
        /\ \A i \in 1..1 : ((a \o b) \o c)[22 + i] = c[i]
    BY <2>2, Zenon DEF Chain
  <2> QED
    BY <2>4, <2>5, Zenon DEF Lists
<1>7. \A i \in 1..19 : DemoScript[3 + i] = GiveSection(i)
  <2> TAKE i \in 1..19
  <2>1. 3 + i \in 1..22
    OBVIOUS
  <2> QED
    BY <2>1, <1>3, <1>4, <1>5, <1>6
<1>8. {1, 2, 3} \subseteq 1..22 /\ {1, 2, 3} \subseteq 1..3 /\ 1 \in 1..1 /\ 22 + 1 = 23
  OBVIOUS
<1>9. /\ DemoScript[1] = a[1] /\ DemoScript[2] = a[2] /\ DemoScript[3] = a[3]
      /\ DemoScript[22 + 1] = c[1]
  BY <1>4, <1>5, <1>6, <1>8
<1> QED
  BY <1>3, <1>4, <1>6, <1>7, <1>8, <1>9

\* The sections of the production script.
LEMMA ProductionSections ==
  /\ Len(ProductionScript) = 9
  /\ ProductionScript[1] = Finds("organization")
  /\ ProductionScript[2] = Creates("organization")
  /\ ProductionScript[3] = Adds(Generic) /\ ProductionScript[4] = Adds(ReportDomains)
  /\ ProductionScript[5] = Section("list")
  /\ ProductionScript[6].do = "give"
  /\ ProductionScript[7] = Finds("employee") /\ ProductionScript[8] = Creates("employee")
  /\ ProductionScript[9] = Section("users")
<1> DEFINE a == <<Finds("organization"), Creates("organization"), Adds(Generic),
                  Adds(ReportDomains), Section("list")>>
           b == Giving(ProductionGrants)
           c == <<Finds("employee"), Creates("employee"), Section("users")>>
           S == {a[i] : i \in 1..5} \cup {b[1]} \cup {c[i] : i \in 1..3}
<1>1. b \in [1..1 -> S] /\ b[1].do = "give"
  BY GrantsCount DEF Giving
<1>2. a \in [1..5 -> S]
  <2>1. a = [i \in 1..5 |-> a[i]]
    OBVIOUS
  <2> HIDE DEF a, b, c
  <2> QED
    BY <2>1
<1>3. c \in [1..3 -> S]
  <2>1. c = [i \in 1..3 |-> c[i]]
    OBVIOUS
  <2> HIDE DEF a, b, c
  <2> QED
    BY <2>1
<1>4. /\ a[1] = Finds("organization") /\ a[2] = Creates("organization")
      /\ a[3] = Adds(Generic) /\ a[4] = Adds(ReportDomains) /\ a[5] = Section("list")
      /\ c[1] = Finds("employee") /\ c[2] = Creates("employee") /\ c[3] = Section("users")
  OBVIOUS
<1>5. ProductionScript = (a \o b) \o c
  BY DEF ProductionScript
<1> HIDE DEF a, b, c, S
<1>6. /\ a \o b \in [1..6 -> S]
      /\ \A i \in 1..5 : (a \o b)[i] = a[i]
      /\ \A i \in 1..1 : (a \o b)[5 + i] = b[i]
  <2>1. Lists(a, 5, S) /\ Lists(b, 1, S) /\ 5 \in Nat /\ 1 \in Nat
    BY <1>1, <1>2 DEF Lists
  <2>2. /\ Lists(a \o b, 5 + 1, S) /\ Len(a \o b) = 5 + 1
        /\ Chain(a \o b, a, 5, b, 1)
    BY <2>1, Joined, Zenon
  <2>3. 5 + 1 = 6
    OBVIOUS
  <2>4. Lists(a \o b, 6, S) /\ Len(a \o b) = 6
    BY <2>2, <2>3, Zenon
  <2>5. /\ \A i \in 1..5 : (a \o b)[i] = a[i]
        /\ \A i \in 1..1 : (a \o b)[5 + i] = b[i]
    BY <2>2, Zenon DEF Chain
  <2> QED
    BY <2>4, <2>5, Zenon DEF Lists
<1>7. /\ Len((a \o b) \o c) = 9
      /\ \A i \in 1..6 : ((a \o b) \o c)[i] = (a \o b)[i]
      /\ \A i \in 1..3 : ((a \o b) \o c)[6 + i] = c[i]
  <2>1. Lists((a \o b), 6, S) /\ Lists(c, 3, S) /\ 6 \in Nat /\ 3 \in Nat
    BY <1>3, <1>6 DEF Lists
  <2>2. /\ Lists((a \o b) \o c, 6 + 3, S) /\ Len((a \o b) \o c) = 6 + 3
        /\ Chain((a \o b) \o c, (a \o b), 6, c, 3)
    BY <2>1, Joined, Zenon
  <2>3. 6 + 3 = 9
    OBVIOUS
  <2>4. Lists((a \o b) \o c, 9, S) /\ Len((a \o b) \o c) = 9
    BY <2>2, <2>3, Zenon
  <2>5. /\ \A i \in 1..6 : ((a \o b) \o c)[i] = (a \o b)[i]
        /\ \A i \in 1..3 : ((a \o b) \o c)[6 + i] = c[i]
    BY <2>2, Zenon DEF Chain
  <2> QED
    BY <2>4, <2>5, Zenon DEF Lists
<1>8. /\ \A i \in 1..5 : ProductionScript[i] = a[i]
      /\ ProductionScript[5 + 1] = b[1]
      /\ \A i \in 1..3 : ProductionScript[6 + i] = c[i]
  <2>1. \A i \in 1..5 : i \in 1..6
    OBVIOUS
  <2>2. 5 + 1 \in 1..6 /\ 1 \in 1..1
    OBVIOUS
  <2> QED
    BY <1>5, <1>6, <1>7, <2>1, <2>2
<1>9. /\ ProductionScript[1] = a[1] /\ ProductionScript[2] = a[2] /\ ProductionScript[3] = a[3]
      /\ ProductionScript[4] = a[4] /\ ProductionScript[5] = a[5] /\ ProductionScript[6] = b[1]
      /\ ProductionScript[7] = c[1] /\ ProductionScript[8] = c[2] /\ ProductionScript[9] = c[3]
  BY <1>8
<1> QED
  BY <1>1, <1>4, <1>5, <1>7, <1>9

-----------------------------------------------------------------------------
\* The types, and the invariant: rows that are there once, users with one role and one
\* landing application, and what the demo's script has given.
Row == {"organization", "employee"}

RunState == [at: Nat, all: SUBSET Known, org: Counted, found: BOOLEAN,
             meanwhile: SUBSET Role]
RoleRequest == [op: {"role"}, user: Member, role: Role, saw: SUBSET Role]
AppRequest == [op: {"landing"}, user: Member, app: Apps]

SeedTypeOK ==
  /\ script \in {"demo", "production"}
  /\ seeding \in [Runner -> RunState]
  /\ \A r \in Runner : seeding[r].at <= Len(Script)
  /\ finished \in BOOLEAN /\ known \subseteq Known /\ held \in [Role -> SUBSET Known]
  /\ rows \in [Counted -> Counted] /\ raced \subseteq Counted

PeopleTypeOK ==
  /\ roles \in [Member -> SUBSET Role]
  /\ app \in [Member -> [Apps -> {"none", "granted", "landing"}]]
  /\ DOMAIN asked = Admin
  /\ \A d \in Admin : asked[d] \in {NoRequest} \cup RoleRequest \cup AppRequest
  /\ edited \subseteq Role /\ crossed \subseteq Member

InstallationTypeOK == SeedTypeOK /\ PeopleTypeOK

\* Run r has looked for the row, and creates it if it found none.
Creating(r, row) == At(r, "create") /\ Now(r) = Creates(row)

\* Of rows that nobody looked for while another was about to create one there is one
\* at most, and only one run is about to create one, if there is none.
RowsInv ==
  \A n \in Counted \ raced :
    /\ rows[n] <= 1
    /\ \A r \in Creators(n) : rows[n] = 0 /\ \A q \in Creators(n) : q = r

\* The user has one role and one landing application; one request of a kind is under
\* way for them, which has seen the role, or ended the landing.
Alone(u) ==
  /\ \A o, p \in roles[u] : o = p
  /\ \A a, b \in Landing(u) : a = b
  /\ \A d \in Admin : asked[d] # NoRequest /\ asked[d].user = u =>
       /\ asked[d].op = "role" => roles[u] \subseteq asked[d].saw
       /\ asked[d].op = "landing" => Landing(u) = {}
       /\ Others(d, asked[d].op, u) = {}

\* So it is with a user whom no two wrote at the same time.
PeopleInv == \A u \in Member \ crossed : Alone(u)

\* Section i of the demo's grants is given, but for what was taken from the roles
\* except: of that, what the Roles screen does not show stays.
Given(i, holds, except) ==
  \A o \in DemoGrants[i].roles :
    LET perms == DemoGrants[i].perms \cap Known
    IN  perms \ Matrix \subseteq holds[o] /\ (o \notin except => perms \subseteq holds[o])

\* What a run of the demo's script that has come so far has done.
GivenBy(r) ==
  /\ seeding[r].at > 1 => Known \cap Generic \subseteq known
  /\ seeding[r].at > 2 => Known \subseteq known
  /\ seeding[r].at > 3 => seeding[r].all = Known
  /\ \A i \in DOMAIN DemoGrants :
       seeding[r].at > i + 3 => Given(i, held, seeding[r].meanwhile)
  /\ ~finished => seeding[r].meanwhile \subseteq edited

GivenInTheEnd == finished => \A i \in DOMAIN DemoGrants : Given(i, held, edited)

GrantsInv == script = "demo" => (\A r \in Runner : GivenBy(r)) /\ GivenInTheEnd

InstallationInv == InstallationTypeOK /\ RowsInv /\ PeopleInv /\ GrantsInv

-----------------------------------------------------------------------------
\* A script creates a row only in the section after the one that looks for it.
LEMMA ScriptSections ==
  ASSUME script \in {"demo", "production"}
  PROVE  /\ Len(Script) \in Nat /\ Len(Script) > 1
         /\ \A i \in 1..Len(Script) :
              /\ Script[i].do = "create" =>
                   /\ i > 1
                   /\ \E row \in Row : Script[i] = Creates(row) /\ Script[i - 1] = Finds(row)
              /\ Script[i].do = "find" =>
                   i < Len(Script) /\ \E row \in Row : Script[i] = Finds(row)
<1>1. CASE script = "demo"
  <2>1. Script = DemoScript
    BY <1>1 DEF Script
  <2>2. \A i \in 1..23 : DemoScript[i].do \notin {"create", "find"}
    <3> TAKE i \in 1..23
    <3>1. i \in 1..3 \/ i = 23 \/ \E j \in 1..19 : i = 3 + j
      <4>1. i \in 4..22 => i - 3 \in 1..19 /\ i = 3 + (i - 3)
        OBVIOUS
      <4> QED
        BY <4>1
    <3>2. \A j \in 1..19 : DemoScript[3 + j].do = "give"
      BY DemoSections DEF GiveSection
    <3>3. i \in 1..3 => DemoScript[i].do \in {"add", "list"}
      BY DemoSections DEF Adds, Section
    <3>4. i = 23 => DemoScript[i].do = "users"
      BY DemoSections DEF Section
    <3> QED
      BY <3>1, <3>2, <3>3, <3>4
  <2> QED
    BY <2>1, <2>2, DemoSections
<1>2. CASE script = "production"
  <2>1. Script = ProductionScript
    BY <1>2 DEF Script
  <2> DEFINE P == ProductionScript
  <2>2. /\ Len(P) = 9
        /\ P[1] = Finds("organization") /\ P[2] = Creates("organization")
        /\ P[3].do = "add" /\ P[4].do = "add" /\ P[5].do = "list" /\ P[6].do = "give"
        /\ P[7] = Finds("employee") /\ P[8] = Creates("employee") /\ P[9].do = "users"
    BY ProductionSections DEF Adds, Section
  <2>3. \A row : Finds(row).do = "find" /\ Creates(row).do = "create"
    BY DEF Finds, Creates
  <2> HIDE DEF P
  <2>4. \A i \in 1..9 : P[i].do = "create" => i = 2 \/ i = 8
    BY <2>2, <2>3
  <2>5. \A i \in 1..9 : P[i].do = "find" => i = 1 \/ i = 7
    BY <2>2, <2>3
  <2>6. 2 - 1 = 1 /\ 8 - 1 = 7 /\ 1 < 9 /\ 7 < 9 /\ 2 > 1 /\ 8 > 1
    OBVIOUS
  <2>7. "organization" \in Row /\ "employee" \in Row
    BY DEF Row
  <2>8. \A i \in 1..9 : P[i].do = "create" =>
          i > 1 /\ \E row \in Row : P[i] = Creates(row) /\ P[i - 1] = Finds(row)
    BY <2>2, <2>4, <2>6, <2>7
  <2>9. \A i \in 1..9 : P[i].do = "find" => i < 9 /\ \E row \in Row : P[i] = Finds(row)
    BY <2>2, <2>5, <2>6, <2>7
  <2> QED
    BY <2>1, <2>2, <2>8, <2>9 DEF P
<1> QED
  BY <1>1, <1>2

\* Sections that look for or create a row tell which.
LEMMA RowsApart ==
  ASSUME NEW row, NEW other, Creates(row) = Creates(other) \/ Finds(row) = Finds(other)
  PROVE  row = other
BY DEF Creates, Finds

\* Where a run of the demo is, by what it does there.
LEMMA DemoAt ==
  ASSUME SeedTypeOK, script = "demo", NEW r \in Runner
  PROVE  /\ At(r, "add") => \/ seeding[r].at = 1 /\ Now(r).perms = Generic
                            \/ seeding[r].at = 2 /\ Now(r).perms = ReportDomains
         /\ At(r, "list") => seeding[r].at = 3
         /\ At(r, "give") =>
              \E i \in DOMAIN DemoGrants : /\ seeding[r].at = 3 + i
                                           /\ Now(r).roles = DemoGrants[i].roles
                                           /\ Now(r).perms = DemoGrants[i].perms
         /\ At(r, "users") => seeding[r].at = 23
         /\ ~At(r, "find") /\ ~At(r, "create")
         /\ Len(Script) = 23
<1>1. Script = DemoScript
  BY DEF Script
<1>2. PICK i \in Nat : seeding[r].at = i
  BY DEF SeedTypeOK, RunState
<1>3. i <= 23
  BY <1>1, <1>2, DemoSections DEF SeedTypeOK
<1>4. SUFFICES ASSUME i > 0 PROVE
         /\ At(r, "add") => \/ i = 1 /\ Now(r).perms = Generic
                            \/ i = 2 /\ Now(r).perms = ReportDomains
         /\ At(r, "list") => i = 3
         /\ At(r, "give") => \E j \in 1..19 : /\ i = 3 + j
                                              /\ Now(r).roles = DemoGrants[j].roles
                                              /\ Now(r).perms = DemoGrants[j].perms
         /\ At(r, "users") => i = 23
         /\ ~At(r, "find") /\ ~At(r, "create")
  BY <1>1, <1>2, <1>3, DemoSections, GrantsCount DEF At
<1>5. i = 1 \/ i = 2 \/ i = 3 \/ i = 23 \/ \E j \in 1..19 : i = 3 + j
  <2>1. i \in 4..22 => i - 3 \in 1..19 /\ i = 3 + (i - 3)
    OBVIOUS
  <2> QED
    BY <2>1, <1>3, <1>4
<1>6. Now(r) = DemoScript[i]
  BY <1>1, <1>2 DEF Now
<1>7. CASE i = 1
  BY <1>6, <1>7, DemoSections DEF At, Adds
<1>8. CASE i = 2
  BY <1>6, <1>8, DemoSections DEF At, Adds
<1>9. CASE i = 3
  BY <1>6, <1>9, DemoSections DEF At, Section
<1>10. CASE i = 23
  BY <1>6, <1>10, DemoSections DEF At, Section
<1>11. CASE \E j \in 1..19 : i = 3 + j
  <2>1. PICK j \in 1..19 : i = 3 + j
    BY <1>11
  <2>2. Now(r) = GiveSection(j)
    BY <2>1, <1>6, DemoSections
  <2>3. /\ Now(r).do = "give" /\ Now(r).roles = DemoGrants[j].roles
        /\ Now(r).perms = DemoGrants[j].perms
    BY <2>2 DEF GiveSection
  <2> QED
    BY <2>1, <2>3 DEF At
<1> QED
  BY <1>5, <1>7, <1>8, <1>9, <1>10, <1>11

\* The installation is counted for.
LEMMA WholeCounted == Whole \in Counted /\ Counted \subseteq Nat
BY InstallationAssumption DEF Whole, Counted

\* What a run looks for, or creates, is counted.
LEMMA OfCounted ==
  ASSUME SeedTypeOK, NEW r \in Runner
  PROVE  Of(r) \in Counted
BY WholeCounted DEF Of, SeedTypeOK, RunState

\* A run goes on to the next section, or comes to its end.
LEMMA GoesOn ==
  ASSUME SeedTypeOK, NEW r \in Runner, seeding[r].at > 0,
         NEW left \in RunState, left.at = seeding[r].at, Goes(r, left), script' = script
  PROVE  /\ seeding' \in [Runner -> RunState]
         /\ \A q \in Runner : seeding'[q].at <= Len(Script')
         /\ \A q \in Runner \ {r} : seeding'[q] = seeding[q]
         /\ \/ /\ seeding[r].at < Len(Script)
               /\ seeding'[r] = [left EXCEPT !.at = seeding[r].at + 1]
               /\ finished' = finished /\ edited' = edited
            \/ /\ seeding[r].at = Len(Script)
               /\ seeding'[r] = NotRunning
               /\ finished' = TRUE
               /\ edited' = edited \cap seeding[r].meanwhile
<1>1. Script' = Script
  BY DEF Script, DemoScript, ProductionScript
<1>2. Len(Script) \in Nat
  BY ScriptSections DEF SeedTypeOK
<1>3. PICK i \in Nat : seeding[r].at = i
  BY DEF SeedTypeOK, RunState
<1>4. i <= Len(Script)
  BY <1>3 DEF SeedTypeOK
<1>5. NotRunning \in RunState /\ NotRunning.at = 0
  BY WholeCounted DEF NotRunning, RunState
<1>6. PICK on \in RunState : on = [left EXCEPT !.at = i + 1] /\ on.at = i + 1
  <2>1. i + 1 \in Nat
    OBVIOUS
  <2>2. [left EXCEPT !.at = i + 1] \in RunState /\ [left EXCEPT !.at = i + 1].at = i + 1
    BY <2>1 DEF RunState
  <2> QED
    BY <2>2
<1>7. [left EXCEPT !.at = @ + 1] = on
  BY <1>3, <1>6
<1>8. seeding \in [Runner -> RunState] /\ \A q \in Runner : seeding[q].at <= Len(Script)
  BY DEF SeedTypeOK
<1>9. CASE i < Len(Script)
  <2>1. seeding' = [seeding EXCEPT ![r] = on] /\ finished' = finished /\ edited' = edited
    BY <1>3, <1>7, <1>9 DEF Goes
  <2>2. seeding' \in [Runner -> RunState] /\ seeding'[r] = on
        /\ \A q \in Runner \ {r} : seeding'[q] = seeding[q]
    BY <2>1, <1>8
  <2>3. on.at <= Len(Script)
    BY <1>2, <1>6, <1>9
  <2> QED
    BY <1>1, <1>3, <1>6, <1>8, <1>9, <2>1, <2>2, <2>3
<1>10. CASE ~(i < Len(Script))
  <2>1. seeding' = [seeding EXCEPT ![r] = NotRunning] /\ finished' = TRUE
        /\ edited' = edited \cap seeding[r].meanwhile
    BY <1>3, <1>10 DEF Goes
  <2>2. seeding' \in [Runner -> RunState] /\ seeding'[r] = NotRunning
        /\ \A q \in Runner \ {r} : seeding'[q] = seeding[q]
    BY <2>1, <1>5, <1>8
  <2>3. NotRunning.at <= Len(Script) /\ i = Len(Script)
    BY <1>2, <1>4, <1>5, <1>10
  <2> QED
    BY <1>1, <1>3, <1>8, <2>1, <2>2, <2>3
<1> QED
  BY <1>9, <1>10

\* A run does what its section says.
Progresses(r) ==
  \/ AddPermissions(r) \/ ListPermissions(r) \/ GivePermissions(r)
  \/ FindRow(r) \/ CreateRow(r) \/ SeedUsers(r)

\* What is left of a run that looked for a row: it found one, or there is none.
FoundFor(r, left) == left.found \/ (rows[Of(r)] = 0 /\ left.org = seeding[r].org)

\* What a section leaves of the run.
LEMMA Progress ==
  ASSUME SeedTypeOK, NEW r \in Runner, Progresses(r)
  PROVE  /\ script' = script /\ asked' = asked
         /\ seeding[r].at \in 1..Len(Script)
         /\ seeding' \in [Runner -> RunState]
         /\ \A q \in Runner : seeding'[q].at <= Len(Script')
         /\ \A q \in Runner \ {r} : seeding'[q] = seeding[q]
         /\ \/ /\ seeding[r].at < Len(Script)
               /\ seeding'[r].at = seeding[r].at + 1
               /\ seeding'[r].meanwhile = seeding[r].meanwhile
               /\ At(r, "list") => seeding'[r].all = known
               /\ ~At(r, "list") => seeding'[r].all = seeding[r].all
               /\ At(r, "find") => FoundFor(r, seeding'[r])
               /\ finished' = finished /\ edited' = edited
            \/ /\ seeding[r].at = Len(Script)
               /\ seeding'[r] = NotRunning
               /\ finished' = TRUE
               /\ edited' = edited \cap seeding[r].meanwhile
<1>1. /\ seeding[r] \in RunState /\ seeding[r].at \in Nat
      /\ seeding[r].at <= Len(Script) /\ Len(Script) \in Nat
  BY ScriptSections DEF SeedTypeOK, RunState
<1>2. script' = script /\ asked' = asked /\ seeding[r].at > 0
  BY DEF Progresses, AddPermissions, ListPermissions, GivePermissions, FindRow, CreateRow,
     SeedUsers, At, userVars
<1>3. \E left \in RunState :
        /\ Goes(r, left)
        /\ left.at = seeding[r].at /\ left.meanwhile = seeding[r].meanwhile
        /\ At(r, "list") => left.all = known
        /\ ~At(r, "list") => left.all = seeding[r].all
        /\ At(r, "find") => FoundFor(r, left)
  <2>1. CASE AddPermissions(r) \/ GivePermissions(r) \/ SeedUsers(r)
    BY <1>1, <2>1 DEF AddPermissions, GivePermissions, SeedUsers, At
  <2>2. CASE ListPermissions(r)
    <3>1. PICK left : left = [seeding[r] EXCEPT !.all = known]
      OBVIOUS
    <3>2. /\ left \in RunState /\ left.at = seeding[r].at
          /\ left.meanwhile = seeding[r].meanwhile /\ left.all = known
      BY <1>1, <3>1 DEF RunState, SeedTypeOK
    <3>3. Goes(r, left)
      BY <2>2, <3>1 DEF ListPermissions
    <3>4. At(r, "list") /\ ~At(r, "find")
      BY <2>2 DEF ListPermissions, At
    <3> QED
      BY <3>2, <3>3, <3>4
  <2>3. CASE FindRow(r)
    <3> DEFINE vain == [seeding[r] EXCEPT !.found = FALSE]
               here == [seeding[r] EXCEPT !.found = TRUE]
               in(n) == [seeding[r] EXCEPT !.found = TRUE, !.org = n]
    <3>1. /\ vain \in RunState /\ vain.at = seeding[r].at
          /\ vain.meanwhile = seeding[r].meanwhile
          /\ vain.all = seeding[r].all /\ vain.org = seeding[r].org
          /\ here \in RunState /\ here.at = seeding[r].at
          /\ here.meanwhile = seeding[r].meanwhile
          /\ here.all = seeding[r].all /\ here.found
      BY <1>1 DEF RunState
    <3>2. \A n \in Counted : /\ in(n) \in RunState /\ in(n).at = seeding[r].at
                             /\ in(n).meanwhile = seeding[r].meanwhile
                             /\ in(n).all = seeding[r].all /\ in(n).found
      BY <1>1 DEF RunState
    <3>3. \A n \in 1..rows[Whole] : n \in Counted
      <4>1. rows[Whole] \in Counted
        BY WholeCounted DEF SeedTypeOK
      <4> QED
        BY <4>1, InstallationAssumption DEF Counted, Whole
    <3>4. \/ rows[Of(r)] = 0 /\ Goes(r, vain)
          \/ Goes(r, here)
          \/ \E n \in 1..rows[Whole] : Goes(r, in(n))
      BY <2>3, Zenon DEF FindRow
    <3>5. At(r, "find") /\ ~At(r, "list")
      BY <2>3 DEF FindRow, At
    <3> HIDE DEF vain, here, in
    <3> QED
      BY <3>1, <3>2, <3>3, <3>4, <3>5 DEF FoundFor
  <2>4. CASE CreateRow(r)
    <3> DEFINE made == [seeding[r] EXCEPT !.org = rows[Whole] + 1]
    <3>1. ~At(r, "find") /\ ~At(r, "list")
      BY <2>4 DEF CreateRow, At
    <3>2. CASE ~seeding[r].found /\ Of(r) = Whole
      <4>1. rows[Whole] + 1 \in Counted
        <5>1. rows[Whole] \in Counted /\ rows[Whole] < MaxRows
          BY <2>4, <3>2, WholeCounted DEF CreateRow, SeedTypeOK
        <5> QED
          BY <5>1, InstallationAssumption DEF Counted, Whole
      <4>2. /\ made \in RunState /\ made.at = seeding[r].at
            /\ made.meanwhile = seeding[r].meanwhile /\ made.all = seeding[r].all
        BY <1>1, <4>1 DEF RunState
      <4>3. Goes(r, made)
        BY <2>4, <3>2 DEF CreateRow, Created
      <4> HIDE DEF made
      <4> QED
        BY <3>1, <4>2, <4>3
    <3>3. CASE ~(~seeding[r].found /\ Of(r) = Whole)
      <4>1. Goes(r, seeding[r])
        BY <2>4, <3>3 DEF CreateRow, Created
      <4> QED
        BY <1>1, <3>1, <4>1
    <3> QED
      BY <3>2, <3>3
  <2> QED
    BY <2>1, <2>2, <2>3, <2>4 DEF Progresses
<1>4. PICK left \in RunState :
        /\ Goes(r, left)
        /\ left.at = seeding[r].at /\ left.meanwhile = seeding[r].meanwhile
        /\ At(r, "list") => left.all = known
        /\ ~At(r, "list") => left.all = seeding[r].all
        /\ At(r, "find") => FoundFor(r, left)
  BY <1>3
<1>5. /\ seeding' \in [Runner -> RunState]
      /\ \A q \in Runner : seeding'[q].at <= Len(Script')
      /\ \A q \in Runner \ {r} : seeding'[q] = seeding[q]
      /\ \/ /\ seeding[r].at < Len(Script)
            /\ seeding'[r] = [left EXCEPT !.at = seeding[r].at + 1]
            /\ finished' = finished /\ edited' = edited
         \/ /\ seeding[r].at = Len(Script)
            /\ seeding'[r] = NotRunning
            /\ finished' = TRUE
            /\ edited' = edited \cap seeding[r].meanwhile
  BY <1>2, <1>4, GoesOn
<1>6. ASSUME seeding'[r] = [left EXCEPT !.at = seeding[r].at + 1]
      PROVE  /\ seeding'[r].at = seeding[r].at + 1
             /\ seeding'[r].meanwhile = left.meanwhile
             /\ seeding'[r].all = left.all
             /\ seeding'[r].found = left.found
             /\ seeding'[r].org = left.org
  BY <1>6 DEF RunState
<1>7. ASSUME seeding[r].at < Len(Script),
             seeding'[r] = [left EXCEPT !.at = seeding[r].at + 1],
             finished' = finished /\ edited' = edited
      PROVE  /\ seeding'[r].at = seeding[r].at + 1
             /\ seeding'[r].meanwhile = seeding[r].meanwhile
             /\ At(r, "list") => seeding'[r].all = known
             /\ ~At(r, "list") => seeding'[r].all = seeding[r].all
             /\ At(r, "find") => FoundFor(r, seeding'[r])
  BY <1>4, <1>6, <1>7, Zenon DEF FoundFor
<1>8. seeding[r].at \in 1..Len(Script)
  BY <1>1, <1>2
<1> QED
  BY <1>2, <1>5, <1>7, <1>8, Zenon

\* A type-correct installation stays so.
LEMMA InstallationTypeStep ==
  ASSUME InstallationTypeOK, [InstallationNext]_installationVars
  PROVE  InstallationTypeOK'
<1> USE InstallationAssumption
<1>1. /\ SeedTypeOK /\ PeopleTypeOK
      /\ seeding \in [Runner -> RunState]
      /\ held \in [Role -> SUBSET Known] /\ known \subseteq Known
      /\ rows \in [Counted -> Counted] /\ raced \subseteq Counted
      /\ roles \in [Member -> SUBSET Role]
      /\ app \in [Member -> [Apps -> {"none", "granted", "landing"}]]
      /\ edited \subseteq Role /\ crossed \subseteq Member
  BY DEF InstallationTypeOK, SeedTypeOK, PeopleTypeOK
<1>2. ASSUME script' = script PROVE Script' = Script
  BY <1>2 DEF Script
<1>3. CASE UNCHANGED installationVars
  BY <1>1, <1>3, <1>2 DEF installationVars, seedVars, userVars, InstallationTypeOK, SeedTypeOK,
     PeopleTypeOK
<1>4. ASSUME NEW r \in Runner, StartRun(r) \/ RunDies(r)
      PROVE  InstallationTypeOK'
  <2>1. script' = script /\ Script' = Script
    BY <1>2, <1>4 DEF StartRun, RunDies
  <2>2. Len(Script) \in Nat /\ Len(Script) > 1
    BY <1>1, ScriptSections DEF SeedTypeOK
  <2>3. [seeding[r] EXCEPT !.at = 1] \in RunState /\ NotRunning \in RunState
        /\ [seeding[r] EXCEPT !.at = 1].at = 1 /\ NotRunning.at = 0
    BY <1>1, WholeCounted DEF RunState, NotRunning
  <2>4. PICK new \in RunState : seeding' = [seeding EXCEPT ![r] = new] /\ new.at \in {0, 1}
    BY <1>4, <2>3 DEF StartRun, RunDies
  <2>5. seeding' \in [Runner -> RunState] /\ \A q \in Runner : seeding'[q].at <= Len(Script')
    BY <1>1, <2>1, <2>2, <2>4 DEF SeedTypeOK
  <2> QED
    BY <1>1, <1>4, <2>1, <2>5 DEF StartRun, RunDies, userVars, InstallationTypeOK, SeedTypeOK,
       PeopleTypeOK
<1>5. ASSUME NEW r \in Runner, Progresses(r)
      PROVE  /\ script' = script /\ asked' = asked /\ seeding' \in [Runner -> RunState]
             /\ \A q \in Runner : seeding'[q].at <= Len(Script')
             /\ finished' \in BOOLEAN /\ edited' \subseteq Role
  BY <1>1, <1>5, Progress DEF SeedTypeOK
<1>6. ASSUME NEW r \in Runner, AddPermissions(r) \/ ListPermissions(r)
      PROVE  InstallationTypeOK'
  <2>1. Progresses(r)
    BY <1>6 DEF Progresses
  <2>2. known' \subseteq Known /\ UNCHANGED <<held, rows, raced, roles, app, asked, crossed>>
    BY <1>1, <1>6 DEF AddPermissions, ListPermissions, userVars
  <2> QED
    BY <1>1, <1>5, <2>1, <2>2 DEF InstallationTypeOK, SeedTypeOK, PeopleTypeOK
<1>7. ASSUME NEW r \in Runner, GivePermissions(r)
      PROVE  InstallationTypeOK'
  <2>1. Progresses(r)
    BY <1>7 DEF Progresses
  <2>2. UNCHANGED <<known, rows, raced, roles, app, asked, crossed>>
    BY <1>7 DEF GivePermissions, userVars
  <2>3. seeding[r].all \subseteq Known
    BY <1>1 DEF RunState
  <2>4. held' \in [Role -> SUBSET Known]
    BY <1>1, <1>7, <2>3 DEF GivePermissions
  <2> QED
    BY <1>1, <1>5, <2>1, <2>2, <2>4 DEF InstallationTypeOK, SeedTypeOK, PeopleTypeOK
<1>8. ASSUME NEW r \in Runner, FindRow(r)
      PROVE  InstallationTypeOK'
  <2>1. Progresses(r) /\ seeding[r].at \in 1..Len(Script)
    BY <1>1, <1>8, Progress DEF Progresses
  <2>2. UNCHANGED <<known, held, rows, roles, app, asked, crossed>>
    BY <1>8 DEF FindRow, userVars
  <2>3. raced' \subseteq Counted
    BY <1>1, <1>8, OfCounted DEF FindRow
  <2> QED
    BY <1>1, <1>5, <2>1, <2>2, <2>3 DEF InstallationTypeOK, SeedTypeOK, PeopleTypeOK
<1>9. ASSUME NEW r \in Runner, CreateRow(r)
      PROVE  InstallationTypeOK'
  <2>1. Progresses(r)
    BY <1>9 DEF Progresses
  <2>2. UNCHANGED <<known, held, raced, roles, app, asked, crossed>>
    BY <1>9 DEF CreateRow, userVars
  <2>3. rows' \in [Counted -> Counted]
    <3>1. PICK n \in Counted : n = Of(r)
      BY <1>1, OfCounted
    <3>2. rows[n] \in Counted /\ (~seeding[r].found => rows[n] < MaxRows)
      BY <1>1, <1>9, <3>1 DEF CreateRow
    <3>3. ~seeding[r].found => rows[n] + 1 \in Counted
      BY <3>2 DEF Counted, Whole
    <3>4. rows' = [rows EXCEPT ![n] = IF seeding[r].found THEN rows[n] ELSE rows[n] + 1]
      BY <1>9, <3>1 DEF CreateRow
    <3> QED
      BY <1>1, <3>2, <3>3, <3>4
  <2> QED
    BY <1>1, <1>5, <2>1, <2>2, <2>3 DEF InstallationTypeOK, SeedTypeOK, PeopleTypeOK
<1>10. ASSUME NEW r \in Runner, SeedUsers(r)
      PROVE  InstallationTypeOK'
  <2>1. Progresses(r)
    BY <1>10 DEF Progresses
  <2>2. UNCHANGED <<known, held, rows, raced, asked>>
    BY <1>10 DEF SeedUsers
  <2>3. roles' \in [Member -> SUBSET Role]
    BY <1>1, <1>10 DEF SeedUsers
  <2>4. \A u \in Member, a \in Apps : SeededApp(u, a) \in {"none", "granted", "landing"}
    BY <1>1 DEF SeededApp
  <2>5. app' \in [Member -> [Apps -> {"none", "granted", "landing"}]]
    BY <1>1, <1>10, <2>4 DEF SeedUsers
  <2>6. crossed' \subseteq Member
    BY <1>1, <1>10 DEF SeedUsers, SeededBy, SeededUsers
  <2> QED
    BY <1>1, <1>5, <2>1, <2>2, <2>3, <2>5, <2>6 DEF InstallationTypeOK, SeedTypeOK, PeopleTypeOK
<1>11. ASSUME NEW o \in Role, NEW keys \in SUBSET (Matrix \cap Known), UpdatePermissions(o, keys)
       PROVE  InstallationTypeOK'
  <2>1. /\ script' = script /\ Script' = Script
        /\ UNCHANGED <<finished, known, rows, raced, roles, app, asked, crossed>>
        /\ edited' \subseteq Role
    BY <1>1, <1>2, <1>11 DEF UpdatePermissions, userVars
  <2>2. held' \in [Role -> SUBSET Known]
    BY <1>1, <1>11 DEF UpdatePermissions
  <2>3. \A r \in Runner : /\ [seeding[r] EXCEPT !.meanwhile = @ \cup {o}] \in RunState
                          /\ [seeding[r] EXCEPT !.meanwhile = @ \cup {o}].at = seeding[r].at
    BY <1>1 DEF RunState
  <2>4. \A r \in Runner : seeding'[r] \in RunState /\ seeding'[r].at = seeding[r].at
    BY <1>1, <1>11, <2>3 DEF UpdatePermissions
  <2>5. seeding' \in [Runner -> RunState] /\ \A q \in Runner : seeding'[q].at <= Len(Script')
    BY <1>1, <1>11, <2>1, <2>4 DEF UpdatePermissions, SeedTypeOK
  <2> QED
    BY <1>1, <2>1, <2>2, <2>5 DEF InstallationTypeOK, SeedTypeOK, PeopleTypeOK
<1>12. ASSUME UNCHANGED <<script, seedVars>>, PeopleTypeOK' PROVE InstallationTypeOK'
  BY <1>1, <1>2, <1>12 DEF InstallationTypeOK, SeedTypeOK, seedVars
<1>13. ASSUME NEW d \in Admin, UpdatedUser(d) \/ GrantLanding(d) \/ RequestDies(d)
       PROVE  InstallationTypeOK'
  <2>1. UNCHANGED <<script, seedVars, edited, crossed>>
    BY <1>13 DEF UpdatedUser, GrantLanding, RequestDies
  <2>2. asked[d] \in RoleRequest \/ asked[d] \in AppRequest
    BY <1>1, <1>13 DEF PeopleTypeOK, UpdatedUser, GrantLanding, RequestDies, NoRequest
  <2>3. roles' \in [Member -> SUBSET Role]
    BY <1>1, <1>13, <2>2 DEF UpdatedUser, GrantLanding, RequestDies, RoleRequest, AppRequest
  <2>4. app' \in [Member -> [Apps -> {"none", "granted", "landing"}]]
    <3>1. CASE app' = app
      BY <1>1, <3>1
    <3>2. CASE GrantLanding(d)
      <4>1. asked[d] \in AppRequest
        BY <2>2, <3>2 DEF GrantLanding, RoleRequest
      <4>2. PICK u \in Member, a \in Apps : asked[d].user = u /\ asked[d].app = a
        BY <4>1 DEF AppRequest
      <4>3. app' = [app EXCEPT ![u][a] = "landing"]
        BY <3>2, <4>2 DEF GrantLanding
      <4> QED
        BY <1>1, <4>3
    <3> QED
      BY <1>13, <3>1, <3>2 DEF UpdatedUser, RequestDies
  <2>5. asked' = [asked EXCEPT ![d] = NoRequest]
    BY <1>13 DEF UpdatedUser, GrantLanding, RequestDies
  <2> QED
    BY <1>1, <1>12, <2>1, <2>3, <2>4, <2>5 DEF PeopleTypeOK
<1>14. ASSUME NEW d \in Admin, NEW u \in Member, NEW o \in Role, UpdateUser(d, u, o)
       PROVE  InstallationTypeOK'
  <2>1. [op |-> "role", user |-> u, role |-> o, saw |-> roles[u]] \in RoleRequest
    BY <1>1 DEF RoleRequest
  <2>2. crossed' \subseteq Member
    BY <1>1, <1>14 DEF UpdateUser, Crosses
  <2> QED
    BY <1>1, <1>12, <1>14, <2>1, <2>2 DEF UpdateUser, PeopleTypeOK
<1>15. ASSUME NEW d \in Admin, NEW u \in Member, NEW a \in Apps, ClearLanding(d, u, a)
       PROVE  InstallationTypeOK'
  <2>1. [op |-> "landing", user |-> u, app |-> a] \in AppRequest
    BY DEF AppRequest
  <2>2. crossed' \subseteq Member
    BY <1>1, <1>15 DEF ClearLanding, Crosses
  <2>3. app' \in [Member -> [Apps -> {"none", "granted", "landing"}]]
    BY <1>1, <1>15 DEF ClearLanding
  <2> QED
    BY <1>1, <1>12, <1>15, <2>1, <2>2, <2>3 DEF ClearLanding, PeopleTypeOK
<1>16. ASSUME NEW u \in Member, NEW a \in Apps, Grant(u, a) \/ Revoke(u, a)
       PROVE  InstallationTypeOK'
  <2>1. app' \in [Member -> [Apps -> {"none", "granted", "landing"}]]
    <3>1. PICK w \in {"none", "granted"} : app' = [app EXCEPT ![u][a] = w]
      BY <1>16 DEF Grant, Revoke
    <3> QED
      BY <1>1, <3>1
  <2> QED
    BY <1>1, <1>12, <1>16, <2>1 DEF Grant, Revoke, PeopleTypeOK
<1> QED
  BY <1>3, <1>4, <1>6, <1>7, <1>8, <1>9, <1>10, <1>11, <1>13, <1>14, <1>15, <1>16
     DEF InstallationNext, RunStep, UserStep

\* While rows stay and nobody is new about to create one, what is said of them does.
LEMMA RowsStay ==
  ASSUME RowsInv, rows' = rows, raced \subseteq raced',
         \A n \in Counted : Creators(n)' \subseteq Creators(n)
  PROVE  RowsInv'
<1> SUFFICES ASSUME NEW n \in Counted \ raced'
             PROVE  /\ rows'[n] <= 1
                    /\ \A r \in Creators(n)' : rows'[n] = 0 /\ \A q \in Creators(n)' : q = r
  BY DEF RowsInv
<1>1. n \in Counted \ raced /\ Creators(n)' \subseteq Creators(n)
  OBVIOUS
<1> QED
  BY <1>1 DEF RowsInv

\* A run about to create a row is under way.
LEMMA CreatingIsRunning ==
  ASSUME NEW r, NEW row, Creating(r, row)' PROVE seeding'[r] # NotRunning
<1>1. ~(NotRunning.at > 0)
  BY DEF NotRunning
<1>2. seeding'[r].at > 0
  BY DEF Creating, At
<1> QED
  BY <1>1, <1>2

\* A run is about to create a row only after it has looked for it.
LEMMA CreatesAfterFinding ==
  ASSUME SeedTypeOK, NEW r \in Runner, Progresses(r), NEW q \in Runner, NEW row \in Row,
         Creating(q, row)'
  PROVE  \/ q # r /\ Creating(q, row) /\ seeding'[q] = seeding[q]
         \/ q = r /\ At(r, "find") /\ Now(r) = Finds(row)
<1>1. Script' = Script
  BY Progress DEF Script
<1>2. Len(Script) \in Nat /\ seeding[r].at \in 1..Len(Script) /\ Len(Script) = Len(Script)
  BY Progress, ScriptSections DEF SeedTypeOK
<1>3. CASE q # r
  <2>1. seeding'[q] = seeding[q]
    BY <1>3, Progress
  <2> QED
    BY <1>1, <1>3, <2>1 DEF Creating, At, Now
<1>4. CASE q = r
  <2>1. seeding[r].at < Len(Script) /\ seeding'[r].at = seeding[r].at + 1
    <3>1. seeding'[r] # NotRunning
      BY <1>4, CreatingIsRunning
    <3> QED
      BY <3>1, Progress
  <2>2. PICK i \in 1..Len(Script) : i = seeding[r].at + 1 /\ i - 1 = seeding[r].at
    BY <1>2, <2>1
  <2>3. Script[i].do = "create" /\ Script[i] = Creates(row)
    BY <1>1, <1>4, <2>1, <2>2 DEF Creating, At, Now
  <2>4. PICK other \in Row : Script[i] = Creates(other) /\ Script[i - 1] = Finds(other)
    BY <2>3, ScriptSections DEF SeedTypeOK
  <2>5. other = row
    BY <2>3, <2>4, RowsApart
  <2>6. Now(r) = Finds(row)
    BY <2>2, <2>4, <2>5 DEF Now
  <2>7. At(r, "find")
    BY <1>2, <2>6 DEF At, Finds
  <2> QED
    BY <1>4, <2>6, <2>7
<1> QED
  BY <1>3, <1>4

\* A run is about to create a row only if it was before or has looked in vain.
LEMMA NewCreators ==
  ASSUME SeedTypeOK, NEW r \in Runner, Progresses(r), NEW n \in Counted, NEW q \in Creators(n)'
  PROVE  \/ q # r /\ q \in Creators(n)
         \/ q = r /\ At(r, "find") /\ n = Of(r) /\ rows[n] = 0
<1>1. /\ q \in Runner /\ At(q, "create")' /\ Of(q)' = n /\ ~seeding'[q].found
  BY DEF Creators
<1>2. Script' = Script /\ script' = script
  BY Progress DEF Script
<1>3. seeding'[q].at \in 1..Len(Script)
  <2>1. /\ seeding'[q].at \in Nat /\ seeding'[q].at <= Len(Script) /\ seeding'[q].at > 0
        /\ Len(Script) \in Nat
    BY <1>1, <1>2, Progress, ScriptSections DEF At, SeedTypeOK, RunState
  <2> QED
    BY <2>1
<1>4. PICK row \in Row : Now(q)' = Creates(row)
  BY <1>1, <1>2, <1>3, ScriptSections DEF At, Now, SeedTypeOK
<1>5. Creating(q, row)'
  BY <1>1, <1>4 DEF Creating
<1>6. CASE q # r
  <2>1. Creating(q, row) /\ seeding'[q] = seeding[q]
    BY <1>1, <1>5, <1>6, CreatesAfterFinding
  <2>2. Now(q)' = Now(q)
    BY <1>2, <2>1 DEF Now
  <2> QED
    BY <1>1, <1>6, <2>1, <2>2 DEF Creators, Creating, Of
<1>7. CASE q = r
  <2>1. At(r, "find") /\ Now(r) = Finds(row)
    BY <1>1, <1>5, <1>7, CreatesAfterFinding
  <2>2. seeding'[r] # NotRunning
    BY <1>5, <1>7, CreatingIsRunning
  <2>3. rows[Of(r)] = 0 /\ seeding'[r].org = seeding[r].org
    BY <1>1, <1>7, <2>1, <2>2, Progress DEF FoundFor
  <2>4. Now(r).row = row /\ Now(r)'.row = row
    BY <1>4, <1>7, <2>1 DEF Finds, Creates
  <2>5. n = Of(r)
    BY <1>1, <1>7, <2>3, <2>4 DEF Of
  <2> QED
    BY <1>7, <2>1, <2>3, <2>5
<1> QED
  BY <1>6, <1>7

\* Every step keeps what is said of rows.
LEMMA RowsStep ==
  ASSUME InstallationTypeOK, RowsInv, [InstallationNext]_installationVars
  PROVE  RowsInv'
<1>1. SeedTypeOK /\ rows \in [Counted -> Counted] /\ seeding \in [Runner -> RunState]
  BY DEF InstallationTypeOK, SeedTypeOK
<1>2. ASSUME script' = script, rows' = rows, raced' = raced,
             \A q \in Runner : \/ seeding'[q].at = seeding[q].at
                                /\ seeding'[q].org = seeding[q].org
                                /\ seeding'[q].found = seeding[q].found
                             \/ ~At(q, "create")'
      PROVE  RowsInv'
  <2>1. Script' = Script
    BY <1>2 DEF Script
  <2>2. ASSUME NEW n \in Counted, NEW q \in Creators(n)' PROVE q \in Creators(n)
    <3>1. q \in Runner /\ At(q, "create")' /\ Of(q)' = n /\ ~seeding'[q].found
      BY <2>2 DEF Creators
    <3>2. /\ seeding'[q].at = seeding[q].at /\ seeding'[q].org = seeding[q].org
          /\ seeding'[q].found = seeding[q].found
      BY <1>2, <3>1
    <3>3. Now(q)' = Now(q)
      BY <2>1, <3>2 DEF Now
    <3> QED
      BY <3>1, <3>2, <3>3 DEF Creators, At, Of
  <2> QED
    BY <1>2, <2>2, RowsStay
<1>3. CASE UNCHANGED installationVars
  BY <1>2, <1>3 DEF installationVars, seedVars
<1>4. ASSUME NEW r \in Runner, StartRun(r)
      PROVE  RowsInv'
  <2>1. script' = script /\ Script' = Script /\ rows' = rows /\ raced' = raced
        /\ seeding' = [seeding EXCEPT ![r] = [seeding[r] EXCEPT !.at = 1]]
    BY <1>4 DEF StartRun, Script
  <2>2. [seeding[r] EXCEPT !.at = 1].at = 1
    BY <1>1 DEF RunState
  <2>3. 1 \in 1..Len(Script) /\ ~(1 > 1)
    BY <1>1, ScriptSections DEF SeedTypeOK
  <2>4. Script[1].do # "create"
    BY <1>1, <2>3, ScriptSections DEF SeedTypeOK
  <2>5. ~At(r, "create")'
    BY <1>1, <2>1, <2>2, <2>4 DEF At, Now
  <2>6. \A q \in Runner \ {r} : seeding'[q] = seeding[q]
    BY <1>1, <2>1
  <2> QED
    BY <1>2, <2>1, <2>5, <2>6
<1>5. ASSUME NEW r \in Runner, RunDies(r)
      PROVE  RowsInv'
  <2>1. script' = script /\ rows' = rows /\ raced' = raced
        /\ seeding' = [seeding EXCEPT ![r] = NotRunning]
    BY <1>5 DEF RunDies
  <2>2. ~At(r, "create")'
    BY <1>1, <2>1 DEF At, NotRunning
  <2>3. \A q \in Runner \ {r} : seeding'[q] = seeding[q]
    BY <1>1, <2>1
  <2> QED
    BY <1>2, <2>1, <2>2, <2>3
<1>6. ASSUME NEW r \in Runner,
             AddPermissions(r) \/ ListPermissions(r) \/ GivePermissions(r) \/ SeedUsers(r)
      PROVE  RowsInv'
  <2>1. Progresses(r) /\ rows' = rows /\ raced' = raced
    BY <1>6 DEF Progresses, AddPermissions, ListPermissions, GivePermissions, SeedUsers
  <2>2. ~At(r, "find")
    BY <1>6 DEF AddPermissions, ListPermissions, GivePermissions, SeedUsers, At
  <2>3. \A n \in Counted : Creators(n)' \subseteq Creators(n)
    BY <1>1, <2>1, <2>2, NewCreators
  <2> QED
    BY <2>1, <2>3, RowsStay
<1>7. ASSUME NEW r \in Runner, FindRow(r)
      PROVE  RowsInv'
  <2>1. /\ Progresses(r) /\ At(r, "find") /\ rows' = rows
        /\ raced' = IF Creators(Of(r)) = {} THEN raced ELSE raced \cup {Of(r)}
    BY <1>7 DEF Progresses, FindRow
  <2>2. SUFFICES ASSUME NEW n \in Counted \ raced'
                 PROVE  /\ rows'[n] <= 1
                        /\ \A p \in Creators(n)' : rows'[n] = 0 /\ \A q \in Creators(n)' : q = p
    BY DEF RowsInv
  <2>3. n \notin raced /\ (n = Of(r) => Creators(n) = {})
    BY <2>1, <2>2
  <2>4. rows'[n] <= 1
    BY <2>1, <2>3 DEF RowsInv
  <2>5. CASE n = Of(r)
    <3>1. \A q \in Creators(n)' : q = r /\ rows[n] = 0
      BY <1>1, <2>1, <2>3, <2>5, NewCreators
    <3> QED
      BY <2>1, <2>4, <3>1
  <2>6. CASE n # Of(r)
    <3>1. Creators(n)' \subseteq Creators(n)
      BY <1>1, <2>1, <2>6, NewCreators
    <3> QED
      BY <2>1, <2>3, <2>4, <3>1 DEF RowsInv
  <2> QED
    BY <2>5, <2>6
<1>8. ASSUME NEW r \in Runner, CreateRow(r)
      PROVE  RowsInv'
  <2>1. Progresses(r) /\ At(r, "create") /\ raced' = raced
    BY <1>8 DEF Progresses, CreateRow
  <2>2. PICK made \in Counted : made = Of(r)
    BY <1>1, OfCounted
  <2>3. rows' = [rows EXCEPT ![made] = IF seeding[r].found THEN rows[made] ELSE rows[made] + 1]
    BY <1>8, <2>2 DEF CreateRow
  <2>4. ~At(r, "find")
    BY <2>1 DEF At
  <2>5. \A n \in Counted : \A q \in Creators(n)' : q # r /\ q \in Creators(n)
    BY <1>1, <2>1, <2>4, NewCreators
  <2>6. CASE seeding[r].found
    <3>1. rows' = rows
      BY <1>1, <2>3, <2>6
    <3> QED
      BY <2>1, <2>5, <3>1, RowsStay
  <2>7. CASE ~seeding[r].found
    <3>1. r \in Creators(made)
      BY <2>1, <2>2, <2>7 DEF Creators
    <3>2. ASSUME NEW n \in Counted \ raced, n # made
          PROVE  /\ rows'[n] <= 1
                 /\ \A p \in Creators(n)' : rows'[n] = 0 /\ \A q \in Creators(n)' : q = p
      <4>1. rows'[n] = rows[n]
        BY <1>1, <2>3, <3>2
      <4> QED
        BY <2>5, <3>2, <4>1 DEF RowsInv
    <3>3. ASSUME made \notin raced
          PROVE  rows'[made] <= 1 /\ Creators(made)' = {}
      <4>1. rows[made] = 0 /\ \A q \in Creators(made) : q = r
        BY <3>1, <3>3 DEF RowsInv
      <4>2. rows'[made] = 1
        BY <1>1, <2>3, <2>7, <4>1
      <4> QED
        BY <2>5, <4>1, <4>2
    <3> QED
      BY <2>1, <3>2, <3>3 DEF RowsInv
  <2> QED
    BY <2>6, <2>7
<1>9. ASSUME NEW o \in Role, NEW keys \in SUBSET (Matrix \cap Known), UpdatePermissions(o, keys)
      PROVE  RowsInv'
  <2>1. script' = script /\ rows' = rows /\ raced' = raced
    BY <1>9 DEF UpdatePermissions
  <2>2. \A r \in Runner :
          /\ [seeding[r] EXCEPT !.meanwhile = @ \cup {o}].at = seeding[r].at
          /\ [seeding[r] EXCEPT !.meanwhile = @ \cup {o}].org = seeding[r].org
          /\ [seeding[r] EXCEPT !.meanwhile = @ \cup {o}].found = seeding[r].found
    BY <1>1 DEF RunState
  <2>3. \A r \in Runner : /\ seeding'[r].at = seeding[r].at /\ seeding'[r].org = seeding[r].org
                          /\ seeding'[r].found = seeding[r].found
    BY <1>9, <2>2 DEF UpdatePermissions
  <2> QED
    BY <1>2, <2>1, <2>3
<1>10. CASE UserStep
  BY <1>2, <1>10 DEF UserStep, UpdatedUser, GrantLanding, RequestDies, UpdateUser, ClearLanding,
     Grant, Revoke, Crosses, seedVars
<1> QED
  BY <1>3, <1>4, <1>5, <1>6, <1>7, <1>8, <1>9, <1>10 DEF InstallationNext, RunStep

\* A user stays alone while nothing but the end of a request or of a landing befalls them.
LEMMA AloneStays ==
  ASSUME PeopleTypeOK, NEW u \in Member, Alone(u), roles'[u] = roles[u],
         Landing(u)' \subseteq Landing(u),
         \A d \in Admin : asked'[d] = asked[d] \/ asked'[d] = NoRequest
  PROVE  Alone(u)'
<1>1. \A d \in Admin : asked'[d] # NoRequest => asked'[d] = asked[d]
  OBVIOUS
<1>2. NoRequest.op \notin {"role", "landing"}
  BY DEF NoRequest
<1>3. ASSUME NEW d \in Admin, asked'[d] # NoRequest /\ asked'[d].user = u
      PROVE  /\ asked'[d].op = "role" => roles'[u] \subseteq asked'[d].saw
             /\ asked'[d].op = "landing" => Landing(u)' = {}
             /\ {o \in Admin \ {d} : asked'[o].op = asked'[d].op /\ asked'[o].user = u} = {}
  <2>1. asked'[d] = asked[d] /\ asked[d] # NoRequest /\ asked[d].user = u
    BY <1>1, <1>3
  <2>2. /\ asked[d].op = "role" => roles[u] \subseteq asked[d].saw
        /\ asked[d].op = "landing" => Landing(u) = {}
        /\ {o \in Admin \ {d} : asked[o].op = asked[d].op /\ asked[o].user = u} = {}
    BY <2>1 DEF Alone, Others
  <2>3. asked[d].op \in {"role", "landing"}
    BY <2>1 DEF PeopleTypeOK, RoleRequest, AppRequest
  <2>4. \A o \in Admin : asked'[o].op = asked[d].op => asked'[o] = asked[o]
    BY <1>1, <1>2, <2>3
  <2> QED
    BY <2>1, <2>2, <2>4
<1> QED
  BY <1>3 DEF Alone, Others

\* Every step keeps what is said of users.
LEMMA PeopleStep ==
  ASSUME InstallationTypeOK, PeopleInv, [InstallationNext]_installationVars
  PROVE  PeopleInv'
<1>1. /\ SeedTypeOK /\ PeopleTypeOK
      /\ roles \in [Member -> SUBSET Role]
      /\ app \in [Member -> [Apps -> {"none", "granted", "landing"}]]
      /\ \A d \in Admin : asked[d] \in {NoRequest} \cup RoleRequest \cup AppRequest
      /\ DOMAIN asked = Admin
  BY DEF InstallationTypeOK, PeopleTypeOK
<1>2. NoRequest.op \notin {"role", "landing"}
  BY DEF NoRequest
<1>3. \A u \in Member \ crossed : Alone(u)
  BY DEF PeopleInv
<1>4. SUFFICES \A u \in Member \ crossed' : Alone(u)'
  BY DEF PeopleInv
<1>5. ASSUME crossed \subseteq crossed', roles' = roles, app' = app, asked' = asked
      PROVE  \A u \in Member \ crossed' : Alone(u)'
  BY <1>1, <1>3, <1>5, AloneStays DEF Landing
<1>6. CASE UNCHANGED installationVars
  BY <1>5, <1>6 DEF installationVars, userVars
<1>7. ASSUME NEW r \in Runner,
             \/ StartRun(r) \/ AddPermissions(r) \/ ListPermissions(r) \/ GivePermissions(r)
             \/ FindRow(r) \/ CreateRow(r) \/ RunDies(r)
      PROVE  \A u \in Member \ crossed' : Alone(u)'
  BY <1>5, <1>7 DEF StartRun, AddPermissions, ListPermissions, GivePermissions, FindRow,
     CreateRow,
     RunDies, userVars
<1>8. ASSUME NEW o \in Role, NEW keys \in SUBSET (Matrix \cap Known), UpdatePermissions(o, keys)
      PROVE  \A u \in Member \ crossed' : Alone(u)'
  BY <1>5, <1>8 DEF UpdatePermissions, userVars
<1>9. ASSUME NEW r \in Runner, SeedUsers(r), NEW u \in Member \ crossed'
      PROVE  Alone(u)'
  <2>1. u \in Member \ crossed /\ asked' = asked /\ ~(u \in SeededBy(r) /\ ChangedSince(u))
    BY <1>9 DEF SeedUsers
  <2>2. /\ roles'[u] = roles[u] \cup ({u} \cap SeededBy(r))
        /\ app'[u] = IF u \in SeededBy(r) THEN [a \in Apps |-> SeededApp(u, a)] ELSE app[u]
    BY <1>9, <2>1 DEF SeedUsers
  <2>3. CASE u \notin SeededBy(r)
    <3>1. roles'[u] = roles[u] /\ app'[u] = app[u]
      BY <2>2, <2>3
    <3>2. Landing(u)' \subseteq Landing(u)
      BY <3>1 DEF Landing
    <3> QED
      BY <1>1, <1>3, <2>1, <3>1, <3>2, AloneStays
  <2>4. CASE u \in SeededBy(r)
    <3>1. /\ \A o \in roles[u] : o = u
          /\ \A a \in Landing(u) : SeededApps(u) # <<>> => a = Head(SeededApps(u))
          /\ \A d \in Admin : asked[d] = NoRequest \/ asked[d].user # u
      BY <2>1, <2>4 DEF ChangedSince
    <3>2. \A o \in roles'[u] : o = u
      BY <2>2, <3>1
    <3>3. \A a \in Apps : app'[u][a] = SeededApp(u, a)
      BY <2>2, <2>4
    <3>4. PICK seeded : seeded = SeededApps(u)
      OBVIOUS
    <3>5. ASSUME NEW a \in Apps, app'[u][a] = "landing"
          PROVE  a \in Landing(u) \/ a = Head(seeded)
      <4>1. SeededApp(u, a) = "landing"
        BY <3>3, <3>5
      <4>2. CASE app[u][a] = "landing"
        BY <4>2 DEF Landing
      <4>3. CASE app[u][a] # "landing"
        BY <3>4, <4>1, <4>3 DEF SeededApp
      <4> QED
        BY <4>2, <4>3
    <3>6. ASSUME NEW a \in Landing(u)', NEW b \in Landing(u)' PROVE a = b
      <4>1. a \in Apps /\ b \in Apps /\ app'[u][a] = "landing" /\ app'[u][b] = "landing"
        BY <3>6 DEF Landing
      <4>2. CASE seeded = <<>>
        <5>1. DOMAIN seeded = {}
          BY <4>2
        <5>2. \A c \in Apps : SeededApp(u, c) = app[u][c]
          BY <3>4, <5>1 DEF SeededApp
        <5>3. a \in Landing(u) /\ b \in Landing(u)
          BY <3>3, <4>1, <5>2 DEF Landing
        <5> QED
          BY <1>3, <2>1, <5>3 DEF Alone
      <4>3. CASE seeded # <<>>
        BY <3>1, <3>4, <3>5, <4>1, <4>3
      <4> QED
        BY <4>2, <4>3
    <3>7. \A o, p \in roles'[u] : o = p
      BY <3>2
    <3> QED
      BY <2>1, <3>1, <3>6, <3>7 DEF Alone
  <2> QED
    BY <2>3, <2>4
<1>10. ASSUME NEW d \in Admin, NEW v \in Member, NEW o \in Role, UpdateUser(d, v, o),
              NEW u \in Member \ crossed'
       PROVE  Alone(u)'
  <2>1. u \in Member \ crossed /\ roles' = roles /\ app' = app /\ asked[d] = NoRequest
        /\ crossed' = crossed \cup {v : p \in Others(d, "role", v)}
    BY <1>10 DEF UpdateUser, Crosses
  <2>2. PICK new : new = [op |-> "role", user |-> v, role |-> o, saw |-> roles[v]]
    OBVIOUS
  <2>3. new.op = "role" /\ new.user = v /\ new.saw = roles[v]
    BY <2>2
  <2>4. asked'[d] = new /\ \A p \in Admin \ {d} : asked'[p] = asked[p]
    BY <1>1, <1>10, <2>2 DEF UpdateUser
  <2>5. Landing(u)' = Landing(u)
    BY <2>1 DEF Landing
  <2>6. Alone(u)
    BY <1>3, <2>1
  <2>7. u = v => Others(d, "role", v) = {}
    BY <2>1, <1>10
  <2>8. ASSUME NEW p \in Admin, asked'[p] # NoRequest, asked'[p].user = u
        PROVE  /\ asked'[p].op = "role" => roles'[u] \subseteq asked'[p].saw
               /\ asked'[p].op = "landing" => Landing(u)' = {}
               /\ {q \in Admin \ {p} : asked'[q].op = asked'[p].op /\ asked'[q].user = u} = {}
    <3>1. CASE p = d
      <4>1. u = v /\ asked'[p] = new
        BY <2>3, <2>4, <2>8, <3>1
      <4>2. {q \in Admin \ {d} : asked[q].op = "role" /\ asked[q].user = u} = {}
        BY <2>7, <4>1 DEF Others
      <4> QED
        BY <2>1, <2>3, <2>4, <3>1, <4>1, <4>2
    <3>2. CASE p # d
      <4>1. asked'[p] = asked[p] /\ asked[p] # NoRequest /\ asked[p].user = u
        BY <2>4, <2>8, <3>2
      <4>2. /\ asked[p].op = "role" => roles[u] \subseteq asked[p].saw
            /\ asked[p].op = "landing" => Landing(u) = {}
            /\ {q \in Admin \ {p} : asked[q].op = asked[p].op /\ asked[q].user = u} = {}
        BY <2>6, <4>1 DEF Alone, Others
      <4>3. ~(asked'[d].op = asked[p].op /\ asked'[d].user = u)
        <5>1. SUFFICES ASSUME asked[p].op = "role", u = v PROVE FALSE
          BY <2>3, <2>4
        <5>2. p \in Others(d, "role", v)
          BY <3>2, <4>1, <5>1 DEF Others
        <5> QED
          BY <2>7, <5>1, <5>2
      <4> QED
        BY <2>1, <2>4, <2>5, <4>1, <4>2, <4>3
    <3> QED
      BY <3>1, <3>2
  <2> QED
    BY <2>1, <2>5, <2>6, <2>8 DEF Alone, Others
<1>11. ASSUME NEW d \in Admin, NEW v \in Member, NEW a \in Apps, ClearLanding(d, v, a),
              NEW u \in Member \ crossed'
       PROVE  Alone(u)'
  <2>1. u \in Member \ crossed /\ roles' = roles /\ asked[d] = NoRequest
        /\ crossed' = crossed \cup {v : p \in Others(d, "landing", v)}
    BY <1>11 DEF ClearLanding, Crosses
  <2>2. PICK new : new = [op |-> "landing", user |-> v, app |-> a]
    OBVIOUS
  <2>3. new.op = "landing" /\ new.user = v
    BY <2>2
  <2>4. asked'[d] = new /\ \A p \in Admin \ {d} : asked'[p] = asked[p]
    BY <1>1, <1>11, <2>2 DEF ClearLanding
  <2>5. Landing(u)' \subseteq Landing(u) /\ (u = v => Landing(u)' = {})
    <3>1. app' = [app EXCEPT ![v] = [b \in Apps |-> IF app[v][b] = "landing" THEN "granted"
                                                     ELSE app[v][b]]]
      BY <1>11 DEF ClearLanding
    <3>2. u # v => app'[u] = app[u]
      BY <1>1, <3>1
    <3>3. u = v => \A b \in Apps : app'[u][b] # "landing"
      BY <1>1, <3>1
    <3> QED
      BY <3>2, <3>3 DEF Landing
  <2>6. Alone(u)
    BY <1>3, <2>1
  <2>7. u = v => Others(d, "landing", v) = {}
    BY <2>1, <1>11
  <2>8. ASSUME NEW p \in Admin, asked'[p] # NoRequest, asked'[p].user = u
        PROVE  /\ asked'[p].op = "role" => roles'[u] \subseteq asked'[p].saw
               /\ asked'[p].op = "landing" => Landing(u)' = {}
               /\ {q \in Admin \ {p} : asked'[q].op = asked'[p].op /\ asked'[q].user = u} = {}
    <3>1. CASE p = d
      <4>1. u = v /\ asked'[p] = new
        BY <2>3, <2>4, <2>8, <3>1
      <4>2. {q \in Admin \ {d} : asked[q].op = "landing" /\ asked[q].user = u} = {}
        BY <2>7, <4>1 DEF Others
      <4> QED
        BY <2>1, <2>3, <2>4, <2>5, <3>1, <4>1, <4>2
    <3>2. CASE p # d
      <4>1. asked'[p] = asked[p] /\ asked[p] # NoRequest /\ asked[p].user = u
        BY <2>4, <2>8, <3>2
      <4>2. /\ asked[p].op = "role" => roles[u] \subseteq asked[p].saw
            /\ asked[p].op = "landing" => Landing(u) = {}
            /\ {q \in Admin \ {p} : asked[q].op = asked[p].op /\ asked[q].user = u} = {}
        BY <2>6, <4>1 DEF Alone, Others
      <4>3. ~(asked'[d].op = asked[p].op /\ asked'[d].user = u)
        <5>1. SUFFICES ASSUME asked[p].op = "landing", u = v PROVE FALSE
          BY <2>3, <2>4
        <5>2. p \in Others(d, "landing", v)
          BY <3>2, <4>1, <5>1 DEF Others
        <5> QED
          BY <2>7, <5>1, <5>2
      <4> QED
        BY <2>1, <2>4, <2>5, <4>1, <4>2, <4>3
    <3> QED
      BY <3>1, <3>2
  <2>9. \A b, c \in Landing(u)' : b = c
    BY <2>5, <2>6 DEF Alone
  <2> QED
    BY <2>1, <2>6, <2>8, <2>9 DEF Alone, Others
<1>12. ASSUME NEW d \in Admin, UpdatedUser(d), NEW u \in Member \ crossed'
       PROVE  Alone(u)'
  <2>1. asked[d] \in RoleRequest
    BY <1>1, <1>2, <1>12 DEF UpdatedUser, AppRequest
  <2>2. PICK v \in Member, o \in Role, saw \in SUBSET Role :
          asked[d].user = v /\ asked[d].role = o /\ asked[d].saw = saw
    BY <2>1 DEF RoleRequest
  <2>3. /\ roles' = [roles EXCEPT ![v] = (roles[v] \ saw) \cup {o}]
        /\ asked' = [asked EXCEPT ![d] = NoRequest] /\ app' = app /\ crossed' = crossed
        /\ asked[d].op = "role" /\ asked[d] # NoRequest
    BY <1>2, <1>12, <2>2 DEF UpdatedUser
  <2>4. Alone(u)
    BY <1>3, <1>12, <2>3
  <2>5. asked'[d] = NoRequest /\ \A p \in Admin \ {d} : asked'[p] = asked[p]
    BY <1>1, <2>3
  <2>6. Landing(u)' = Landing(u)
    BY <2>3 DEF Landing
  <2>7. CASE u # v
    <3>1. roles'[u] = roles[u]
      BY <1>1, <2>3, <2>7
    <3> QED
      BY <1>1, <2>4, <2>5, <2>6, <3>1, AloneStays
  <2>8. CASE u = v
    <3>1. /\ roles[u] \subseteq saw
          /\ {q \in Admin \ {d} : asked[q].op = "role" /\ asked[q].user = u} = {}
      BY <2>2, <2>3, <2>4, <2>8 DEF Alone, Others
    <3>2. roles'[u] = {o}
      BY <1>1, <2>3, <2>8, <3>1
    <3>3. ASSUME NEW p \in Admin, asked'[p] # NoRequest, asked'[p].user = u
          PROVE  /\ asked'[p].op = "role" => roles'[u] \subseteq asked'[p].saw
                 /\ asked'[p].op = "landing" => Landing(u)' = {}
                 /\ {q \in Admin \ {p} : asked'[q].op = asked'[p].op /\ asked'[q].user = u} = {}
      <4>1. p # d /\ asked'[p] = asked[p]
        BY <2>5, <3>3
      <4>2. asked[p].op # "role"
        BY <3>1, <3>3, <4>1
      <4>3. asked[p].op = "landing"
        BY <1>1, <3>3, <4>1, <4>2 DEF RoleRequest, AppRequest
      <4>4. /\ Landing(u) = {}
            /\ {q \in Admin \ {p} : asked[q].op = asked[p].op /\ asked[q].user = u} = {}
        BY <2>4, <3>3, <4>1, <4>3 DEF Alone, Others
      <4>5. asked'[d].op # asked'[p].op
        BY <1>2, <2>5, <4>1, <4>3
      <4> QED
        BY <2>5, <2>6, <4>1, <4>2, <4>4, <4>5
    <3>4. \A x, y \in roles'[u] : x = y
      BY <3>2
    <3> QED
      BY <2>4, <2>6, <3>3, <3>4 DEF Alone, Others
  <2> QED
    BY <2>7, <2>8
<1>13. ASSUME NEW d \in Admin, GrantLanding(d), NEW u \in Member \ crossed'
       PROVE  Alone(u)'
  <2>1. asked[d] \in AppRequest
    BY <1>1, <1>2, <1>13 DEF GrantLanding, RoleRequest
  <2>2. PICK v \in Member, a \in Apps : asked[d].user = v /\ asked[d].app = a
    BY <2>1 DEF AppRequest
  <2>3. /\ app' = [app EXCEPT ![v][a] = "landing"]
        /\ asked' = [asked EXCEPT ![d] = NoRequest] /\ roles' = roles /\ crossed' = crossed
        /\ asked[d].op = "landing" /\ asked[d] # NoRequest
    BY <1>2, <1>13, <2>2 DEF GrantLanding
  <2>4. Alone(u)
    BY <1>3, <1>13, <2>3
  <2>5. asked'[d] = NoRequest /\ \A p \in Admin \ {d} : asked'[p] = asked[p]
    BY <1>1, <2>3
  <2>6. CASE u # v
    <3>1. app'[u] = app[u]
      BY <1>1, <2>3, <2>6
    <3>2. Landing(u)' = Landing(u)
      BY <3>1 DEF Landing
    <3> QED
      BY <1>1, <2>3, <2>4, <2>5, <3>2, AloneStays
  <2>7. CASE u = v
    <3>1. /\ Landing(u) = {}
          /\ {q \in Admin \ {d} : asked[q].op = "landing" /\ asked[q].user = u} = {}
      BY <2>2, <2>3, <2>4, <2>7 DEF Alone, Others
    <3>2. Landing(u)' \subseteq {a}
      <4>1. \A b \in Apps \ {a} : app'[u][b] = app[u][b]
        BY <1>1, <2>3, <2>7
      <4> QED
        BY <3>1, <4>1 DEF Landing
    <3>3. ASSUME NEW p \in Admin, asked'[p] # NoRequest, asked'[p].user = u
          PROVE  /\ asked'[p].op = "role" => roles'[u] \subseteq asked'[p].saw
                 /\ asked'[p].op = "landing" => Landing(u)' = {}
                 /\ {q \in Admin \ {p} : asked'[q].op = asked'[p].op /\ asked'[q].user = u} = {}
      <4>1. p # d /\ asked'[p] = asked[p]
        BY <2>5, <3>3
      <4>2. asked[p].op # "landing"
        BY <3>1, <3>3, <4>1
      <4>3. asked[p].op = "role"
        BY <1>1, <3>3, <4>1, <4>2 DEF RoleRequest, AppRequest
      <4>4. /\ roles[u] \subseteq asked[p].saw
            /\ {q \in Admin \ {p} : asked[q].op = asked[p].op /\ asked[q].user = u} = {}
        BY <2>4, <3>3, <4>1, <4>3 DEF Alone, Others
      <4>5. asked'[d].op # asked'[p].op
        BY <1>2, <2>5, <4>1, <4>3
      <4> QED
        BY <2>3, <2>5, <4>1, <4>2, <4>4, <4>5
    <3>4. /\ \A x, y \in Landing(u)' : x = y
          /\ \A x, y \in roles'[u] : x = y
      BY <2>3, <2>4, <3>2 DEF Alone
    <3> QED
      BY <3>3, <3>4 DEF Alone, Others
  <2> QED
    BY <2>6, <2>7
<1>14. ASSUME NEW d \in Admin, RequestDies(d), NEW u \in Member \ crossed'
       PROVE  Alone(u)'
  <2>1. /\ asked' = [asked EXCEPT ![d] = NoRequest] /\ roles' = roles /\ app' = app
        /\ crossed' = crossed
    BY <1>14 DEF RequestDies
  <2>2. \A p \in Admin : asked'[p] = asked[p] \/ asked'[p] = NoRequest
    BY <1>1, <2>1
  <2>3. Landing(u)' \subseteq Landing(u) /\ roles'[u] = roles[u] /\ Alone(u)
    BY <1>3, <2>1 DEF Landing
  <2> QED
    BY <1>1, <2>2, <2>3, AloneStays
<1>15. ASSUME NEW v \in Member, NEW a \in Apps, Grant(v, a) \/ Revoke(v, a),
              NEW u \in Member \ crossed'
       PROVE  Alone(u)'
  <2>1. /\ asked' = asked /\ roles' = roles /\ crossed' = crossed
        /\ \E left \in {"granted", "none"} : app' = [app EXCEPT ![v][a] = left]
    BY <1>15 DEF Grant, Revoke
  <2>2. PICK left \in {"granted", "none"} : app' = [app EXCEPT ![v][a] = left]
    BY <2>1
  <2>3. \A b \in Apps : app'[u][b] = app[u][b] \/ app'[u][b] # "landing"
    BY <1>1, <2>2
  <2>4. Landing(u)' \subseteq Landing(u) /\ roles'[u] = roles[u] /\ Alone(u)
    BY <1>3, <2>1, <2>3 DEF Landing
  <2> QED
    BY <1>1, <2>1, <2>4, AloneStays
<1> QED
  BY <1>6, <1>7, <1>8, <1>9, <1>10, <1>11, <1>12, <1>13, <1>14, <1>15
     DEF InstallationNext, RunStep, UserStep

\* The demo gives to roles.
LEMMA RolesOfGrants == \A i \in DOMAIN DemoGrants : DemoGrants[i].roles \subseteq Role
BY DEF DemoGrants, GivesTo, Role, SharedRoles, WorkshopRoles, ShopManagers, ShopOperators,
   ShopTechnicians, Notified, ManagerOf

\* What is given stays so while roles hold what they held, and more are excepted.
LEMMA GivenStays ==
  ASSUME NEW i \in DOMAIN DemoGrants, NEW h, NEW g, NEW S, NEW T, Given(i, h, S), S \subseteq T,
         \A o \in Role : h[o] \subseteq g[o]
  PROVE  Given(i, g, T)
BY RolesOfGrants DEF Given

\* Nobody is excepted whom neither of two sets excepts.
LEMMA GivenBoth ==
  ASSUME NEW i, NEW h, NEW S, NEW T, Given(i, h, S), Given(i, h, T)
  PROVE  Given(i, h, S \cap T)
BY DEF Given

\* The screen takes away what it shows from a role, which is then excepted.
LEMMA GivenShown ==
  ASSUME NEW i \in DOMAIN DemoGrants, NEW h, NEW g, NEW o, NEW S, Given(i, h, S),
         \A p \in Role : h[p] \ Matrix \subseteq g[p] /\ (p # o => h[p] \subseteq g[p])
  PROVE  Given(i, g, S \cup {o})
BY RolesOfGrants DEF Given

\* Every step keeps what is given.
LEMMA GrantsStep ==
  ASSUME InstallationTypeOK, GrantsInv, [InstallationNext]_installationVars
  PROVE  GrantsInv'
<1>1. /\ SeedTypeOK /\ script' = script
      /\ seeding \in [Runner -> RunState] /\ held \in [Role -> SUBSET Known]
      /\ known \subseteq Known /\ edited \subseteq Role /\ finished \in BOOLEAN
  BY DEF InstallationTypeOK, SeedTypeOK, PeopleTypeOK, installationVars, InstallationNext,
     RunStep,
     UserStep, StartRun, AddPermissions, ListPermissions, GivePermissions, FindRow, CreateRow,
     SeedUsers, RunDies, UpdatePermissions, UpdatedUser, GrantLanding, RequestDies, UpdateUser,
     ClearLanding, Grant, Revoke
<1>2. SUFFICES ASSUME script = "demo", \A r \in Runner : GivenBy(r), GivenInTheEnd
               PROVE  (\A r \in Runner : GivenBy(r)') /\ GivenInTheEnd'
  BY <1>1 DEF GrantsInv
<1>3. ASSUME NEW q \in Runner, seeding'[q] = seeding[q], known \subseteq known',
             \A o \in Role : held[o] \subseteq held'[o],
             ~finished' => ~finished /\ edited' = edited
      PROVE  GivenBy(q)'
  BY <1>2, <1>3, GivenStays DEF GivenBy
<1>4. CASE UNCHANGED <<seeding, finished, known, held, edited>>
  BY <1>2, <1>3, <1>4 DEF GivenInTheEnd
<1>5. ASSUME NEW r \in Runner, StartRun(r) \/ RunDies(r)
      PROVE  (\A q \in Runner : GivenBy(q)') /\ GivenInTheEnd'
  <2>1. known' = known /\ held' = held /\ finished' = finished /\ edited' = edited
    BY <1>5 DEF StartRun, RunDies
  <2>2. /\ [seeding[r] EXCEPT !.at = 1].at = 1
        /\ [seeding[r] EXCEPT !.at = 1].meanwhile = seeding[r].meanwhile
        /\ NotRunning.at = 0 /\ NotRunning.meanwhile = {}
    BY <1>1 DEF RunState, NotRunning
  <2>3. /\ seeding'[r].at \in {0, 1}
        /\ seeding'[r].meanwhile \in {seeding[r].meanwhile, {}}
        /\ \A q \in Runner \ {r} : seeding'[q] = seeding[q]
    BY <1>1, <1>5, <2>2 DEF StartRun, RunDies
  <2>4. \A i \in DOMAIN DemoGrants : ~(0 > i + 3) /\ ~(1 > i + 3)
    BY GrantsCount
  <2>5. GivenBy(r)'
    BY <1>2, <2>1, <2>3, <2>4 DEF GivenBy
  <2> QED
    BY <1>2, <1>3, <2>1, <2>3, <2>5 DEF GivenInTheEnd
<1>6. ASSUME NEW r \in Runner, Progresses(r)
      PROVE  (\A q \in Runner : GivenBy(q)') /\ GivenInTheEnd'
  <2>1. /\ seeding[r].at \in 1..23
        /\ \A q \in Runner \ {r} : seeding'[q] = seeding[q]
        /\ \/ /\ seeding[r].at < 23
              /\ seeding'[r].at = seeding[r].at + 1
              /\ seeding'[r].meanwhile = seeding[r].meanwhile
              /\ At(r, "list") => seeding'[r].all = known
              /\ ~At(r, "list") => seeding'[r].all = seeding[r].all
              /\ finished' = finished /\ edited' = edited
           \/ /\ seeding[r].at = 23
              /\ seeding'[r] = NotRunning
              /\ finished' = TRUE
              /\ edited' = edited \cap seeding[r].meanwhile
    BY <1>1, <1>2, <1>6, Progress, DemoAt
  <2>2. GivenBy(r) /\ GivenInTheEnd
    BY <1>2
  <2>3. /\ known \subseteq known' /\ known' \subseteq Known
        /\ \A o \in Role : held[o] \subseteq held'[o]
    BY <1>1, <1>6 DEF Progresses, AddPermissions, ListPermissions, GivePermissions, FindRow,
       CreateRow, SeedUsers
  <2>4. \A q \in Runner \ {r} : GivenBy(q)'
    BY <1>1, <1>3, <2>1, <2>3
  <2>5. CASE seeding[r].at = 23
    <3>1. NotRunning.at = 0 /\ NotRunning.meanwhile = {}
      BY DEF NotRunning
    <3>2. \A i \in DOMAIN DemoGrants : 23 > i + 3 /\ ~(0 > i + 3)
      BY GrantsCount
    <3>3. seeding'[r] = NotRunning /\ finished' = TRUE /\ edited' = edited \cap seeding[r].meanwhile
      BY <2>1, <2>5
    <3>4. GivenBy(r)'
      BY <3>1, <3>2, <3>3 DEF GivenBy
    <3>5. ASSUME NEW i \in DOMAIN DemoGrants PROVE Given(i, held', edited')
      <4>1. Given(i, held, seeding[r].meanwhile)
        BY <2>2, <2>5, <3>2 DEF GivenBy
      <4>2. Given(i, held, edited \cap seeding[r].meanwhile)
        <5>1. CASE finished
          BY <2>2, <4>1, <5>1, GivenBoth DEF GivenInTheEnd
        <5>2. CASE ~finished
          <6>1. edited \cap seeding[r].meanwhile = seeding[r].meanwhile
            BY <2>2, <5>2 DEF GivenBy
          <6> QED
            BY <4>1, <6>1
        <5> QED
          BY <5>1, <5>2
      <4> QED
        BY <2>3, <3>3, <4>2, GivenStays
    <3> QED
      BY <2>4, <3>4, <3>5 DEF GivenInTheEnd
  <2>6. CASE seeding[r].at < 23
    <3>1. PICK at \in 1..22 : seeding[r].at = at
      BY <2>1, <2>6
    <3>2. /\ seeding'[r].at = at + 1
          /\ seeding'[r].meanwhile = seeding[r].meanwhile
          /\ At(r, "list") => seeding'[r].all = known
          /\ ~At(r, "list") => seeding'[r].all = seeding[r].all
          /\ finished' = finished /\ edited' = edited
      BY <2>1, <2>6, <3>1
    <3>3. GivenInTheEnd'
      BY <2>2, <2>3, <3>2, GivenStays DEF GivenInTheEnd
    <3>4. Now(r) = DemoScript[at]
      BY <1>2, <3>1 DEF Now, Script
    <3>5. at = 1 => Known \cap Generic \subseteq known'
      <4> HAVE at = 1
      <4>1. Now(r) = Adds(Generic)
        BY <3>4, DemoSections
      <4>2. Now(r).do = "add" /\ Now(r).perms = Generic
        BY <4>1 DEF Adds
      <4> QED
        BY <1>6, <4>2 DEF Progresses, AddPermissions, ListPermissions, GivePermissions, FindRow,
           CreateRow, SeedUsers, At
    <3>6. at = 2 => Known \subseteq known'
      <4> HAVE at = 2
      <4>1. Now(r) = Adds(ReportDomains)
        BY <3>4, DemoSections
      <4>2. Now(r).do = "add" /\ Now(r).perms = ReportDomains
        BY <4>1 DEF Adds
      <4>3. Known \cap ReportDomains \subseteq known'
        BY <1>6, <4>2 DEF Progresses, AddPermissions, ListPermissions, GivePermissions, FindRow,
           CreateRow, SeedUsers, At
      <4>4. Known \cap Generic \subseteq known
        BY <2>2, <3>1 DEF GivenBy
      <4> QED
        BY <2>3, <4>3, <4>4, InstallationAssumption
    <3>7. at + 1 > 1 => Known \cap Generic \subseteq known'
      BY <2>2, <2>3, <3>1, <3>5 DEF GivenBy
    <3>8. at + 1 > 2 => Known \subseteq known'
      BY <2>2, <2>3, <3>1, <3>6 DEF GivenBy
    <3>9. at + 1 > 3 => seeding'[r].all = Known
      <4>1. CASE at = 3
        <5>1. Now(r) = Section("list")
          BY <3>4, <4>1, DemoSections
        <5>2. At(r, "list")
          BY <3>1, <5>1 DEF At, Section
        <5>3. Known \subseteq known
          BY <2>2, <3>1, <4>1 DEF GivenBy
        <5> QED
          BY <1>1, <3>2, <5>2, <5>3
      <4>2. CASE at > 3
        <5>1. ~At(r, "list")
          BY <1>1, <1>2, <3>1, <4>2, DemoAt
        <5> QED
          BY <2>2, <3>1, <3>2, <4>2, <5>1 DEF GivenBy
      <4> QED
        BY <4>1, <4>2
    <3>10. ASSUME NEW i \in DOMAIN DemoGrants, at + 1 > i + 3
           PROVE  Given(i, held', seeding[r].meanwhile)
      <4>1. CASE at > i + 3
        <5>1. Given(i, held, seeding[r].meanwhile)
          BY <2>2, <3>1, <4>1 DEF GivenBy
        <5> QED
          BY <2>3, <5>1, GivenStays
      <4>2. CASE ~(at > i + 3)
        <5>1. at = 3 + i /\ i \in 1..19
          BY <3>10, <4>2, GrantsCount
        <5>2. Now(r) = GiveSection(i)
          BY <3>4, <5>1, DemoSections
        <5>3. /\ Now(r).do = "give" /\ Now(r).roles = DemoGrants[i].roles
              /\ Now(r).perms = DemoGrants[i].perms
          BY <5>2 DEF GiveSection
        <5>4. seeding[r].all = Known
          BY <2>2, <3>1, <5>1 DEF GivenBy
        <5>7. GivePermissions(r) /\ Followed(r)
          BY <1>2, <1>6, <5>3 DEF Progresses, AddPermissions, ListPermissions, GivePermissions, FindRow,
             CreateRow, SeedUsers, At, Followed
        <5>5. held' = [o \in Role |-> IF o \in Now(r).roles
                                      THEN held[o] \cup (Now(r).perms \cap seeding[r].all)
                                      ELSE held[o]]
          BY <5>7 DEF GivePermissions
        <5>6. \A o \in DemoGrants[i].roles : DemoGrants[i].perms \cap Known \subseteq held'[o]
          BY <5>3, <5>4, <5>5, RolesOfGrants
        <5> QED
          BY <5>6 DEF Given
      <4> QED
        BY <4>1, <4>2
    <3>11. GivenBy(r)'
      BY <2>2, <3>2, <3>7, <3>8, <3>9, <3>10 DEF GivenBy
    <3> QED
      BY <2>4, <3>3, <3>11
  <2> QED
    BY <2>1, <2>5, <2>6
<1>7. ASSUME NEW o \in Role, NEW keys \in SUBSET (Matrix \cap Known), UpdatePermissions(o, keys)
      PROVE  (\A q \in Runner : GivenBy(q)') /\ GivenInTheEnd'
  <2>1. finished' = finished /\ known' = known /\ edited' = edited \cup {o}
    BY <1>7 DEF UpdatePermissions
  <2>2. \A p \in Role : held[p] \ Matrix \subseteq held'[p] /\ (p # o => held[p] \subseteq held'[p])
    BY <1>1, <1>7 DEF UpdatePermissions
  <2>3. \A i \in DOMAIN DemoGrants : finished => Given(i, held', edited \cup {o})
    BY <1>2, <2>2, GivenShown DEF GivenInTheEnd
  <2>4. ASSUME NEW q \in Runner PROVE GivenBy(q)'
    <3>1. /\ [seeding[q] EXCEPT !.meanwhile = @ \cup {o}].at = seeding[q].at
          /\ [seeding[q] EXCEPT !.meanwhile = @ \cup {o}].all = seeding[q].all
          /\ [seeding[q] EXCEPT !.meanwhile = @ \cup {o}].meanwhile = seeding[q].meanwhile \cup {o}
      BY <1>1 DEF RunState
    <3>2. /\ seeding'[q].at = seeding[q].at /\ seeding'[q].all = seeding[q].all
          /\ \/ seeding'[q].meanwhile = seeding[q].meanwhile \cup {o}
             \/ seeding'[q].meanwhile = seeding[q].meanwhile /\ seeding[q].at = 0
      BY <1>7, <3>1 DEF UpdatePermissions
    <3>3. \A i \in DOMAIN DemoGrants : seeding[q].at > i + 3 => Given(i, held',
    seeding'[q].meanwhile)
      <4> TAKE i \in DOMAIN DemoGrants
      <4> HAVE seeding[q].at > i + 3
      <4>1. ~(0 > i + 3)
        BY GrantsCount
      <4>2. seeding'[q].meanwhile = seeding[q].meanwhile \cup {o}
        BY <3>2, <4>1
      <4>3. Given(i, held, seeding[q].meanwhile)
        BY <1>2 DEF GivenBy
      <4>4. Given(i, held', seeding[q].meanwhile \cup {o})
        BY <2>2, <4>3, GivenShown
      <4> QED
        BY <4>2, <4>4
    <3>4. ~finished => seeding'[q].meanwhile \subseteq edited \cup {o}
      BY <1>2, <3>2 DEF GivenBy
    <3> QED
      BY <1>2, <2>1, <3>2, <3>3, <3>4 DEF GivenBy
  <2> QED
    BY <2>1, <2>3, <2>4 DEF GivenInTheEnd
<1>8. CASE UserStep
  BY <1>4, <1>8 DEF UserStep, UpdatedUser, GrantLanding, RequestDies, UpdateUser, ClearLanding,
     Grant, Revoke, seedVars
<1> QED
  BY <1>4, <1>5, <1>6, <1>7, <1>8
     DEF InstallationNext, RunStep, Progresses, installationVars, seedVars

\* The invariant holds of an installation that is not seeded.
LEMMA InstallationStarts ==
  ASSUME InstallationInit PROVE InstallationInv
<1> USE InstallationAssumption
<1>1. SeedTypeOK
  <2>1. script \in {"demo", "production"}
    BY DEF InstallationInit
  <2>2. NotRunning \in RunState /\ NotRunning.at = 0
    BY WholeCounted DEF NotRunning, RunState
  <2>3. seeding \in [Runner -> RunState] /\ \A r \in Runner : seeding[r].at <= Len(Script)
    BY <2>1, <2>2, ScriptSections DEF InstallationInit
  <2>4. rows \in [Counted -> Counted] /\ raced \subseteq Counted
    BY WholeCounted DEF InstallationInit, Whole
  <2> QED
    BY <2>1, <2>3, <2>4 DEF InstallationInit, SeedTypeOK
<1>2. PeopleTypeOK
  BY DEF InstallationInit, PeopleTypeOK
<1>3. \A r \in Runner : seeding[r] = NotRunning /\ seeding[r].at = 0
  BY DEF InstallationInit, NotRunning
<1>4. RowsInv
  <2>1. \A n \in Counted : Creators(n) = {}
    BY <1>3 DEF Creators, At
  <2>2. \A n \in Counted : rows[n] <= 1
    BY DEF InstallationInit
  <2> QED
    BY <2>1, <2>2 DEF RowsInv
<1>5. PeopleInv
  BY DEF InstallationInit, PeopleInv, Alone, Landing
<1>6. GrantsInv
  <2>1. \A i \in DOMAIN DemoGrants : ~(0 > i + 3)
    BY GrantsCount
  <2>2. NotRunning.meanwhile = {}
    BY DEF NotRunning
  <2> QED
    BY <1>3, <2>1, <2>2 DEF InstallationInit, GrantsInv, GivenBy, GivenInTheEnd
<1> QED
  BY <1>1, <1>2, <1>4, <1>5, <1>6 DEF InstallationInv, InstallationTypeOK

\* The invariant of an installation.
LEMMA InstallationKept ==
  InstallationSpec => []InstallationInv
<1>1. InstallationInit => InstallationInv
  BY InstallationStarts
<1>2. InstallationInv /\ [InstallationNext]_installationVars => InstallationInv'
  BY InstallationTypeStep, RowsStep, PeopleStep, GrantsStep DEF InstallationInv
<1> QED
  BY <1>1, <1>2, PTL DEF InstallationSpec

\* Rows, runs of the seed and requests have their types.
THEOREM InstallationTypeCorrect == InstallationSpec => []InstallationTypeOK
<1>1. InstallationInv => InstallationTypeOK
  BY DEF InstallationInv
<1> QED
  BY <1>1, InstallationKept, PTL

\* A set whose members are all equal has at most one.
LEMMA AtMostOne ==
  ASSUME NEW S, \A a, b \in S : a = b
  PROVE  ~(Cardinality(S) > 1)
<1>1. CASE S = {}
  <2>1. Cardinality(S) = 0
    <3>1. Cardinality({}) = 0
      BY FS_EmptySet, Zenon
    <3> QED
      BY <1>1, <3>1, Zenon
  <2> QED
    BY <2>1
<1>2. CASE S # {}
  <2>1. PICK x : S = {x}
    BY <1>2
  <2>2. Cardinality(S) = 1
    <3>1. Cardinality({x}) = 1
      BY FS_Singleton, Zenon
    <3> QED
      BY <2>1, <3>1, Zenon
  <2> QED
    BY <2>2
<1> QED
  BY <1>1, <1>2

\* For any number of runs and administrators: two organizations, or two administrators'
\* employees of one, are there only where a run looked while another was about to create
\* one; two roles or two landing applications of a user only where two requests were
\* under way at once, or a seed went over what had been changed (seed.prod.ts looks for a
\* row before it creates it, for the employee within its organization; users.service and
\* applications.service change a user in several statements).
THEOREM DoublesOverlap == InstallationSpec => []DoublesNeedOverlap
<1>1. ASSUME InstallationInv PROVE DoublesNeedOverlap
  <2>1. RowsInv /\ PeopleInv /\ rows \in [Counted -> Counted]
    BY <1>1 DEF InstallationInv, InstallationTypeOK, SeedTypeOK
  <2>2. \A n \in Counted : rows[n] > 1 => n \in raced
    <3> SUFFICES ASSUME NEW n \in Counted, n \notin raced PROVE ~(rows[n] > 1)
      BY <2>1
    <3>1. rows[n] <= 1 /\ rows[n] \in Nat
      BY <2>1, WholeCounted DEF RowsInv
    <3> QED
      BY <3>1
  <2>3. ASSUME NEW u \in Member, u \notin crossed
        PROVE  ~(Cardinality(roles[u]) > 1) /\ ~(Cardinality(Landing(u)) > 1)
    <3>1. (\A o, p \in roles[u] : o = p) /\ \A a, b \in Landing(u) : a = b
      BY <2>1, <2>3 DEF PeopleInv, Alone
    <3> QED
      BY <3>1, AtMostOne
  <2> QED
    BY <2>2, <2>3 DEF DoublesNeedOverlap
<1> QED
  BY <1>1, InstallationKept, PTL

\* Whoever holds these permissions is admitted by each of the routes.
Opens(routes, perms) == \A ask \in Asks(routes) : ask = {} \/ ask \cap perms # {}
Does(handlers, verbs) == \A h \in DOMAIN handlers : handlers[h] \in verbs

Managed ==
  {"customers", "vehicles", "visits", "inspections", "work_orders", "inventory", "parts",
   "reservations", "quotations", "invoices", "payments", "expenses", "suppliers",
   "purchase_requests", "purchase_orders", "goods_receipts", "services", "reports",
   "dashboard", "notifications", "board", "tasks"}
Verbs == Actions \cup {"workshop", "inventory", "finance"}

\* Enough for the workshop: what managers, receptionists, accountants and quality
\* controllers are given, and the administration.
WorkshopDay ==
  UNION {ManagerGrants, QualityControllerGrants, ReceptionGrants, AccountantGrants,
         Administration \X Actions}

\* Permissions open two controllers' routes together as they open each.
LEMMA MergedOpens ==
  ASSUME NEW f, NEW g, NEW perms, Opens(f, perms), Opens(g, perms) PROVE Opens(f ++ g, perms)
BY DEF ++, Asks, Opens

\* Routes that ask for nothing are open.
LEMMA UnaskedOpens ==
  ASSUME NEW handlers, NEW perms PROVE Opens(Unasked(handlers), perms)
BY DEF Unasked, Asks, Opens

\* Routes that ask for permissions held are open.
LEMMA AskOpens ==
  ASSUME NEW resource, NEW handlers, NEW perms,
         \A h \in DOMAIN handlers : <<resource, handlers[h]>> \in perms
  PROVE  Opens(Ask(resource, handlers), perms)
BY DEF Ask, Asks, Opens

\* What managers of shops are given opens whatever is asked on what they manage.
LEMMA ManagedOpens ==
  ASSUME NEW resource \in Managed, NEW handlers, Does(handlers, Verbs),
         NEW perms, ManagerGrants \subseteq perms
  PROVE  Opens(Ask(resource, handlers), perms)
<1>1. \A h \in DOMAIN handlers : <<resource, handlers[h]>> \in ManagerGrants
  BY DEF Managed, Verbs, Does, ManagerGrants
<1> QED
  BY <1>1, AskOpens

\* The administration opens its routes.
LEMMA AdministrationOpens ==
  ASSUME NEW resource \in Administration, NEW handlers, Does(handlers, Actions)
  PROVE  Opens(Ask(resource, handlers), WorkshopDay)
<1>1. \A h \in DOMAIN handlers : <<resource, handlers[h]>> \in WorkshopDay
  BY DEF Does, WorkshopDay
<1> QED
  BY <1>1, AskOpens

\* Every route of the workshop asks for something of these.
LEMMA WorkshopOpens ==
  \A ask \in WorkshopAsks : ask = {} \/ ask \cap WorkshopDay # {}
<1> USE DEF Does
<1>1. ManagerGrants \subseteq WorkshopDay
  BY DEF WorkshopDay
<1>2. \A f, g : Opens(f, WorkshopDay) /\ Opens(g, WorkshopDay) => Opens(f ++ g, WorkshopDay)
  BY MergedOpens
<1>3. \A handlers : Opens(Unasked(handlers), WorkshopDay)
  BY UnaskedOpens
<1>4. \A resource \in Managed : \A handlers : Does(handlers, Verbs) =>
        Opens(Ask(resource, handlers), WorkshopDay)
  BY <1>1, ManagedOpens
<1>5. \A resource \in Administration : \A handlers : Does(handlers, Actions) =>
        Opens(Ask(resource, handlers), WorkshopDay)
  BY AdministrationOpens
<1>6. /\ {"customers", "vehicles", "visits", "inspections", "work_orders", "inventory", "parts"}
           \subseteq Managed
      /\ {"reservations", "quotations", "invoices", "payments", "expenses", "suppliers"}
           \subseteq Managed
      /\ {"purchase_requests", "purchase_orders", "goods_receipts", "services", "reports"}
           \subseteq Managed
      /\ {"dashboard", "notifications", "board", "tasks"} \subseteq Managed
      /\ {"users", "roles", "settings", "branches", "audit"} \subseteq Administration
      /\ {"view", "create", "update", "delete", "approve", "reject", "assign", "complete",
          "cancel", "receive", "release", "transfer", "consume", "export", "send", "manage"}
           \subseteq Actions
      /\ Actions \subseteq Verbs /\ {"workshop", "inventory", "finance"} \subseteq Verbs
  BY DEF Managed, Administration, Verbs, Actions
<1>7. /\ Opens(AuthRoutes, WorkshopDay)
      /\ Opens(FileRoutes, WorkshopDay)
      /\ Opens(OrganizationRoutes, WorkshopDay)
      /\ Opens(SearchRoutes, WorkshopDay)
      /\ Opens(UxpRoutes, WorkshopDay)
  BY <1>3 DEF AuthRoutes, FileRoutes, OrganizationRoutes, SearchRoutes, UxpRoutes
<1>8. /\ Opens(AuditRoutes, WorkshopDay)
      /\ Opens(BranchRoutes, WorkshopDay)
      /\ Opens(EmployeeRoutes, WorkshopDay)
      /\ Opens(RoleRoutes, WorkshopDay)
      /\ Opens(SettingRoutes, WorkshopDay)
      /\ Opens(UserRoutes, WorkshopDay)
  BY <1>5, <1>6 DEF AuditRoutes, BranchRoutes, EmployeeRoutes, RoleRoutes, SettingRoutes,
     UserRoutes
<1>9. /\ Opens(CustomerRoutes, WorkshopDay)
      /\ Opens(DashboardRoutes, WorkshopDay)
      /\ Opens(ExpenseRoutes, WorkshopDay)
      /\ Opens(InspectionRoutes, WorkshopDay)
      /\ Opens(StockRoutes, WorkshopDay)
  BY <1>4, <1>6 DEF CustomerRoutes, DashboardRoutes, ExpenseRoutes, InspectionRoutes, StockRoutes
<1>10. /\ Opens(ReservationRoutes, WorkshopDay)
       /\ Opens(PartRoutes, WorkshopDay)
       /\ Opens(PaymentRoutes, WorkshopDay)
       /\ Opens(GoodsReceiptRoutes, WorkshopDay)
       /\ Opens(PurchaseOrderRoutes, WorkshopDay)
  BY <1>4, <1>6 DEF ReservationRoutes, PartRoutes, PaymentRoutes, GoodsReceiptRoutes,
     PurchaseOrderRoutes
<1>11. /\ Opens(PurchaseRequestRoutes, WorkshopDay)
       /\ Opens(QuotationRoutes, WorkshopDay)
       /\ Opens(ReportRoutes, WorkshopDay)
       /\ Opens(ServiceRoutes, WorkshopDay)
       /\ Opens(SupplierRoutes, WorkshopDay)
  BY <1>4, <1>6 DEF PurchaseRequestRoutes, QuotationRoutes, ReportRoutes, ServiceRoutes,
     SupplierRoutes
<1>12. /\ Opens(TaskRoutes, WorkshopDay)
       /\ Opens(VehicleRoutes, WorkshopDay)
       /\ Opens(BoardRoutes, WorkshopDay)
  BY <1>4, <1>6 DEF TaskRoutes, VehicleRoutes, BoardRoutes
<1>13. /\ Opens(IntegrationRoutes, WorkshopDay)
       /\ Opens(InvoiceRoutes, WorkshopDay)
  BY <1>2, <1>4, <1>6 DEF IntegrationRoutes, InvoiceRoutes
<1>14. /\ Opens(NotificationRoutes, WorkshopDay)
       /\ Opens(SyncRoutes, WorkshopDay)
       /\ Opens(WorkOrderRoutes, WorkshopDay)
  BY <1>2, <1>3, <1>4, <1>6 DEF NotificationRoutes, SyncRoutes, WorkOrderRoutes
<1>15. /\ Opens(ApplicationRoutes, WorkshopDay)
       /\ Opens(CheckRoutes, WorkshopDay)
       /\ Opens(TemplateRoutes, WorkshopDay)
  BY <1>2, <1>3, <1>4, <1>5, <1>6 DEF ApplicationRoutes, CheckRoutes, TemplateRoutes
<1>16. Opens(VisitRoutes, WorkshopDay)
  <2>1. <<"visits", "update">> \in WorkshopDay
    BY DEF WorkshopDay, ManagerGrants, Actions
  <2>2. Opens([transition |-> {<<"board", "move">>, <<"visits", "update">>}], WorkshopDay)
    BY <2>1 DEF Opens, Asks
  <2>3. Opens(Ask("visits", [list |-> "view", get |-> "view", checkIn |-> "create",
                             deliver |-> "complete"]), WorkshopDay)
    BY <1>4, <1>6
  <2> QED
    BY <1>2, <2>2, <2>3 DEF VisitRoutes
<1>17. /\ Opens(TicketRoutes, WorkshopDay)
       /\ Opens(TaxRoutes, WorkshopDay)
       /\ Opens(QualityRoutes, WorkshopDay)
  <2>1. <<"tickets", "view">> \in WorkshopDay
    BY DEF WorkshopDay, ReceptionGrants, Own
  <2>2. <<"taxes", "view">> \in WorkshopDay
    BY DEF WorkshopDay, AccountantGrants, Own
  <2>3. \A a \in {"view", "create", "update", "approve", "reject"} : <<"qc", a>> \in WorkshopDay
    BY DEF WorkshopDay, QualityControllerGrants, Own
  <2> QED
    BY <2>1, <2>2, <2>3, AskOpens DEF TicketRoutes, TaxRoutes, QualityRoutes
<1> QED
  BY <1>7, <1>8, <1>9, <1>10, <1>11, <1>12, <1>13, <1>14, <1>15, <1>16, <1>17 DEF WorkshopAsks,
     Opens

\* What customers are given opens the portal.
LEMMA PortalOpens ==
  \A ask \in PortalAsks : ask = {} \/ ask \cap PortalGrants # {}
<1>1. Opens(PortalAuthRoutes, PortalGrants)
  BY UnaskedOpens DEF PortalAuthRoutes
<1>2. Opens(PortalRoutes, PortalGrants)
  BY AskOpens DEF PortalRoutes, PortalGrants
<1> QED
  BY <1>1, <1>2 DEF PortalAsks, Opens

\* What managers of shops are given opens the shops.
LEMMA ShopOpens ==
  \A a \in DOMAIN ManagerOf : \A ask \in ShopAsks[a] : ask = {} \/ ask \cap ManagerGrants # {}
<1> USE DEF Does
<1>1. \A f, g : Opens(f, ManagerGrants) /\ Opens(g, ManagerGrants) => Opens(f ++ g, ManagerGrants)
  BY MergedOpens
<1>2. \A handlers : Opens(Unasked(handlers), ManagerGrants)
  BY UnaskedOpens
<1>3. \A resource \in Managed : \A handlers : Does(handlers, Verbs) =>
        Opens(Ask(resource, handlers), ManagerGrants)
  BY ManagedOpens
<1>4. /\ {"services", "board", "visits", "invoices", "reports"} \subseteq Managed
      /\ {"inventory", "parts", "work_orders", "payments"} \subseteq Managed
      /\ {"view", "create", "update", "cancel", "consume", "finance"} \subseteq Verbs
  BY DEF Managed, Verbs, Actions
<1>5. Opens(UxbJobRoutes, ManagerGrants)
  BY <1>1, <1>3, <1>4 DEF UxbJobRoutes
<1>6. Opens(UxbFilmRoutes, ManagerGrants)
  BY <1>1, <1>3, <1>4 DEF UxbFilmRoutes
<1>7. Opens(TireRoutes, ManagerGrants)
  BY <1>1, <1>2, <1>3, <1>4 DEF TireRoutes
<1>8. Opens(CafeOrderRoutes, ManagerGrants)
  BY <1>1, <1>2, <1>3, <1>4 DEF CafeOrderRoutes
<1>9. Opens(CafeTillRoutes, ManagerGrants)
  BY <1>1, <1>3, <1>4 DEF CafeTillRoutes
<1> QED
  BY <1>5, <1>6, <1>7, <1>8, <1>9 DEF ShopAsks, ManagerOf, Opens

\* The sections that give to these roles.
LEMMA GrantsOf ==
  /\ {2, 6, 13, 16, 19} \subseteq DOMAIN DemoGrants
  /\ DemoGrants[2] = GivesTo({"reception"}, ReceptionGrants)
  /\ DemoGrants[6] = GivesTo({"quality_controller"}, QualityControllerGrants)
  /\ DemoGrants[13] = GivesTo({"accountant"}, AccountantGrants)
  /\ DemoGrants[16] = GivesTo(ShopManagers, ManagerGrants)
  /\ DemoGrants[19] = GivesTo({"customer"}, PortalGrants)
BY DEF DemoGrants

\* Where every permission a route asks for is among those followed, a demo installation
\* whose script has come to its end can be worked in, however often the Roles screen is
\* used and the seed is run again (seed.ts, roles.service updatePermissions, the guards).
THEOREM WorkGoesOn ==
  ASSUME UNION AllAsks \subseteq Known
  PROVE  InstallationSpec => []WorkStaysPossible
<1>1. ASSUME InstallationInv, script = "demo", finished
      PROVE  /\ \A ask \in DayToDay :
                  ask \cap Matrix = {} => \E o \in Role \ {"super_admin"} : ask \cap held[o] # {}
             /\ \A ask \in PortalAsks : ask = {} \/ ask \cap held["customer"] # {}
             /\ \A a \in DOMAIN ManagerOf :
                  LET m == ManagerOf[a]
                  IN  m \in Member /\ m \in roles[m] /\ app[m][a] # "none" /\ m \notin edited =>
                        \A ask \in ShopAsks[a] : Admitted(m, a, ask)
  <2>1. \A i \in DOMAIN DemoGrants : Given(i, held, edited)
    BY <1>1 DEF InstallationInv, GrantsInv, GivenInTheEnd
  <2>2. \A i \in DOMAIN DemoGrants, o \in Role : \A perms :
          \A whom : DemoGrants[i] = GivesTo(whom, perms) /\ o \in whom =>
            /\ (perms \cap Known) \ Matrix \subseteq held[o]
            /\ o \notin edited => perms \cap Known \subseteq held[o]
    BY <2>1 DEF Given, GivesTo
  <2>3. /\ "uxb_manager" \in ShopManagers /\ ShopManagers \subseteq Role
        /\ "super_admin" \notin ShopManagers /\ "customer" \notin ShopManagers
        /\ \A a \in DOMAIN ManagerOf : ManagerOf[a] \in ShopManagers
        /\ {"reception", "quality_controller", "accountant", "customer"} \subseteq Role
    BY DEF ShopManagers, ManagerOf, Role, SharedRoles, WorkshopRoles
  <2>4. /\ (ReceptionGrants \cap Known) \ Matrix \subseteq held["reception"]
        /\ (QualityControllerGrants \cap Known) \ Matrix \subseteq held["quality_controller"]
        /\ (AccountantGrants \cap Known) \ Matrix \subseteq held["accountant"]
        /\ (ManagerGrants \cap Known) \ Matrix \subseteq held["uxb_manager"]
        /\ (PortalGrants \cap Known) \ Matrix \subseteq held["customer"]
        /\ \A m \in ShopManagers : m \notin edited => ManagerGrants \cap Known \subseteq held[m]
    <3>1. {"reception", "quality_controller", "accountant", "customer",
    "uxb_manager"} \subseteq Role
      BY <2>3
    <3> QED
      BY <2>2, <2>3, <3>1, GrantsOf
  <2>5. /\ \A ask \in WorkshopAsks : ask \subseteq Known
        /\ \A ask \in PortalAsks : ask \subseteq Known
        /\ \A a \in DOMAIN ManagerOf : \A ask \in ShopAsks[a] : ask \subseteq Known
    <3>1. WorkshopAsks \subseteq AllAsks /\ PortalAsks \subseteq AllAsks
      BY DEF AllAsks
    <3>2. \A a \in DOMAIN ManagerOf : ShopAsks[a] \subseteq AllAsks
      BY DEF AllAsks, ManagerOf
    <3>3. \A ask \in AllAsks : ask \subseteq Known
      OBVIOUS
    <3> QED
      BY <3>1, <3>2, <3>3
  <2>6. ASSUME NEW ask \in DayToDay, ask \cap Matrix = {}
        PROVE  \E o \in Role \ {"super_admin"} : ask \cap held[o] # {}
    <3>1. ask \in WorkshopAsks /\ ask # {} /\ \A p \in ask : p[1] \notin Administration
      BY <2>6 DEF DayToDay
    <3>2. PICK p \in ask : p \in WorkshopDay
      BY <3>1, WorkshopOpens
    <3>3. p \in Known /\ p \notin Matrix
      BY <2>5, <2>6, <3>1
    <3>4. p \notin Administration \X Actions
      BY <3>1
    <3>5. \/ p \in ManagerGrants \/ p \in QualityControllerGrants
          \/ p \in ReceptionGrants \/ p \in AccountantGrants
      BY <3>2, <3>4 DEF WorkshopDay
    <3> QED
      BY <2>3, <2>4, <3>3, <3>5
  <2>7. ASSUME NEW ask \in PortalAsks PROVE ask = {} \/ ask \cap held["customer"] # {}
    <3>1. PortalGrants \cap Matrix = {}
      BY DEF PortalGrants, Matrix, MatrixResources
    <3> QED
      BY <2>4, <2>5, <3>1, PortalOpens
  <2>8. ASSUME NEW a \in DOMAIN ManagerOf, NEW m, m = ManagerOf[a], m \in Member, m \in roles[m],
               app[m][a] # "none", m \notin edited, NEW ask \in ShopAsks[a]
        PROVE  Admitted(m, a, ask)
    <3>1. ask \subseteq Known /\ (ask = {} \/ ask \cap ManagerGrants # {})
      BY <2>5, ShopOpens
    <3>2. ManagerGrants \cap Known \subseteq held[m] /\ m # "customer"
      BY <2>3, <2>4, <2>8
    <3>3. ask = {} \/ ask \cap held[m] # {}
      BY <3>1, <3>2
    <3> QED
      BY <2>8, <3>2, <3>3 DEF Admitted, IsStaff, HasApp, HasPermission
  <2> QED
    BY <2>6, <2>7, <2>8
<1>2. InstallationInv => WorkStaysPossible
  BY <1>1 DEF WorkStaysPossible
<1> QED
  BY <1>2, InstallationKept, PTL
=============================================================================
