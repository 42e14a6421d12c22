-------------------------------- MODULE Outbox --------------------------------
(***************************************************************************)
(* The outbox: domain-events.service inserts events in the transactions of *)
(* their causes; outbox-dispatcher.service drains them. A drain claims the *)
(* oldest pending rows in a transaction that skips rows others have        *)
(* locked, notifies the recipients of one event after the other, stages    *)
(* the event's new status, commits all of them together and then tells the *)
(* in-process bus.                                                         *)
(*                                                                         *)
(* The notifications are not part of that transaction: they stay when it   *)
(* is lost. It is lost when its worker crashes, and when it takes longer   *)
(* than its 60 seconds; then the rows are free for others although the     *)
(* worker goes on until its next write to the outbox is refused.           *)
(***************************************************************************)
EXTENDS Naturals, FiniteSetsExt

CONSTANTS Event,       \* by the time they are created
          User,
          Recipient,   \* who is routed an event, and wants it
          Worker,      \* drains that may run at the same time
          Limit,       \* rows a drain claims
          MaxTimeouts, \* bound: transactions that time out
          MaxCrashes   \* bound: crashes

ASSUME OutboxAssumption ==
  /\ Event \subseteq Nat \ {0} /\ IsFiniteSet(Event)
  /\ Recipient \in [Event -> SUBSET User]
  /\ Limit \in Nat \ {0} /\ MaxTimeouts \in Nat /\ MaxCrashes \in Nat

NoEvent == 0
NoUser  == "nobody"

ASSUME NoUserAssumption == NoUser \notin User

VARIABLES status,   \* outbox_events.status, "none" before the event happens
          note,     \* notifications of an event, per user
          bus,      \* how often the bus was told of an event
          drain,    \* what each worker is doing
          timeouts,
          crashes

vars == <<status, note, bus, drain, timeouts, crashes>>

Status == {"none", "pending", "published", "failed"}

\* tx is the worker's transaction; claimed are the rows it locks, todo those it
\* has not taken up, now the one it dispatches, to the users left, one of whom
\* it found without a notification; done and bad are staged, told is what the
\* bus is still to be told.
Drain == [tx: {"none", "open", "lost"}, claimed: SUBSET Event, todo: SUBSET Event,
          now: Event \cup {NoEvent}, left: SUBSET User, missing: User \cup {NoUser},
          done: SUBSET Event, bad: SUBSET Event, tell: SUBSET Event]

Resting == [tx |-> "none", claimed |-> {}, todo |-> {}, now |-> NoEvent, left |-> {},
            missing |-> NoUser, done |-> {}, bad |-> {}, tell |-> {}]

TypeOK ==
  /\ status \in [Event -> Status]
  /\ note \in [Event -> [User -> Nat]]
  /\ bus \in [Event -> Nat]
  /\ drain \in [Worker -> Drain]
  /\ timeouts \in 0..MaxTimeouts /\ crashes \in 0..MaxCrashes

Init ==
  /\ status = [e \in Event |-> "none"]
  /\ note = [e \in Event |-> [u \in User |-> 0]]
  /\ bus = [e \in Event |-> 0]
  /\ drain = [w \in Worker |-> Resting]
  /\ timeouts = 0 /\ crashes = 0

Emit(e) ==
  /\ status[e] = "none"
  /\ status' = [status EXCEPT ![e] = "pending"]
  /\ UNCHANGED <<note, bus, drain, timeouts, crashes>>

-----------------------------------------------------------------------------
Locked == UNION {drain[w].claimed : w \in {v \in Worker : drain[v].tx = "open"}}

\* Mutant: the rows are not locked.
ClaimableUnlocked == {e \in Event : status[e] = "pending"}

Claimable == {e \in Event : status[e] = "pending"} \ Locked

\* The Limit oldest rows that can be claimed.
Oldest == {e \in Claimable : Cardinality({f \in Claimable : f < e}) < Limit}

Claim(w) ==
  /\ drain[w] = Resting
  /\ Oldest # {}
  /\ drain' = [drain EXCEPT ![w].tx = "open", ![w].claimed = Oldest, ![w].todo = Oldest]
  /\ UNCHANGED <<status, note, bus, timeouts, crashes>>

\* Whether the transaction is lost shows at the next write.
TakeUp(w) ==
  /\ drain[w].now = NoEvent /\ drain[w].todo # {}
  /\ LET e == Min(drain[w].todo)
     IN drain' = [drain EXCEPT ![w].now = e, ![w].todo = @ \ {e}, ![w].left = Recipient[e]]
  /\ UNCHANGED <<status, note, bus, timeouts, crashes>>

\* Mutant: without a look for the marker.
LookForNothing(w, u) ==
  /\ u \in drain[w].left /\ drain[w].missing = NoUser
  /\ drain' = [drain EXCEPT ![w].missing = u]
  /\ UNCHANGED <<status, note, bus, timeouts, crashes>>

\* dispatchOutboxEvent looks for the marker of the event among the
\* notifications of the user, and then creates one.
LookFor(w, u) ==
  /\ u \in drain[w].left /\ drain[w].missing = NoUser
  /\ drain' = IF note[drain[w].now][u] > 0
              THEN [drain EXCEPT ![w].left = @ \ {u}]
              ELSE [drain EXCEPT ![w].missing = u]
  /\ UNCHANGED <<status, note, bus, timeouts, crashes>>

Notify(w) ==
  /\ drain[w].missing # NoUser
  /\ note' = [note EXCEPT ![drain[w].now][drain[w].missing] = @ + 1]
  /\ drain' = [drain EXCEPT ![w].left = @ \ {drain[w].missing}, ![w].missing = NoUser]
  /\ UNCHANGED <<status, bus, timeouts, crashes>>

\* The end of an event: staged, or the whole drain fails for its transaction is
\* lost.
Stage(w, d) ==
  /\ drain' = [drain EXCEPT ![w] = IF drain[w].tx = "open" THEN d ELSE Resting]
  /\ UNCHANGED <<status, note, bus, timeouts, crashes>>

\* Mutant: the event is published whoever is left to notify.
DispatchedEarly(w) ==
  /\ drain[w].now # NoEvent /\ drain[w].missing = NoUser
  /\ Stage(w, [drain[w] EXCEPT !.now = NoEvent, !.left = {}, !.done = @ \cup {drain[w].now}])

Dispatched(w) ==
  /\ drain[w].now # NoEvent /\ drain[w].left = {}
  /\ Stage(w, [drain[w] EXCEPT !.now = NoEvent, !.done = @ \cup {drain[w].now}])

\* An error of the cache or of a notification.
Failed(w) ==
  /\ drain[w].now # NoEvent
  /\ Stage(w, [drain[w] EXCEPT !.now = NoEvent, !.left = {}, !.missing = NoUser,
                               !.bad = @ \cup {drain[w].now}])

\* Mutant: an event whose dispatch failed is left as it was.
CommitDone(w) ==
  /\ drain[w].tx = "open" /\ drain[w].now = NoEvent /\ drain[w].todo = {}
  /\ status' = [e \in Event |-> IF e \in drain[w].done THEN "published" ELSE status[e]]
  /\ drain' = [drain EXCEPT ![w] = [Resting EXCEPT !.tell = drain[w].done]]
  /\ UNCHANGED <<note, bus, timeouts, crashes>>

Commit(w) ==
  /\ drain[w].tx = "open" /\ drain[w].now = NoEvent /\ drain[w].todo = {}
  /\ status' = [e \in Event |-> IF e \in drain[w].done THEN "published"
                                ELSE IF e \in drain[w].bad THEN "failed"
                                ELSE status[e]]
  /\ drain' = [drain EXCEPT ![w] = [Resting EXCEPT !.tell = drain[w].done]]
  /\ UNCHANGED <<note, bus, timeouts, crashes>>

Publish(w) ==
  /\ drain[w].tx = "none" /\ drain[w].tell # {}
  /\ LET e == Min(drain[w].tell)
     IN /\ bus' = [bus EXCEPT ![e] = @ + 1]
        /\ drain' = [drain EXCEPT ![w].tell = @ \ {e}]
  /\ UNCHANGED <<status, note, timeouts, crashes>>

-----------------------------------------------------------------------------
Timeout(w) ==
  /\ timeouts < MaxTimeouts
  /\ drain[w].tx = "open"
  /\ timeouts' = timeouts + 1
  /\ drain' = [drain EXCEPT ![w].tx = "lost"]
  /\ UNCHANGED <<status, note, bus, crashes>>

\* The commit of a lost transaction.
Lose(w) ==
  /\ drain[w].tx = "lost" /\ drain[w].now = NoEvent /\ drain[w].todo = {}
  /\ drain' = [drain EXCEPT ![w] = Resting]
  /\ UNCHANGED <<status, note, bus, timeouts, crashes>>

Crash(w) ==
  /\ crashes < MaxCrashes
  /\ drain[w] # Resting
  /\ crashes' = crashes + 1
  /\ drain' = [drain EXCEPT ![w] = Resting]
  /\ UNCHANGED <<status, note, bus, timeouts>>

Work(w) == \/ Claim(w) \/ TakeUp(w) \/ Notify(w) \/ Dispatched(w) \/ Failed(w)
           \/ Commit(w) \/ Publish(w) \/ Lose(w)
           \/ \E u \in User : LookFor(w, u)

Next == \/ \E e \in Event : Emit(e)
        \/ \E w \in Worker : Work(w) \/ Timeout(w) \/ Crash(w)

Spec == Init /\ [][Next]_vars

\* The job is repeated every three seconds in every process, and a drain that
\* has begun goes on by itself.
FairSpec == Spec /\ \A w \in Worker : WF_vars(Work(w))

-----------------------------------------------------------------------------
Settled(e) == status[e] \in {"published", "failed"}

\* A published event has reached everyone it is for, although notifications and
\* status are not written together and drains are lost halfway.
PublishedReachedAll ==
  \A e \in Event : status[e] = "published" => \A u \in Recipient[e] : note[e][u] > 0

\* The bus is told of an event at most once, and only of a published one,
\* however many drains took it up.
AnnouncedOnce ==
  \A e \in Event :
    LET by == {w \in Worker : e \in drain[w].tell}
    IN  /\ bus[e] + Cardinality(by) <= 1
        /\ bus[e] > 0 \/ by # {} => status[e] = "published"

\* Who is notified of one event more than once owes it to transactions that
\* timed out while their workers went on; crashes and overlapping drains alone
\* repeat nothing.
RepeatsNeedTimeouts == \A e \in Event, u \in User : note[e][u] <= 1 + timeouts

\* Every event that happened is published or given up in the end.
EveryEventSettles == \A e \in Event : status[e] = "pending" ~> Settled(e)

=============================================================================
