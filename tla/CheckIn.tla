-------------------------------- MODULE CheckIn --------------------------------
(***************************************************************************)
(* Reception: the customers, the vehicles with their owners, and the       *)
(* visits with their job tickets. checkIn is one transaction, but only its *)
(* second half, from the row lock of the vehicle on, is serialised: the    *)
(* look for another visit of the day comes before it. So a check-in is a   *)
(* reading and, later, a commit; other transactions may commit in between. *)
(***************************************************************************)
EXTENDS NumberSequence, Sequences

CONSTANTS Phone,      \* customers, by the phone number that is unique among them
          Plate,      \* vehicles, by their unique plate
          Nobody,     \* the owner of a plate that is not registered
          DayLength,  \* clock ticks in a day
          MaxClock,   \* bound: the last tick
          MaxVisits   \* bound: visits

ASSUME ReceptionAssumption ==
  /\ "JT" \in Series /\ Nobody \notin Phone
  /\ DayLength \in Nat \ {0} /\ MaxClock \in Nat /\ MaxVisits \in Nat

VARIABLES now,        \* the server's clock
          customers,  \* the phones registered
          vehicles,   \* the owner of each plate
          visits      \* vehicle_visits in the order they were committed

rowVars == <<customers, vehicles, visits>>
checkInVars == <<now, rowVars, numberVars>>

Day(t) == t \div DayLength

\* A complaint or a fuel reading, by the request that brought it. A visit also
\* remembers which request made it and how many visits were there when that
\* request looked for one.
Entered(by) == [by |-> by, at |-> now]
NewVisit(by, form, seen) ==
  [by |-> by, plate |-> form.plate, customer |-> form.customer, day |-> Day(now),
   active |-> TRUE, version |-> 1, updatedAt |-> now,
   notes |-> {Entered(by)}, fuel |-> Entered(by), seen |-> seen]

ReceptionInit ==
  /\ now = 1
  /\ customers = {} /\ vehicles = [p \in Plate |-> Nobody] /\ visits = <<>>

-----------------------------------------------------------------------------
\* A mutant of VisitsToday: it asks for visits that are completed.
VisitsTodayDone(plate) ==
  {i \in 1..Len(visits) : /\ visits[i].plate = plate /\ ~visits[i].active
                          /\ visits[i].day = Day(now)}

VisitsToday(plate) ==
  {i \in 1..Len(visits) : /\ visits[i].plate = plate /\ visits[i].active
                          /\ visits[i].day = Day(now)}

\* A form names a customer and a vehicle, each new or known; a known vehicle is
\* the known customer's.
NamesBoth(form) ==
  /\ form.newCustomer \/ form.customer \in customers
  /\ \/ form.newVehicle
     \/ /\ ~form.newCustomer /\ form.plate \in Plate
        /\ vehicles[form.plate] = form.customer

\* What the reading of a form can come to: "bad" (400), "conflict" (409) or "ok".
ReadingOf(form) ==
  IF ~NamesBoth(form) THEN "bad"
  ELSE IF ~form.newVehicle /\ VisitsToday(form.plate) # {} THEN "conflict" ELSE "ok"

\* The unique indexes on phone and plate decide at the commit.
Collides(form) ==
  \/ form.newCustomer /\ form.customer \in customers
  \/ form.newVehicle /\ vehicles[form.plate] # Nobody

\* The rest of the transaction: the new rows, the number, the visit and its ticket.
CommitCheckIn(by, form, seen) ==
  /\ ~Collides(form)
  /\ Len(visits) < MaxVisits
  /\ customers' = IF form.newCustomer THEN customers \cup {form.customer} ELSE customers
  /\ vehicles' = IF form.newVehicle THEN [vehicles EXCEPT ![form.plate] = form.customer]
                                    ELSE vehicles
  /\ visits' = Append(visits, NewVisit(by, form, seen))
  /\ CreateNumbered("JT")
  /\ UNCHANGED now

-----------------------------------------------------------------------------
\* The workshop moves a visit on, in the end to its delivery.
MoveVisit(i, delivered) ==
  /\ visits[i].active
  /\ visits' = [visits EXCEPT ![i].version = @ + 1, ![i].updatedAt = now,
                              ![i].active = ~delivered]
  /\ UNCHANGED <<now, customers, vehicles, numberVars>>

\* vehicles.update with a customerId: the vehicle is sold.
TransferVehicle(plate, to) ==
  /\ vehicles[plate] \notin {Nobody, to}
  /\ to \in customers
  /\ vehicles' = [vehicles EXCEPT ![plate] = to]
  /\ UNCHANGED <<now, customers, visits, numberVars>>

Tick ==
  /\ now < MaxClock
  /\ now' = now + 1
  /\ UNCHANGED <<rowVars, numberVars>>

-----------------------------------------------------------------------------
ReceptionTypeOK ==
  /\ now \in Nat
  /\ customers \subseteq Phone
  /\ vehicles \in [Plate -> customers \cup {Nobody}]
  /\ \A i \in 1..Len(visits) :
       /\ visits[i].customer \in customers /\ vehicles[visits[i].plate] # Nobody
       /\ visits[i].seen < i

\* checkIn, "Reject duplicate same-day check-in for same plate": a vehicle gets a
\* second visit on a day on which it has one in the workshop only from a check-in
\* that looked before the first was committed.
SecondVisitNeedsOverlap ==
  \A i, j \in 1..Len(visits) :
    /\ i < j /\ visits[i].plate = visits[j].plate
    /\ visits[i].day = visits[j].day /\ visits[i].active
    => visits[j].seen < i
=============================================================================
