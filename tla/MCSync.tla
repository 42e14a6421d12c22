--------------------------------- MODULE MCSync ---------------------------------
(* Instances of Sync for TLC. A run looks at one scene, chosen in the initial   *)
(* state: the desk, whose forms compete for a known vehicle; two devices that   *)
(* register the same newcomer; two that update one visit; and the numbers alone.*)
EXTENDS Sync

CONSTANTS Scenes, p1, p2, v1, v2, key1, key2, c1, r1, n1, n2, u1, u2, u3, a1, x1, x2

VARIABLE scene

Desk(key, plate, fresh) ==
  [id |-> key, kind |-> "desk", customer |-> p1, plate |-> plate,
   newCustomer |-> FALSE, newVehicle |-> fresh]
Check(id, customer, plate) ==
  [id |-> id, kind |-> "visit", customer |-> customer, plate |-> plate,
   newCustomer |-> FALSE, newVehicle |-> FALSE]
Newcomer(id) == [Check(id, p2, v2) EXCEPT !.newCustomer = TRUE, !.newVehicle = TRUE]
NewCustomer(id) == [id |-> id, kind |-> "customer", customer |-> p2]
NewVehicle(id, customer) ==
  [id |-> id, kind |-> "vehicle", customer |-> customer, plate |-> v2]
Update(id, visit, versioned) ==
  [id |-> id, kind |-> "update", visit |-> visit, versioned |-> versioned, fuel |-> TRUE]
Complaint(id, visit) == [Update(id, visit, FALSE) EXCEPT !.fuel = FALSE]
Attachment(id, visit) == [id |-> id, kind |-> "attachment", visit |-> visit]
Plain(id, kind) == [id |-> id, kind |-> kind]

BatchesOf(s) ==
  CASE s = "desk" -> {<<Desk(key1, v1, FALSE)>>, <<Desk(key1, v2, TRUE)>>,
                      <<Desk(key2, v1, FALSE)>>}
    [] s = "batch" -> {<<NewCustomer(c1), NewVehicle(r1, c1), Check(n1, c1, r1),
                         Complaint(u1, n1)>>,
                       <<Plain(x1, "forbidden"), Newcomer(n2), Attachment(a1, n2)>>}
    [] s = "update" -> {<<Update(u2, 1, TRUE)>>, <<Update(u3, 1, FALSE), Plain(x2, "malformed")>>}
    [] OTHER -> {}

AllBatches == UNION {BatchesOf(s) : s \in Scenes}

\* The known vehicle's owner is registered; in one scene a visit is there as well.
\* Where the clock stands still or does not matter the batches are ready to be sent.
SceneInit ==
  /\ scene \in Scenes
  /\ now = 1 /\ NumbersInit
  /\ customers = {p1}
  /\ vehicles = [p \in Plate |-> IF p = v1 THEN p1 ELSE Nobody]
  /\ visits = IF scene = "update"
              THEN <<NewVisit(key1, Desk(key1, v1, FALSE), 0)>> ELSE <<>>
  /\ QuietInit
  /\ captured = [b \in Batches |-> IF scene # "update" /\ b \in BatchesOf(scene)
                                   THEN [at |-> 1, versions |-> <<>>] ELSE Unsent]

\* The workshop delivers a visit at once, or moves it a few times.
Delivers == ReceptionNext /\ \E i \in 1..Len(visits) : visits'[i].active # visits[i].active
Moves == ReceptionNext /\ \E i \in 1..Len(visits) :
  visits'[i].active /\ visits'[i].version = visits[i].version + 1 /\ visits[i].version < 3

Passes == Tick /\ UNCHANGED syncVars

SceneNext ==
  /\ UNCHANGED scene
  /\ \/ SyncNext /\ \A b \in AllBatches \ BatchesOf(scene) : captured'[b] = Unsent
     \/ scene = "desk" /\ (Delivers \/ Passes)
     \/ scene = "update" /\ (Moves \/ Passes)
     \/ scene = "batch" /\ ReceptionNext /\ UNCHANGED <<numberVars, now, visits>>
     \/ scene = "numbers" /\ ReceptionNext /\ UNCHANGED <<now, rowVars>>

SceneSpec == SceneInit /\ [][SceneNext]_<<scene, vars>>
WorkerSymmetry == Permutations(Worker)
=============================================================================
