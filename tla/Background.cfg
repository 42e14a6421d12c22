SPECIFICATION BackgroundSpec
CONSTANTS
  Scenes = {"events", "reminders", "demo", "production", "roles"}
  u1 = u1 u2 = u2 v1 = v1 d1 = d1 i1 = i1
  Event = {1, 2, 3}
  User <- MCUser
  Recipient <- MCRecipient
  Worker = {w1, w2}
  Limit = 2
  MaxTimeouts = 1
  MaxCrashes = 1
  Run = {r1, r2}
  Sweep = {"oil", "delivery"}
  Vehicle = {v1}
  Visit = {d1}
  Warranty = {}
  Customer = {}
  Driven <- MCDriven
  ValidUntil <- Nothing
  Promised <- MCPromised
  LastVisit <- Nothing
  OilInterval = 5
  OilWarn = 1
  WarnDays = 1
  LapsedDays = 3
  Cooldown <- MCCooldown
  Take <- MCTake
  MaxDay = 1
  MaxFaults = 1
  Known <- AllKnown
  Member = {"uxb_manager", "super_admin"}
  Runner = {i1, i2}
  Admin = {a1, a2}
  MaxRows = 2
INVARIANTS PublishedReachedAll AnnouncedOnce RepeatsNeedTimeouts
  OverlapsNeedLostLocks WorkStaysPossible DoublesNeedOverlap
PROPERTIES EveryEventSettles RemindedInTheEnd
CHECK_DEADLOCK FALSE
