\* The state after overlapping releases, against the test on concurrent reserves.
SPECIFICATION Spec
CONSTANTS
  Warehouse = {w1}
  Part = {p1}
  MinStock <- MCMinStock
  AlertRow = {1, 2}
  MaxOnHand = 2
  WorkOrder = {wo1}
  MaxReservations = 2
  Clerk = {c1, c2}
  Quantity = {1, 2}
  ScanTake = 1
  Overlapped = {}
INVARIANT
  ReservedIsHeld
