\* Movements between two warehouses and the alerts under repeated scans.
SPECIFICATION FairSpec
CONSTANTS
  Warehouse = {w1, w2}
  Part = {p1}
  MinStock <- MCMinStock
  AlertRow = {1, 2}
  MaxOnHand = 2
  WorkOrder = {wo1}
  MaxReservations = 0
  Clerk = {}
  Quantity = {1}
  ScanTake = 1
  Overlapped <- MCOverlapped
INVARIANT LedgerAgrees
PROPERTIES
  AlertsReconciled
  DuplicateAlertNeedsOverlap
