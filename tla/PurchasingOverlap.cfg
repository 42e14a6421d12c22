SPECIFICATION SceneSpec
SYMMETRY ClerkSymmetry
CONSTANTS
  Scenes = {"receipts"}
  p1 = p1
  Quotation = {}
  Part = {p1}
  MaxRequests = 0
  MaxOrders = 1
  MaxReceipts = 2
  MaxOrdered = 2
  MaxLines = 1
  Clerk = {c1, c2}
INVARIANTS ItemsRecordArrivals
CHECK_DEADLOCK FALSE
