SPECIFICATION SceneSpec
SYMMETRY RowSymmetry
CONSTANTS
  Scenes = {"intake", "quotes", "checks"}
  MaxInspections = 2
  MaxQuotes = 3
  MaxOrders = 1
  MaxTasks = 2
  MaxChecks = 2
  NewTasks = 1
  Content = {small}
  Clerk = {c1, c2}
INVARIANTS DeliveryAfterPass OneNextVersion
PROPERTIES ApprovalHasOrder StatusesFollowTables
