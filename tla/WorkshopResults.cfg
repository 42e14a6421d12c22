SPECIFICATION SceneSpec
SYMMETRY RowSymmetry
CONSTANTS
  Scenes = {"intake"}
  MaxInspections = 1
  MaxQuotes = 1
  MaxOrders = 0
  MaxTasks = 0
  MaxChecks = 0
  NewTasks = 1
  Content = {small}
  Clerk = {c1, c2}
PROPERTY CompletedInspectionStays
