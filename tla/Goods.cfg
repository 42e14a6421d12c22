\* Two requests at a time: at the parts desk for the holds of one part, and in each shop.
SPECIFICATION GoodsSpec
SYMMETRY RowSymmetry
CONSTANTS
  Counters = {"parts", "tirezone", "till", "kitchen", "uxb"}
  Seller = {s1, s2}
  Warehouse = {w1}
  Part = {p1}
  MinStock <- NoMinimum
  AlertRow = {1, 2}
  MaxOnHand = 2
  WorkOrder = {wo1}
  MaxReservations = 2
  Clerk = {s1, s2}
  Quantity = {1, 2}
  ScanTake = 1
  Overlapped = {}
  TireOrder = {t1}
  Product = {plain, warranted}
  Warranted = {warranted}
  Fits = {warranted}
  Supply <- SupplyOfTyres
  MaxRev = 2
  CafeOrder = {k1, k2}
  Session = {drawer1, drawer2}
  Ingredient = {beans}
  Recipe <- OneDose
  Extra <- OneDose
  Pantry <- TwoDoses
  MaxWaste = 1
  Job = {j1}
  Panel = {hood}
  Roll = {r1}
  RollLength = 2
  MaxEdits = 2
INVARIANTS
  StockConsistent NoPhantomHold ConsumptionBounded
  GoodsAccounted WarrantedLineSoldOnce CashIsOfOwnSales InvoicesNeedOverlap
PROPERTIES HoldsDriftOnlyByStaleClose StagesInOrder
CHECK_DEADLOCK FALSE
