SPECIFICATION CounterSpec
SYMMETRY RowSymmetry
CONSTANTS
  Counters = {"kitchen"}
  Seller = {s1, s2}
  TireOrder = {t1}
  Product = {plain, warranted}
  Warranted = {warranted}
  Fits = {warranted}
  Supply <- SupplyOfTyres
  MaxRev = 2
  CafeOrder = {k1, k2}
  Session = {drawer1, drawer2}
  Ingredient = {beans}
  Recipe <- OneDose
  Extra <- OneDose
  Pantry <- TwoDoses
  MaxWaste = 1
  Job = {j1}
  Panel = {hood}
  Roll = {r1}
  RollLength = 2
  MaxEdits = 2
INVARIANT BaristaNeverBlocked
CHECK_DEADLOCK FALSE
