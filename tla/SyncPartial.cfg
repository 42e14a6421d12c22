SPECIFICATION SceneSpec
SYMMETRY WorkerSymmetry
CONSTANTS
  Scenes = {"batch"}
  p1 = p1 p2 = p2 v1 = v1 v2 = v2
  key1 = key1 key2 = key2 c1 = c1 r1 = r1 n1 = n1 n2 = n2
  u1 = u1 u2 = u2 u3 = u3 a1 = a1 x1 = x1 x2 = x2
  Phone = {p1, p2}
  Plate = {v1, v2}
  Nobody = Nobody
  Series = {"JT", "TZ"}
  Checked = {"JT"}
  Aligned = {"JT"}
  MaxAttempts = 2
  MaxNumber = 3
  MaxYear = 2
  DayLength = 2
  MaxClock = 2
  MaxVisits = 3
  Worker = {w1, w2}
  Batches <- AllBatches
  MaxSends = 1
  MaxCrashes = 0
PROPERTY EveryOperationAnswered
CHECK_DEADLOCK FALSE
