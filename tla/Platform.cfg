SPECIFICATION PlatformSpec
SYMMETRY WorkerSymmetry
CONSTANTS
  Scenes = {"desk", "batch", "update", "numbers", "staff", "customer", "figures"}
  p1 = p1 p2 = p2 v1 = v1 v2 = v2
  key1 = key1 key2 = key2 c1 = c1 r1 = r1 n1 = n1 n2 = n2
  u1 = u1 u2 = u2 u3 = u3 a1 = a1 x1 = x1 x2 = x2
  Phone = {p1, p2}
  Plate = {v1, v2}
  Nobody = Nobody
  Series = {"JT", "TZ"}
  Checked = {"JT"}
  Aligned = {"JT"}
  MaxAttempts = 2
  MaxNumber = 3
  MaxYear = 2
  DayLength = 2
  MaxClock = 2
  MaxVisits = 3
  Worker = {w1, w2}
  Batches <- AllBatches
  MaxSends = 3
  MaxCrashes = 1
  Staff = {s1}
  Customer = {m1}
  Request = {w1, w2}
  MaxFailed = 1
  MaxWrong = 1
  MaxTries = 1
  MaxTokens = 3
  MaxCodes = 1
  Branch = {b1}
  Figures = {f1}
  Reader = {w1, w2}
  Invalidator = {w1, w2}
  MaxWrites = 2
INVARIANTS SecondVisitNeedsOverlap AppliedOnce BehindOnlyBySeed
  SuccessorsNeedOverlap StaleOnlyIfOvertaken
PROPERTY LaterEntriesStay
CHECK_DEADLOCK FALSE
