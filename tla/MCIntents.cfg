SPECIFICATION MCSpec
CONSTANTS
  b1 = b1
  b2 = b2
  w1 = w1
  w2 = w2
  i1 = i1
  i2 = i2
  None = None
  Bundles = {b1, b2}
  Items = {i1, i2}
  Expected <- Rivals
  Workers = {w1, w2}
  LeaseTime = 2
  MaxTime = 3
  MaxAttempts = 2
  MaxRevision = 2
  Topic = topic  Fact = fact
  c1 = c1  c2 = c2
  Clients = {c1, c2}
  Relations = {"unknown", "contextual_return"}
  Lengths = {100}
  Days = {0, 10, 40}
  MaxForeign = 1
  Nothing = Nothing
  Worlds = {"alone"}
CHECK_DEADLOCK FALSE
INVARIANTS
  AcceptedApplies
