\* The queue drains, one row a claim. No symmetry: it is unsound for liveness.
SPECIFICATION FairSpec
CONSTANTS
  Ids = {m1, m2}
  Peers = {p1}
  Workers = {w1}
  Batch = 1
  Enabled0 = {p1}
  AdminPeers = {}
  MaxCrashes = 1
PROPERTIES
  QueueDrains
CHECK_DEADLOCK FALSE
