\* An accepted article whose acknowledgement cannot be written is never offered.
SPECIFICATION FairSpec
CONSTANTS
  Ids = {m1}
  Peers = {p1}
  Workers = {w1}
  Batch = 1
  Enabled0 = {p1}
  AdminPeers = {}
  MaxCrashes = 0
PROPERTIES
  AcceptedIsOffered
CHECK_DEADLOCK FALSE
