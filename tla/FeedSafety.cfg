\* Two workers and an administrator who changes the peer: what leaves the queue.
SPECIFICATION Spec
CONSTANTS
  Ids = {m1, m2}
  Peers = {p1}
  Workers = {w1, w2}
  Batch = 2
  Enabled0 = {p1}
  AdminPeers = {p1}
  MaxCrashes = 0
INVARIANTS
  OneDeliveryPerLease
PROPERTIES
  KeepsPromise
SYMMETRY Symmetry
CHECK_DEADLOCK FALSE
