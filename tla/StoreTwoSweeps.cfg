\* The hourly job and an admin request sweep at once, articles waiting for a peer.
SPECIFICATION Spec
CONSTANTS
  ga = ga
  gb = gb
  Groups <- MCGroups
  MsgIds = {m1, m2}
  Peers = {p1}
  Cancels = {}
  Sweepers = {s1, s2}
  Scheduled = {s1}
  Watched = {ga}
  Alerted = {ga}
  Listings <- TwoListings
  Statuses = {}
  Policies <- NoPolicies
  FloodDays = 1
  HistoryDays = 1
  MaxNum = 2
  MaxDay = 0
PROPERTIES
  WithdrawnFromQueue
SYMMETRY Symmetry
CHECK_DEADLOCK FALSE
