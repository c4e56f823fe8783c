\* What the hourly sweep owes eventually, with statements that may fail.
\* No symmetry: it is unsound for liveness.
SPECIFICATION FairSpec
CONSTANTS
  ga = ga
  gb = gb
  Groups <- OneGroup
  MsgIds = {m1}
  Peers = {}
  Cancels = {c1}
  Sweepers = {s1}
  Scheduled = {s1}
  Watched = {ga}
  Alerted = {ga}
  Listings <- SingleListing
  Statuses = {"y"}
  Policies <- Flood
  FloodDays = 1
  HistoryDays = 1
  MaxNum = 1
  MaxDay = 2
PROPERTIES
  BannedGroupsEmptied
  OrphansSwept
CHECK_DEADLOCK FALSE
