\* Posts, cancels, groups that come and go, and one sweep with its failures.
SPECIFICATION Spec
CONSTANTS
  ga = ga
  gb = gb
  Groups <- MCGroups
  MsgIds = {m1, m2}
  Peers = {}
  Cancels = {c1}
  Sweepers = {s1}
  Scheduled = {s1}
  Watched = {ga}
  Alerted = {}
  Listings <- DoubleListings
  Statuses = {"y"}
  Policies <- NoPolicies
  FloodDays = 1
  HistoryDays = 1
  MaxNum = 2
  MaxDay = 2
INVARIANTS
  TypeOK
  NumberNamesOneArticle
  CountCoversRows
  StoredIsRemembered
  RowsReferToArticles
PROPERTIES
  NoReacceptWithinHistoryDays
  WithdrawnEverywhere
  KeepsNumbers
SYMMETRY Symmetry
CHECK_DEADLOCK FALSE
