\* A cancel that runs while the article is being posted.
SPECIFICATION Spec
CONSTANTS
  ga = ga
  gb = gb
  m1 = m1
  m2 = m2
  Groups <- MCGroups
  MsgIds <- MCMsgIds
  Txns = {1, 2}
  MaxNum = 9
  Work <- PostAndCancel
INVARIANTS
  CancelWithdraws
CHECK_DEADLOCK FALSE
