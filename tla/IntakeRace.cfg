\* A session that sends everything, and one that races it with the same article.
SPECIFICATION Spec
CONSTANTS
  m1 = m1
  m2 = m2
  s1 = s1
  s2 = s2
  Sessions = {s1, s2}
  Ids <- MCIds
  Inputs <- All
  Sends <- Rivals
  UsersExist = TRUE
  RememberRejects = TRUE
INVARIANTS
  StoredOnce
  AcknowledgedIsStored
  MailedIsNotStored
  PeersOneFinalReply
  PauseRefusesTransfers
