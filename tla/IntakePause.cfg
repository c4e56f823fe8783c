\* A pause refuses new articles, with POST.
SPECIFICATION Spec
CONSTANTS
  m1 = m1
  m2 = m2
  s1 = s1
  s2 = s2
  Sessions = {s1}
  Ids <- MCIds
  Inputs <- Few
  Sends <- OnePoster
  UsersExist = FALSE
  RememberRejects = TRUE
INVARIANTS
  PauseRefusesArticles
