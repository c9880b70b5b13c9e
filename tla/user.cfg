SPECIFICATION Spec
CONSTANTS
  c1 = c1
  c2 = c2
  c3 = c3
  Clients = {c1, c2, c3}
  Asks <- MCAsks
  NumLoops = 3
  ThreadNum <- MCThreadNum
  Fds = {3, 4, 5, 6, 7}
  Width = 5
  Faulty = TRUE
INVARIANTS
  AnswerRight
  NothingIsCached
PROPERTIES
  CacheCallReturns
  AnsweredUnlessBlocked
CHECK_DEADLOCK FALSE
