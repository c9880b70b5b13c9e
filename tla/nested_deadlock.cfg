SPECIFICATION Spec
CONSTANTS
  c1 = c1
  c2 = c2
  c3 = c3
  Clients = {c1, c2, c3}
  Asks <- MCAsks
  NumLoops = 2
  ThreadNum <- MCThreadNum
  Fds = {3, 4, 5, 6}
  Width = 5
  Faulty = FALSE
PROPERTY EveryCallEnds
CHECK_DEADLOCK FALSE
