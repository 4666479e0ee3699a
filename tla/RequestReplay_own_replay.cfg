SPECIFICATION Spec
CONSTANTS
  e1 = e1  b1 = b1  b2 = b2
  Event <- OneEvent
  Thread <- MCThread
  Tool <- AllTools
  Skew = 1
  Ttl = 3
  MaxTime = 2
  BrokerRestarts = FALSE
  NoRequest = NoRequest  NoJob = NoJob
INVARIANT NeverReplaysItself
SYMMETRY Symmetry
CHECK_DEADLOCK FALSE
