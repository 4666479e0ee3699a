SPECIFICATION FairSpec
CONSTANTS
  r1 = r1  r2 = r2  r3 = r3
  Request <- Three
  NoConn = NoConn
INVARIANTS
  NoLeak
  Paced
PROPERTIES
  DropsItsOwn
  RequestsEnd
  ShutdownEnds
CHECK_DEADLOCK FALSE
