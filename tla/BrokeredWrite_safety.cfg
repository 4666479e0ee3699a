SPECIFICATION Spec
CONSTANTS
  t1 = t1  t2 = t2  w1 = w1  w2 = w2  owner = owner  agent = agent
  Ticket <- TwoTickets
  Worker <- MCWorker
  Caller <- MCCaller
  Op <- GuardedOps
  OwnerOp <- GuardedOps
  LocalOp <- MCLocalOp
  Owner = owner
  Ttl = 1
  OwnerTtl = 2
  MaxTime = 2
  CanCrash = TRUE
  StorageFaults = FALSE
  NoRow = NoRow  NoTicket = NoTicket  NoJob = NoJob  NoCall = NoCall  NoWorker = NoWorker
INVARIANTS
  TypeOK
  AtMostOnce
  Authorised
  ExclusiveClaim
PROPERTY ImplementsOneShot
SYMMETRY Symmetry
