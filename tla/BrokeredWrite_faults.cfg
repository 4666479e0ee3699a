SPECIFICATION FairSpec
CONSTANTS
  t1 = t1  t2 = t2  w1 = w1  w2 = w2  owner = owner  agent = agent
  Ticket <- OneTicket
  Worker <- MCWorker
  Caller <- MCCaller
  Op <- AllOps
  OwnerOp <- GuardedOps
  LocalOp <- MCLocalOp
  Owner = owner
  Ttl = 1
  OwnerTtl = 2
  MaxTime = 3
  CanCrash = TRUE
  StorageFaults = TRUE
  NoRow = NoRow  NoTicket = NoTicket  NoJob = NoJob  NoCall = NoCall  NoWorker = NoWorker
PROPERTIES
  BurnedForCause
  ApprovalKept
  NoOrphanClaim
  ClaimSettles
