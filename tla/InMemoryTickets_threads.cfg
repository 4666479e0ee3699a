SPECIFICATION Spec
CONSTANTS
  t1 = t1  t2 = t2  owner = owner  agent = agent
  Ticket <- TwoTickets
  Caller <- MCCaller
  Op <- GuardedOps
  OwnerOp <- GuardedOps
  LocalOp <- AuditOps
  Owner = owner
  Ttl = 1
  OwnerTtl = 2
  MaxTime = 2
  PushEnabled = TRUE
  NoRow = NoRow  NoTicket = NoTicket
INVARIANTS
  Authorised
  OneShotUnderLock
SYMMETRY Symmetry
