SPECIFICATION FairSpec
CONSTANTS
  p = p  q = q  i1 = i1  s1 = s1
  Person <- MCPerson
  Plan <- MCPlan
  Session <- MCSession
  App <- MCApp
  Tested = {"app"}
  ControlPlane = "yunohost_mcp"
  Latest = 2
  Ttl = 1
  MaxTime = 1
  NoRow = NoRow  Unused = Unused  Gone = Gone  NoWork = NoWork
INVARIANTS
  PlanRunsOnce
  SafeBackupIsCurrent
  ViolationMeansNotUpgraded
  CycleCleansUp
  PassedMeansTested
PROPERTIES
  
  LockReleased
