SPECIFICATION Spec
CONSTANTS
  w1 = w1  w2 = w2  w3 = w3
  Writer <- Writers
  Outcome <- MCOutcome
  MaxCalls = 5
  ReadLimit = 3
  TornWrites = TRUE
  NoCall = NoCall  NoTail = NoTail  Partial = Partial  Garbage = Garbage
SYMMETRY Perms
INVARIANTS
  RecordsKept
  
  
CHECK_DEADLOCK FALSE
