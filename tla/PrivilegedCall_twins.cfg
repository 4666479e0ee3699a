CONSTANTS
  Role = {"nobody", "operator", "developer"}
  Asked <- MCAsked
  NoTicket = NoTicket
  NoCall = NoCall
SPECIFICATION Spec
INVARIANT ConfirmedToolRuns
