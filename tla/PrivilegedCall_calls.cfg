CONSTANTS
  Role = {"nobody", "operator", "developer"}
  Asked <- MCAsked
  NoTicket = NoTicket
  NoCall = NoCall
SPECIFICATION Spec
INVARIANTS TypeOK NothingLost ClaimedAtRoot PlanIsWhatRuns AcceptedIsAdmitted
