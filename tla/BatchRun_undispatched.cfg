SPECIFICATION FairSpec
CONSTANTS
  TermArenas <- TermOnly
  ActorArenas <- NoArenas
  IdleArenas <- NoArenas
  DispatchRetries = 0
  JobRetries = 0
  CheckLimit = 2
  MaxCancels = 0
  MaxFaults = 1
PROPERTIES UndispatchedRunsFail
CHECK_DEADLOCK FALSE
