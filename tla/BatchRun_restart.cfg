SPECIFICATION Spec
CONSTANTS
  TermArenas <- TermOnly
  ActorArenas <- NoArenas
  IdleArenas <- NoArenas
  DispatchRetries = 0
  JobRetries = 0
  CheckLimit = 2
  MaxCancels = 1
  MaxFaults = 0
PROPERTIES EndedRunsDoNotRestart
CHECK_DEADLOCK FALSE
