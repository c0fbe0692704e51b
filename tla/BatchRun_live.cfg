SPECIFICATION OneMishapSpec
CONSTANTS
  TermArenas <- TermOnly
  ActorArenas <- NoArenas
  IdleArenas <- NoArenas
  DispatchRetries = 1
  JobRetries = 0
  CheckLimit = 2
  MaxCancels = 1
  MaxFaults = 1
PROPERTIES StartedRunsEnd EndsAreAnnounced
CHECK_DEADLOCK FALSE
