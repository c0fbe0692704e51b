SPECIFICATION Spec
CONSTANTS
  TermArenas <- DualMode
  ActorArenas <- DualMode
  IdleArenas <- NoArenas
  DispatchRetries = 0
  JobRetries = 0
  CheckLimit = 2
  MaxCancels = 0
  MaxFaults = 0
INVARIANTS DecisionsWaitForJobs
CHECK_DEADLOCK FALSE
