SPECIFICATION Spec
CONSTANTS
  TermArenas <- TermOnly
  ActorArenas <- NoArenas
  IdleArenas <- NoArenas
  DispatchRetries = 1
  JobRetries = 0
  CheckLimit = 1
  MaxCancels = 1
  MaxFaults = 1
INVARIANTS TypeOK LateBatchesBounded
PROPERTIES RunRowSpec CancelledRowsStayClosed
CHECK_DEADLOCK FALSE
