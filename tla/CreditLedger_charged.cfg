SPECIFICATION Spec
CONSTANTS
  Runs <- OneRun
  Platforms <- OnePaid
  Cost <- OneCost
  Allocation = 2
  Settlers = {s1}
  Cancellers = {u1}
  MaxInFlight = 1
  MaxFaults = 0
INVARIANTS RefundedIsNotCharged
CHECK_DEADLOCK FALSE
