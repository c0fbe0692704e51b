SPECIFICATION Spec
CONSTANTS
  Runs <- TwoRuns
  Platforms <- OnePaid
  Cost <- OneCost
  Allocation = 2
  Settlers = {s1}
  Cancellers = {u1}
  MaxInFlight = 2
  MaxFaults = 0
INVARIANTS HeldWithinBudget
CHECK_DEADLOCK FALSE
