CONSTANTS
  Procs = {"p", "q"}
  Calls = {1, 2, 3, 4}
  Owner <- AllButLast
  Retries = 1
  Failures = 2
  Cooldown = 1
  Limit = 1
  MaxCalls <- Unlimited
  MaxUnits = 4
  Horizon = 2
SPECIFICATION FairSpec
INVARIANTS
  PaidWithinBudget
  ThresholdOpens
PROPERTIES
  RejectedForCause
  CallsEnd
CHECK_DEADLOCK FALSE
