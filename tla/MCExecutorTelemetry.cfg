CONSTANTS
  Procs = {"p", "q"}
  Calls = {1, 2, 3}
  Owner <- AllButLast
  Retries = 0
  Failures = 2
  Cooldown = 2
  Limit = 1
  MaxCalls <- Unlimited
  MaxUnits = 1
  Horizon = 2
SPECIFICATION Spec
INVARIANT EveryCallRecorded
CHECK_DEADLOCK FALSE
