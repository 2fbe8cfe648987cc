CONSTANTS
  Requests = {1, 2, 3}
  Rate = 1
  Concurrency = 1
  Window = 4
  Timeout = 2
  LeaseSlack = 1
  LockWait = 1
  CapacityWait = 2
  Poll = 2
  MaxStall = 1
  Horizon = 9
SPECIFICATION Spec
INVARIANTS
  TimelyCeiling
  LeasedCeiling
  StartsPerWindow
  BoundedWait
  NoLeftovers
PROPERTY NoOvertaking
CHECK_DEADLOCK FALSE
