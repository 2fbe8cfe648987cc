CONSTANTS
  MaxAttempts = 2
  Keys = {k1, k2, k3}
  Workers = {w1, w2}
  Damaged = {k3}
SPECIFICATION Spec
INVARIANTS
  NoStrandedTask
  OneWorkerPerAttempt
PROPERTY SettledIsFinal
