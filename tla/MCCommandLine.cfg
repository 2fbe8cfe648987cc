CONSTANTS
  Procs = {p, q, r}
  Edits <- MCEdits
  NoValue = NoValue
  Versions = {1, 2}
  Backup <- MCBackup
  MaxIndex = 3
  MaxKills = 1
SPECIFICATION Spec
SYMMETRY Alike
INVARIANTS ConfigKept MigratedInOrder  ArtifactsKept
CHECK_DEADLOCK FALSE
