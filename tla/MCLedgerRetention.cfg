CONSTANTS
  Runs = {1, 2}
  Reports <- MCReports
  Found <- MCFound
  Unlinked <- MCUnlinked
  Family <- MCFamily
  Unclassified = "unclassified"
  Workers = 1
  MaxGathers = 2
  MaxStops = 1
  MaxRetentions = 1
SPECIFICATION Spec
INVARIANT RetentionRemoves
CHECK_DEADLOCK FALSE
