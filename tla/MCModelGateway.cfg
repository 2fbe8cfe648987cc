CONSTANTS
  Procs = {"p", "q"}
  Domains = {"acme"}
  Evidence <- PublicAndPersonal
  HasFast = TRUE
  CloudTasks = {"strong"}
  Dimensions = {"calls", "cloud"}
  Ceiling <- TwoCalls
  Weight <- CallsAndCloudTokens
  MaxVisits = 3
  MaxRefusals = 1
SPECIFICATION FairSpec
INVARIANTS
  PaidOnceUnlessLost
  SpentWithinCeiling
  AnswersAreOwn
PROPERTIES
  SelectionEnds
CHECK_DEADLOCK FALSE
