CONSTANTS
  r = r
  a = a
  b = b
  c = c
  x = x
  ip = ip
  Domains = {r, a, b, c, x}
  Root = r
  Procs = {p}
  MaxAttempts = 2
  MaxDepth = 2
  MaxPendingQueue = 0
  GlobalMaxNodes = 6
  MaxStops = 2
  Overlap = FALSE
  Subdomains <- TwoPathsSubdomains
  ReverseWhois <- TwoPathsReverseWhois
  Acquisitions <- TwoPathsAcquisitions
  Redirects <- TwoPathsRedirects
  Attributes <- TwoPathsAttributes
  EarlierCache <- NoCache
SPECIFICATION Spec
INVARIANTS
  ProcessedBeforeSucceeded
  NoLostChild
  CompletedLeavesNothing
  ShallowestFirst
  CacheHoldsOwnChildren
  RegularDepthCapHolds
PROPERTIES
  ImplementsQueue
CHECK_DEADLOCK FALSE
