CONSTANTS
  r = r
  a = a
  b = b
  c = c
  x = x
  ip = ip
  Domains = {r, a, b}
  Root = r
  Procs = {p}
  MaxAttempts = 2
  MaxDepth <- NoCap
  MaxPendingQueue = 2
  GlobalMaxNodes = 0
  MaxStops = 2
  Overlap = FALSE
  Subdomains <- RingSubdomains
  ReverseWhois <- RingReverseWhois
  Acquisitions <- Nothing
  Redirects <- Nothing
  Attributes <- Nothing
  EarlierCache <- RingCache
SPECIFICATION FairSpec
INVARIANTS
  DepthIsPaidFor
PROPERTIES
  Drains
CHECK_DEADLOCK FALSE
