CONSTANTS
  r = r
  a = a
  b = b
  c = c
  x = x
  ip = ip
  Domains = {r, a}
  Root = r
  Procs = {p, q}
  MaxAttempts = 2
  MaxDepth = 1
  MaxPendingQueue = 0
  GlobalMaxNodes = 0
  MaxStops = 0
  Overlap = TRUE
  Subdomains <- PairSubdomains
  ReverseWhois <- PairReverseWhois
  Acquisitions <- Nothing
  Redirects <- Nothing
  Attributes <- Nothing
  EarlierCache <- NoCache
SPECIFICATION Spec
INVARIANTS
  NoLostChild
CHECK_DEADLOCK FALSE
