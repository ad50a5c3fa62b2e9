SPECIFICATION FairSpec
CONSTANTS
  c1 = c1  c2 = c2  m1 = m1  m2 = m2  p1 = p1  p2 = p2  o1 = o1  o2 = o2
  NoKey = NoKey
  Objects = {o1, o2}
  ParentOf <- MCParentOf
  Commits = {c1, c2}
  Compares = {m1, m2}
  Pulls = {p1, p2}
  Inputs <- MCInputs
  Records <- MCRecords
  Requests = 2
  QueuedUnits = 3
  Concurrency = 2
  CacheReads = 3
  CacheWrites = 1
  MaxPages = 2
  RetryTimes = {1, 2}
  WithCache = TRUE
INVARIANTS
  MainAlone
  LedgerWithinBounds
  CompleteIsProven
  RateLimitShared
  DispatchIsPrefix
  UnknownIsAccounted
PROPERTIES
  Settles
  Termination
