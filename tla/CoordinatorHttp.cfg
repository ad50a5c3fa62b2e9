SPECIFICATION Spec
CONSTANTS
  c1 = c1  c2 = c2  m1 = m1  m2 = m2  p1 = p1  p2 = p2  o1 = o1  o2 = o2
  NoKey = NoKey
  Objects = {o1, o2}
  ParentOf <- MCParentOf
  Commits = {c1}
  Compares = {m1}
  Pulls = {}
  Inputs <- BudgetInputs
  Records <- NoRecords
  Requests = 2
  QueuedUnits = 2
  Concurrency = 2
  CacheReads = 1
  CacheWrites = 1
  MaxPages = 2
  RetryTimes = {1}
  WithCache = FALSE
INVARIANT
  HttpWithinBudget
