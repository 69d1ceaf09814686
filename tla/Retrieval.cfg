SPECIFICATION RetrFairSpec
CONSTANTS
  c1 = c1
  u1 = u1
  u2 = u2
  r1 = r1
  r2 = r2
  Chunks = {c1}
  Readers = {u1}
  Scenarios <- MCScenarios
  Handlers = {r1, r2}
  SubQueries <- MCQueries
  ResultCache = TRUE
  Reranker = TRUE
  ServerTimeout = 1
  CacheTtl = 2
  MaxAclChanges = 1
  MaxOutages = 2
INVARIANTS StaleAnswerBounded FailuresDegrade
PROPERTIES EveryRequestEnds
