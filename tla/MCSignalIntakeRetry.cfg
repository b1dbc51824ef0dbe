SPECIFICATION IntakeSpec
CONSTANTS
  t1 = t1
  e1 = e1
  e2 = e2
  e3 = e3
  nobody = nobody
  s1 = s1
  s2 = s2
  s3 = s3
  noswap = noswap
  Tokens = {t1}
  Entities = {e1, e2, e3}
  Nobody = nobody
  Capital = 2
  Starter = 1
  Full = 3
  Fees = {0}
  Runner <- MCRunner
  Changes <- MCChanges
  MaxRaises = 0
  MaxLosses = 0
  Swaps = {s1, s2}
  TokenOf <- MCTokenOf
  EntityOf <- MCEntityOf
  TierOf <- MCTierOf
  ObservedAt <- MCObservedAt
  NoSwap = noswap
  Malformed = {}
  MaxFailures = 1
INVARIANTS
  CompletedWereIngested
CHECK_DEADLOCK FALSE
