SPECIFICATION Spec
CONSTANTS
  t1 = t1
  t2 = t2
  e1 = e1
  e2 = e2
  nobody = nobody
  Tokens = {t1, t2}
  Entities = {e1, e2}
  Nobody = nobody
  Capital = 5
  Starter = 1
  Full = 3
  Fees = {0, 1}
  Runner <- MCRunner
  Changes <- MCChanges
  MaxRaises = 0
  MaxLosses = 1
PROPERTIES
  RestartKeepsNav
CHECK_DEADLOCK FALSE
