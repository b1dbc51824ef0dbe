SPECIFICATION Spec
CONSTANTS
  t1 = t1
  t2 = t2
  e1 = e1
  e2 = e2
  nobody = nobody
  Tokens = {t1, t2}
  Entities = {e1, e2}
  Nobody = nobody
  Capital = 3
  Starter = 1
  Full = 2
  Fees = {1}
  Runner <- MCRunner
  Changes <- MCChanges
  MaxRaises = 1
  MaxLosses = 2
INVARIANTS
  TypeOK
  OpenPositionsAreWatched
  BoughtWithinFull
PROPERTIES
  RestartIsExactOrBlocked
SYMMETRY Symmetry
CHECK_DEADLOCK FALSE
