SPECIFICATION LegacySpec
CONSTANTS
  r1 = r1
  r2 = r2
  a = a
  b = b
  c = c
  residual1 = residual1
  residual2 = residual2
  Releases = {r1, r2}
  Ids = {a, b}
  Residuals = {residual1}
  Units = 3
  Calls <- MCCalls
  Returns <- MCReturns
PROPERTIES
  GrantsStayWithinPortfolio
  DuplicatesFailClosed
SYMMETRY LegacySymmetry
CHECK_DEADLOCK FALSE
