SPECIFICATION Spec
CONSTANTS
  r1 = r1
  r2 = r2
  a = a
  b = b
  c = c
  residual1 = residual1
  residual2 = residual2
  Releases = {r1, r2}
  Ids = {a, b, c}
  Residuals = {residual1, residual2}
  Units = 4
  Calls <- MCCalls
  Returns <- MCReturns
INVARIANTS
  TypeOK
  CapitalConserved
  OneRowPerReservation
  SettlementMatchesReservation
PROPERTIES
  HistoryIsImmutable
  ImplementsAccount
SYMMETRY MCSymmetry
CHECK_DEADLOCK FALSE
