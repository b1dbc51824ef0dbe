SPECIFICATION LiveSpec
CONSTANTS
  e1 = e1
  e2 = e2
  Signatures = {e1, e2}
  Units = 4
  SolanaSizes = {3}
  FomoSizes = {2}
  MaxRelease = 2
  MaxFaults = 1
INVARIANTS
  TypeOK
  EnteredOnceUnlessCut
  RefusedHoldNoCapital
PROPERTIES
  MeasuredCapitalReturns
  EntriesAreFundedOrDropped
CHECK_DEADLOCK FALSE
