SPECIFICATION Spec
CONSTANTS
  e1 = e1
  e2 = e2
  Signatures = {e1}
  Units = 4
  SolanaSizes = {1, 3}
  FomoSizes = {2}
  MaxRelease = 1
  MaxFaults = 0
INVARIANTS
  OpportunityFundedOnce
CHECK_DEADLOCK FALSE
