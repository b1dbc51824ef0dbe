SPECIFICATION Spec
CONSTANTS
  p1 = p1
  p2 = p2
  s1 = s1
  s2 = s2
  s3 = s3
  Positions = {p1}
  TotalRaw = 8
  FirstRaw = 2
  SecondRaw = 4
  RunnerRaw = 1
  Sells = {s1, s2}
  MaxCrashes = 0
INVARIANTS
  SoldWithinHeld
SYMMETRY Symmetry
CHECK_DEADLOCK FALSE
