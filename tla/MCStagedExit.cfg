SPECIFICATION Spec
CONSTANTS
  p1 = p1
  p2 = p2
  s1 = s1
  s2 = s2
  s3 = s3
  Positions = {p1, p2}
  TotalRaw = 8
  FirstRaw = 2
  SecondRaw = 4
  RunnerRaw = 1
  Sells = {s1, s2, s3}
  MaxCrashes = 1
INVARIANTS
  TypeOK
  RemainingIsAccounted
  MeasurementsAgree
  SpentPositionsAreMeasured
PROPERTIES
  StageNeverRegresses
SYMMETRY Symmetry
CHECK_DEADLOCK FALSE
