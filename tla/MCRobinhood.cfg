SPECIFICATION Spec
CONSTANTS
  v1 = v1
  v2 = v2
  v3 = v3
  other = other
  null = null
  Evidences = {v1, v2, v3}
  Others = {other}
  Nothing = null
  Units = 4
  OtherSizes = {2}
  Target = 3
  MaxLots = 3
  MaxRelease = 2
  MaxLosses = 1
INVARIANTS
  TypeOK
  OpenLotsAreBacked
  EvidenceEntersOnce
  PositionIsCovered
  PositionMatchesUnlessOvertaken
  RealisedWasSold
  CapitalFollowsExposure
SYMMETRY Symmetry
CHECK_DEADLOCK FALSE
