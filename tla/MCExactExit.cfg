SPECIFICATION FairSpec
CONSTANTS
  e1 = e1
  e2 = e2
  worker = worker
  o1 = o1
  o2 = o2
  Entries = {e1}
  Lanes = 2
  MaxAttempts = 2
  Worker = worker
  Observers = {o1}
  MaxCrashes = 1
INVARIANTS
  TypeOK
  CountedAttemptsAreRecorded
  TotalLossOnlyAfterWindow
  MeasurementCitesRecord
PROPERTIES
  FirstMeasurementStands
  DueExitsClose
CHECK_DEADLOCK FALSE
