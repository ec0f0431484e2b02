SPECIFICATION Spec
CONSTANTS
  Metrics = {m1}
  Minute = 2
  FirstWindow = 6
  MaxFirst = 6
  RawKeep = 5
  RollupKeep = 7
  MaxPass = 1
  StartTime = 2
  MaxTime = 10
  MaxSamples = 3
  MaxFaults = 2
INVARIANT EverySampleCounted
PROPERTY RowsOnlyGrow
CHECK_DEADLOCK FALSE
