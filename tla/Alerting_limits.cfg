SPECIFICATION AlertingSpec
CONSTANTS
  Tasks = {detector, other}
  Detector = detector
  Titles = {"down", "up", "other"}
  Down = "down"
  Up = "up"
  Hour = 2
  Dedupe = 5
  MaxPerHour = 1
  StorageFails = TRUE
  MaxTime = 6
  MaxAlerts = 5
  MaxRuns = 2
INVARIANTS TypeOK RepeatsAreApart CapHolds LastWordIsTrue
PROPERTY SuppressedForCause
CHECK_DEADLOCK FALSE
