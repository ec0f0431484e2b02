SPECIFICATION StopsSpec
CONSTANTS
  Fingerprints = {"oom"}
  Critical = {"oom"}
  Oom = "oom"
  OomWindow = 3
  SlowInterval = 10
  Dedupe = 4
  Minute = 2
  MaxPerMinute = 2
  MaxRecent = 2
  MinDelay = 1
  MaxDelay = 10
  MaxTime = 12
  MaxFaults = 0
  MaxRuns = 1
INVARIANT KillsAreNamed
CHECK_DEADLOCK FALSE
