SPECIFICATION FairTailSpec
CONSTANTS
  Fingerprints = {"oom", "usb"}
  Critical = {"oom"}
  Dedupe = 3
  Minute = 2
  MaxPerMinute = 2
  MaxRecent = 1
  MinDelay = 1
  MaxDelay = 3
  MaxTime = 4
  MaxFaults = 1
  MaxRuns = 2
INVARIANT NoRepeatInWindow
PROPERTIES DroppedForCause TailBacksOff
CHECK_DEADLOCK FALSE
