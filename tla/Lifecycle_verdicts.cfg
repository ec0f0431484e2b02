SPECIFICATION FairSpec
CONSTANTS
  FaultPoints = {"classify", "gather", "openRow", "closeRow", "flush"}
  MaxRuns = 3
  MaxBoots = 3
  MaxBeats = 2
  MaxFaults = 1
  MaxStops = 1
INVARIANT TypeOK
INVARIANT HeartbeatIsDurable
INVARIANT VerdictIsTrue
INVARIANT OutageStartsAtDeath
INVARIANT UncleanEndIsRecorded
PROPERTY StopCompletes
CHECK_DEADLOCK FALSE
