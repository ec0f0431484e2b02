SPECIFICATION FairSpec
CONSTANTS
  DownAfter = 2
  SlowCount = 2
  ProbeDelay = 0
  BackOff = 1
  FaultPoints = {"probe", "openRow", "openEvent", "freeze", "alertDown", "closeRow", "closeEvent", "alertUp", "slowEvent", "alertSlow", "sample"}
  MaxTime = 8
  MaxRuns = 2
  MaxFaults = 1
INVARIANT TypeOK
INVARIANT OpenRowsOwned
INVARIANT EventsAlternate
INVARIANT IncidentsDisjoint
INVARIANT OutagesAlerted
PROPERTY OpensOnSustainedOutage
PROPERTY ImplementsLog
PROPERTY OutageIsRecorded
PROPERTY RecoveryIsRecorded
CHECK_DEADLOCK FALSE
