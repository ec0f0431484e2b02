SPECIFICATION Spec
CONSTANTS
  Keep = 2
  MaxArchives = 4
  MaxFaults = 2
INVARIANTS EvidenceKept DirectoryBounded DownloadsAreWhole
CHECK_DEADLOCK FALSE
