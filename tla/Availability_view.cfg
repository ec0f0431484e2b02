SPECIFICATION Spec
CONSTANTS
  e1 = e1
  e2 = e2
  hue = hue
  zha = zha
  Entities = {e1}
  Integration <- One
  Dead = {"unavailable"}
  Healthy = {"on"}
  Window = 1
  ChronicAfter = 2
  MinIntegrations = 2
  MinEntities = 1
  RegistryAnswers = {TRUE, FALSE}
  ComeAndGo = TRUE
  StorageFails = TRUE
  MaxTime = 4
  MaxChanges = 3
  Backlog = 2
  MaxSessions = 2
  MaxSaves = 1
  MaxRuns = 2
INVARIANT ViewConverges
INVARIANT ChronicIsTrue
CHECK_DEADLOCK FALSE
