SPECIFICATION Spec
CONSTANTS
  e1 = e1
  e2 = e2
  hue = hue
  zha = zha
  Entities = {e1}
  Integration <- One
  Dead = {"unavailable"}
  Healthy = {"on"}
  Window = 2
  ChronicAfter = 3
  MinIntegrations = 1
  MinEntities = 1
  RegistryAnswers = {TRUE}
  ComeAndGo = FALSE
  StorageFails = FALSE
  MaxTime = 8
  MaxChanges = 5
  Backlog = 1
  MaxSessions = 1
  MaxSaves = 0
  MaxRuns = 1
INVARIANT FlappingIsNoEvidence
CHECK_DEADLOCK FALSE
