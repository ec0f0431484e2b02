SPECIFICATION Spec
CONSTANTS
  e1 = e1
  e2 = e2
  hue = hue
  zha = zha
  Entities = {e1, e2}
  Integration <- TwoOfTwo
  Dead = {"unavailable"}
  Healthy = {"on"}
  Window = 2
  ChronicAfter = 3
  MinIntegrations = 2
  MinEntities = 1
  RegistryAnswers = {TRUE}
  ComeAndGo = FALSE
  StorageFails = TRUE
  MaxTime = 6
  MaxChanges = 4
  Backlog = 1
  MaxSessions = 2
  MaxSaves = 0
  MaxRuns = 1
SYMMETRY Alike
INVARIANT OutagesAreApart
PROPERTY OutageIsRaised
CHECK_DEADLOCK FALSE
