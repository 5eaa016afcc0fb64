SPECIFICATION Spec
CONSTANTS
  Affected = {}
  RetryLabels = {}
  SetupLabels = {}
  PluginNames = {"p"}
  PluginWhen <- OnePluginWhen
  PluginTask <- OnePluginTask
  IgnoreDeletes = {FALSE}
  KeepPods = FALSE
  DeleteBeforeFirstStage = FALSE
  EvictPhases = {"Running"}
  EvictRecordedOnly = FALSE
  EvictAfterLook = TRUE
  PodLag = TRUE
  Faults = {"create"}
  MaxUid = 2
  MaxGen = 1
  MaxPods = 4
  MaxLabels = 0
  MaxFailures = 0
  MaxEvictions = 1
  MaxFaults = 0
INVARIANTS
  StatusOfIncarnation
  PluginsRunOncePerGeneration
CHECK_DEADLOCK FALSE
