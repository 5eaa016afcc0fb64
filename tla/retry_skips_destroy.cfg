SPECIFICATION Spec
CONSTANTS
  Affected = {}
  RetryLabels = {"again"}
  SetupLabels = {}
  PluginNames = {}
  PluginWhen <- NoPluginWhen
  PluginTask <- NoPluginTask
  IgnoreDeletes = {FALSE}
  KeepPods = FALSE
  DeleteBeforeFirstStage = FALSE
  EvictPhases = {}
  EvictRecordedOnly = FALSE
  EvictAfterLook = TRUE
  PodLag = FALSE
  Faults = {}
  MaxUid = 1
  MaxGen = 1
  MaxPods = 12
  MaxLabels = 1
  MaxFailures = 0
  MaxEvictions = 0
  MaxFaults = 0
PROPERTIES
  ReleasedOnlyAfterDestroy
CHECK_DEADLOCK FALSE
