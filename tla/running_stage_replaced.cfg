SPECIFICATION Spec
CONSTANTS
  Affected = {}
  RetryLabels = {}
  SetupLabels = {}
  PluginNames = {}
  PluginWhen <- NoPluginWhen
  PluginTask <- NoPluginTask
  IgnoreDeletes = {FALSE}
  KeepPods = FALSE
  DeleteBeforeFirstStage = FALSE
  EvictPhases = {}
  EvictRecordedOnly = FALSE
  EvictAfterLook = TRUE
  PodLag = FALSE
  Faults = {}
  MaxUid = 1
  MaxGen = 2
  MaxPods = 8
  MaxLabels = 0
  MaxFailures = 0
  MaxEvictions = 0
  MaxFaults = 0
PROPERTIES
  UninterruptibleStageKept
CHECK_DEADLOCK FALSE
