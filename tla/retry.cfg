SPECIFICATION Spec
CONSTANTS
  Affected = {}
  RetryLabels = {"again", "again.setup"}
  SetupLabels = {"again.setup"}
  PluginNames = {}
  PluginWhen <- NoPluginWhen
  PluginTask <- NoPluginTask
  IgnoreDeletes = {FALSE}
  KeepPods = TRUE
  DeleteBeforeFirstStage = FALSE
  EvictPhases = {}
  EvictRecordedOnly = FALSE
  EvictAfterLook = TRUE
  PodLag = FALSE
  Faults = {}
  MaxUid = 1
  MaxGen = 1
  MaxPods = 7
  MaxLabels = 2
  MaxFailures = 0
  MaxEvictions = 0
  MaxFaults = 0
INVARIANTS
  CompletedAfterRetry
CHECK_DEADLOCK FALSE
