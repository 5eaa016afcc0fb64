SPECIFICATION Spec
CONSTANTS
  Affected = {"postplan"}
  RetryLabels = {}
  SetupLabels = {}
  PluginNames = {}
  PluginWhen <- NoPluginWhen
  PluginTask <- NoPluginTask
  IgnoreDeletes = {FALSE}
  KeepPods = TRUE
  DeleteBeforeFirstStage = FALSE
  EvictPhases = {"Failed"}
  EvictRecordedOnly = TRUE
  EvictAfterLook = FALSE
  PodLag = FALSE
  Faults = {"crash"}
  MaxUid = 1
  MaxGen = 1
  MaxPods = 10
  MaxLabels = 0
  MaxFailures = 2
  MaxEvictions = 2
  MaxFaults = 1
INVARIANTS
  ApplyHasFreshPlan
CHECK_DEADLOCK FALSE
